-------------------------- MODULE MediaDevicesProofs --------------------------
(***************************************************************************)
(* Theorems about MediaDevices for any folders, files, models and play     *)
(* queues.                                                                 *)
(***************************************************************************)
EXTENDS MediaDevices, FunctionTheorems, FiniteSetTheorems, TLAPS

------------------------------------------------------------------------------
(* Ordering: how many are ranked below tells the members of a set apart.     *)
RankedBelow(S, rank, x) == {y \in S : rank[y] < rank[x]}

\* No two members of S have the same rank.
Ranked(S, rank) ==
    /\ IsFiniteSet(S) /\ \A x \in S : rank[x] \in Nat
    /\ \A x, y \in S : rank[x] = rank[y] => x = y

LEMMA PlacesDiffer ==
    ASSUME NEW S, NEW rank, Ranked(S, rank)
    PROVE  /\ \A x \in S : Cardinality(RankedBelow(S, rank, x)) \in 0 .. Cardinality(S) - 1
           /\ \A x, y \in S : rank[x] < rank[y] =>
                Cardinality(RankedBelow(S, rank, x)) < Cardinality(RankedBelow(S, rank, y))
<1>1. \A x \in S : /\ IsFiniteSet(RankedBelow(S, rank, x))
                   /\ Cardinality(RankedBelow(S, rank, x)) \in Nat
  <2> TAKE x \in S
  <2>1. RankedBelow(S, rank, x) \in SUBSET S
    BY DEF RankedBelow
  <2> QED BY <2>1, FS_Subset, FS_CardinalityType DEF Ranked
<1>2. ASSUME NEW x \in S
      PROVE  Cardinality(RankedBelow(S, rank, x)) \in 0 .. Cardinality(S) - 1
  <2>1. RankedBelow(S, rank, x) \in SUBSET (S \ {x})
    BY DEF RankedBelow, Ranked
  <2>2. IsFiniteSet(S \ {x}) /\ Cardinality(S \ {x}) = Cardinality(S) - 1
    BY FS_RemoveElement DEF Ranked
  <2>3. Cardinality(RankedBelow(S, rank, x)) <= Cardinality(S \ {x})
    BY <2>1, <2>2, FS_Subset
  <2>4. Cardinality(S) \in Nat
    BY FS_CardinalityType DEF Ranked
  <2> QED BY <1>1, <2>2, <2>3, <2>4
<1>3. ASSUME NEW x \in S, NEW y \in S, rank[x] < rank[y]
      PROVE  Cardinality(RankedBelow(S, rank, x)) < Cardinality(RankedBelow(S, rank, y))
  <2>1. RankedBelow(S, rank, x) \in SUBSET RankedBelow(S, rank, y)
    BY <1>3 DEF RankedBelow, Ranked
  <2>2. RankedBelow(S, rank, x) # RankedBelow(S, rank, y)
    BY <1>3 DEF RankedBelow, Ranked
  <2>3. /\ Cardinality(RankedBelow(S, rank, x)) <= Cardinality(RankedBelow(S, rank, y))
        /\ Cardinality(RankedBelow(S, rank, x)) # Cardinality(RankedBelow(S, rank, y))
    BY <1>1, <2>1, <2>2, FS_Subset
  <2> QED BY <1>1, <2>3
<1> QED BY <1>2, <1>3

\* InOrder() lists the members of the set, each once, by ascending rank.
LEMMA InOrderLists ==
    ASSUME NEW S, NEW rank, Ranked(S, rank)
    PROVE  /\ Cardinality(S) \in Nat
           /\ InOrder(S, rank) \in Seq(S)
           /\ Len(InOrder(S, rank)) = Cardinality(S)
           /\ \A n \in 1 .. Cardinality(S) :
                Cardinality(RankedBelow(S, rank, InOrder(S, rank)[n])) = n - 1
           /\ \A x \in S : \E n \in 1 .. Cardinality(S) : InOrder(S, rank)[n] = x
           /\ \A m, n \in 1 .. Cardinality(S) :
                m < n => rank[InOrder(S, rank)[m]] < rank[InOrder(S, rank)[n]]
<1> DEFINE N == Cardinality(S)
           place == [x \in S |-> Cardinality(RankedBelow(S, rank, x))]
<1>1. N \in Nat
  BY FS_CardinalityType DEF Ranked
<1>2. place \in Injection(S, 0 .. N - 1)
  <2>1. place \in [S -> 0 .. N - 1]
    BY PlacesDiffer
  <2>2. \A x, y \in S : place[x] = place[y] => x = y
    <3> SUFFICES ASSUME NEW x \in S, NEW y \in S, place[x] = place[y], x # y
                 PROVE  FALSE
      OBVIOUS
    <3>1. rank[x] < rank[y] \/ rank[y] < rank[x]
      BY DEF Ranked
    <3>2. place[x] < place[y] \/ place[y] < place[x]
      BY <3>1, PlacesDiffer
    <3> QED BY <2>1, <3>2
  <2> QED BY <2>1, <2>2 DEF Injection, IsInjective
<1>3. IsFiniteSet(0 .. N - 1) /\ Cardinality(0 .. N - 1) = N
  BY SMTT(30), <1>1, FS_Interval
<1>4. place \in Surjection(S, 0 .. N - 1)
  BY <1>2, <1>3, FS_Injection
<1>5. \A n \in 1 .. N : \E x \in S : place[x] = n - 1
  <2>1. \A k \in 0 .. N - 1 : \E x \in S : place[x] = k
    BY <1>4 DEF Surjection
  <2>2. \A n \in 1 .. N : n - 1 \in 0 .. N - 1
    BY <1>1
  <2> HIDE DEF N, place
  <2> QED BY <2>1, <2>2
<1>6. \A n \in 1 .. N : /\ InOrder(S, rank)[n] \in S
                        /\ place[InOrder(S, rank)[n]] = n - 1
  <2> TAKE n \in 1 .. N
  <2>1. InOrder(S, rank)[n] = CHOOSE x \in S : Cardinality(RankedBelow(S, rank, x)) = n - 1
    BY DEF InOrder, RankedBelow
  <2> QED BY <1>5, <2>1
<1>7. DOMAIN InOrder(S, rank) = 1 .. N
  BY DEF InOrder
<1>8. InOrder(S, rank) \in Seq(S) /\ Len(InOrder(S, rank)) = N
  <2>1. InOrder(S, rank) = [n \in 1 .. N |-> InOrder(S, rank)[n]]
    BY DEF InOrder
  <2>2. InOrder(S, rank) \in [1 .. N -> S]
    BY <1>6, <2>1
  <2> QED BY <1>1, <2>2
<1>9. ASSUME NEW x \in S PROVE \E n \in 1 .. N : InOrder(S, rank)[n] = x
  <2>1. place[x] \in 0 .. N - 1
    BY <1>2 DEF Injection
  <2>2. place[x] + 1 \in 1 .. N
    BY <1>1, <2>1
  <2>3. InOrder(S, rank)[place[x] + 1] \in S
        /\ place[InOrder(S, rank)[place[x] + 1]] = place[x]
    BY <1>6, <2>1, <2>2
  <2>4. InOrder(S, rank)[place[x] + 1] = x
    BY <1>2, <2>3 DEF Injection, IsInjective
  <2> QED BY <2>2, <2>4
<1>10. ASSUME NEW m \in 1 .. N, NEW n \in 1 .. N, m < n
       PROVE  rank[InOrder(S, rank)[m]] < rank[InOrder(S, rank)[n]]
  <2> DEFINE x == InOrder(S, rank)[m]
             y == InOrder(S, rank)[n]
  <2>1. x \in S /\ y \in S /\ place[x] = m - 1 /\ place[y] = n - 1
    BY <1>6
  <2> HIDE DEF x, y
  <2>2. ~(rank[y] < rank[x]) /\ x # y
    BY <1>10, <2>1, PlacesDiffer
  <2>3. rank[x] < rank[y]
    BY <2>1, <2>2 DEF Ranked
  <2> QED BY <2>3 DEF x, y
<1> QED BY <1>1, <1>6, <1>7, <1>8, <1>9, <1>10

\* Only() keeps the elements at the positions it is given, in their order.
LEMMA OnlyKeeps ==
    ASSUME NEW S, NEW s \in Seq(S), NEW P \in SUBSET (DOMAIN s)
    PROVE  /\ Cardinality(P) \in Nat /\ Only(s, P) \in Seq(S)
           /\ Len(Only(s, P)) = Cardinality(P)
           /\ \E at \in [1 .. Cardinality(P) -> P] :
                /\ \A n \in 1 .. Cardinality(P) : Only(s, P)[n] = s[at[n]]
                /\ \A i \in P : \E n \in 1 .. Cardinality(P) : at[n] = i
                /\ \A m, n \in 1 .. Cardinality(P) : m < n => at[m] < at[n]
<1> DEFINE self == [i \in P |-> i]
           at == InOrder(P, self)
<1>1. Ranked(P, self)
  <2>1. IsFiniteSet(P)
    <3>1. DOMAIN s = 1 .. Len(s) /\ IsFiniteSet(1 .. Len(s))
      BY FS_Interval
    <3> QED BY <3>1, FS_Subset
  <2> QED BY <2>1 DEF Ranked
<1>2. /\ Cardinality(P) \in Nat /\ at \in Seq(P) /\ Len(at) = Cardinality(P)
      /\ \A i \in P : \E n \in 1 .. Cardinality(P) : at[n] = i
      /\ \A m, n \in 1 .. Cardinality(P) : m < n => self[at[m]] < self[at[n]]
  <2> HIDE DEF self
  <2> QED BY <1>1, InOrderLists
<1>3. Only(s, P) = [n \in DOMAIN at |-> s[at[n]]]
  BY DEF Only
<1> HIDE DEF at
<1>4. at \in [1 .. Cardinality(P) -> P]
  BY <1>2
<1>5. \A n \in 1 .. Cardinality(P) : Only(s, P)[n] = s[at[n]] /\ s[at[n]] \in S
  BY <1>3, <1>4
<1>6. Only(s, P) \in Seq(S) /\ Len(Only(s, P)) = Cardinality(P)
  <2>1. Only(s, P) \in [1 .. Cardinality(P) -> S]
    BY <1>3, <1>4, <1>5
  <2> QED BY SMTT(40), <1>2, <2>1
<1> QED BY <1>2, <1>4, <1>5, <1>6

\* From the beginning on nothing is moved.
LEMMA OnlyFirst ==
    ASSUME NEW S, NEW s \in Seq(S), NEW k \in 0 .. Len(s)
    PROVE  /\ Only(s, 1 .. k) \in Seq(S) /\ Len(Only(s, 1 .. k)) = k
           /\ \A n \in 1 .. k : Only(s, 1 .. k)[n] = s[n]
<1> DEFINE self == [i \in 1 .. k |-> i]
<1>1. Ranked(1 .. k, self) /\ Cardinality(1 .. k) = k
  BY FS_Interval DEF Ranked
<1>2. 1 .. k \in SUBSET (DOMAIN s)
  OBVIOUS
<1>3. Only(s, 1 .. k) \in Seq(S) /\ Len(Only(s, 1 .. k)) = k
  BY <1>1, <1>2, OnlyKeeps
<1>4. ASSUME NEW n \in 1 .. k PROVE InOrder(1 .. k, self)[n] = n
  <2> DEFINE x == InOrder(1 .. k, self)[n]
  <2>1. x \in 1 .. k /\ Cardinality(RankedBelow(1 .. k, self, x)) = n - 1
    <3> HIDE DEF self
    <3>1. /\ InOrder(1 .. k, self) \in Seq(1 .. k)
          /\ Len(InOrder(1 .. k, self)) = k
          /\ Cardinality(RankedBelow(1 .. k, self, InOrder(1 .. k, self)[n])) = n - 1
      BY <1>1, InOrderLists
    <3> QED BY <3>1
  <2> HIDE DEF x
  <2>2. RankedBelow(1 .. k, self, x) = 1 .. x - 1
    BY <2>1 DEF RankedBelow
  <2>3. Cardinality(1 .. x - 1) = x - 1
    BY <2>1, FS_Interval
  <2> QED BY <2>1, <2>2, <2>3 DEF x
<1>5. ASSUME NEW n \in 1 .. k PROVE Only(s, 1 .. k)[n] = s[n]
  <2>1. DOMAIN InOrder(1 .. k, self) = 1 .. k
    BY <1>1 DEF InOrder
  <2> QED BY <1>4, <2>1 DEF Only
<1> QED BY <1>3, <1>5

------------------------------------------------------------------------------
\* Folders are sorted by name.
LEMMA FoldersListed ==
    ASSUME NEW F \in SUBSET Folders
    PROVE  /\ IsFiniteSet(F) /\ Cardinality(F) \in Nat
           /\ InOrder(F, Rank) \in Seq(F) /\ Len(InOrder(F, Rank)) = Cardinality(F)
           /\ \A f \in F : \E n \in 1 .. Cardinality(F) : InOrder(F, Rank)[n] = f
           /\ \A m, n \in 1 .. Cardinality(F) :
                InOrder(F, Rank)[m] = InOrder(F, Rank)[n] => m = n
<1>1. Ranked(F, Rank)
  BY DevicesAssumption, FS_Subset DEF Ranked
<1>2. /\ Cardinality(F) \in Nat
      /\ InOrder(F, Rank) \in Seq(F) /\ Len(InOrder(F, Rank)) = Cardinality(F)
      /\ \A f \in F : \E n \in 1 .. Cardinality(F) : InOrder(F, Rank)[n] = f
      /\ \A m, n \in 1 .. Cardinality(F) :
            m < n => Rank[InOrder(F, Rank)[m]] < Rank[InOrder(F, Rank)[n]]
  BY <1>1, InOrderLists
<1>3. ASSUME NEW m \in 1 .. Cardinality(F), NEW n \in 1 .. Cardinality(F),
             InOrder(F, Rank)[m] = InOrder(F, Rank)[n]
      PROVE  m = n
  <2>1. InOrder(F, Rank)[m] \in F
    BY <1>2
  <2>2. Rank[InOrder(F, Rank)[m]] \in Nat
    BY <2>1, DevicesAssumption
  <2> QED BY <1>2, <1>3, <2>2
<1> QED BY <1>1, <1>2, <1>3 DEF Ranked

\* Scans() holds one operation for each of the folders.
LEMMA ScansListed ==
    ASSUME NEW F \in SUBSET Folders, NEW op \in {"Add", "Remove"}
    PROVE  /\ Scans(op, F) \in Seq(Scan)
           /\ \A n \in DOMAIN Scans(op, F) :
                \E f \in F : Scans(op, F)[n] = [op |-> op, folder |-> f]
           /\ \A f \in F : \E n \in DOMAIN Scans(op, F) :
                Scans(op, F)[n] = [op |-> op, folder |-> f]
<1> DEFINE at == InOrder(F, Rank)
<1>1. /\ Cardinality(F) \in Nat /\ at \in Seq(F) /\ Len(at) = Cardinality(F)
      /\ \A f \in F : \E n \in 1 .. Cardinality(F) : at[n] = f
  BY FoldersListed
<1>2. Scans(op, F) = [n \in DOMAIN at |-> [op |-> op, folder |-> at[n]]]
  BY DEF Scans
<1> HIDE DEF at
<1>3. \A n \in 1 .. Cardinality(F) :
        at[n] \in F /\ [op |-> op, folder |-> at[n]] \in Scan
  <2>1. \A n \in 1 .. Cardinality(F) : at[n] \in F
    BY <1>1
  <2>2. \A f \in Folders : [op |-> op, folder |-> f] \in Scan
    BY DEF Scan, Paths
  <2> QED BY <2>1, <2>2
<1>4. /\ Scans(op, F) \in [1 .. Cardinality(F) -> Scan]
      /\ \A n \in 1 .. Cardinality(F) : Scans(op, F)[n] = [op |-> op, folder |-> at[n]]
  BY <1>1, <1>2, <1>3
<1>5. Scans(op, F) \in Seq(Scan) /\ DOMAIN Scans(op, F) = 1 .. Cardinality(F)
  BY <1>1, <1>4
<1>6. \A n \in 1 .. Cardinality(F) : \E f \in F : Scans(op, F)[n] = [op |-> op, folder |-> f]
  BY <1>3, <1>4
<1>7. \A f \in F : \E n \in 1 .. Cardinality(F) : Scans(op, F)[n] = [op |-> op, folder |-> f]
  BY <1>1, <1>4
<1> QED BY <1>5, <1>6, <1>7

\* Removals() holds operations, those of Scans() if it is given the right paths.
LEMMA RemovalsListed ==
    ASSUME NEW gone \in SUBSET Folders, NEW path \in [gone -> Paths]
    PROVE  /\ Removals(gone, path) \in Seq(Scan)
           /\ (\A f \in gone : path[f] = f) => Removals(gone, path) = Scans("Remove", gone)
<1> DEFINE at == InOrder(gone, Rank)
<1>1. at \in Seq(gone) /\ Len(at) \in Nat /\ DOMAIN at = 1 .. Len(at)
  BY FoldersListed
<1>2. /\ Removals(gone, path) = [n \in DOMAIN at |-> [op |-> "Remove", folder |-> path[at[n]]]]
      /\ Scans("Remove", gone) = [n \in DOMAIN at |-> [op |-> "Remove", folder |-> at[n]]]
  BY DEF Removals, Scans
<1> HIDE DEF at
<1>3. \A n \in 1 .. Len(at) :
        at[n] \in gone /\ [op |-> "Remove", folder |-> path[at[n]]] \in Scan
  <2>1. \A n \in 1 .. Len(at) : at[n] \in gone
    BY <1>1
  <2>2. \A f \in gone : [op |-> "Remove", folder |-> path[f]] \in Scan
    BY DEF Scan
  <2> QED BY <2>1, <2>2
<1>4. Removals(gone, path) \in [1 .. Len(at) -> Scan]
  BY <1>1, <1>2, <1>3
<1>5. ASSUME \A f \in gone : path[f] = f PROVE Removals(gone, path) = Scans("Remove", gone)
  <2>1. \A n \in DOMAIN at : path[at[n]] = at[n]
    BY <1>1, <1>3, <1>5
  <2> QED BY <1>2, <2>1
<1> QED BY <1>1, <1>4, <1>5

\* Values() holds the values of a map that are not 0.
Used(map) == {f \in Folders : map[f] # 0}

LEMMA ValuesListed ==
    ASSUME NEW T, NEW map \in [Folders -> T]
    PROVE  /\ Values(map) \in Seq(T) /\ Len(Values(map)) = Cardinality(Used(map))
           /\ Cardinality(Used(map)) \in Nat
           /\ \E at \in [1 .. Cardinality(Used(map)) -> Used(map)] :
                /\ \A n \in 1 .. Cardinality(Used(map)) : Values(map)[n] = map[at[n]]
                /\ \A f \in Used(map) : \E n \in 1 .. Cardinality(Used(map)) : at[n] = f
                /\ \A m, n \in 1 .. Cardinality(Used(map)) : at[m] = at[n] => m = n
<1> DEFINE used == {f \in Folders : map[f] # 0}
           at == InOrder(used, Rank)
<1>1. /\ Cardinality(used) \in Nat /\ at \in Seq(used) /\ Len(at) = Cardinality(used)
      /\ \A f \in used : \E n \in 1 .. Cardinality(used) : at[n] = f
      /\ \A m, n \in 1 .. Cardinality(used) : at[m] = at[n] => m = n
  <2>1. used \in SUBSET Folders
    OBVIOUS
  <2> HIDE DEF used
  <2> QED BY <2>1, FoldersListed
<1>2. Values(map) = [n \in DOMAIN at |-> map[at[n]]]
  BY DEF Values
<1> HIDE DEF at
<1>3. at \in [1 .. Cardinality(used) -> used]
  <2> HIDE DEF used
  <2> QED BY <1>1
<1>4. used \subseteq Folders
  OBVIOUS
<1> HIDE DEF used
<1>5. Values(map) \in [1 .. Cardinality(used) -> T]
  BY <1>1, <1>2, <1>3, <1>4
<1>6. Values(map) \in Seq(T) /\ Len(Values(map)) = Cardinality(used)
  BY SMTT(30), <1>1, <1>5
<1> QED BY <1>1, <1>2, <1>3, <1>6 DEF used, Used

\* The devices found in one go have numbers of their own, above the others.
NewId(F, d, f) == d + Cardinality({g \in F : Rank[g] <= Rank[f]})

LEMMA NewIdsDiffer ==
    ASSUME NEW F \in SUBSET Folders, NEW d \in Nat
    PROVE  /\ \A f \in F : NewId(F, d, f) \in d + 1 .. d + Cardinality(F)
           /\ \A f, g \in F : NewId(F, d, f) = NewId(F, d, g) => f = g
<1>1. Ranked(F, Rank) /\ IsFiniteSet(F) /\ Cardinality(F) \in Nat
  BY DevicesAssumption, FS_Subset, FS_CardinalityType DEF Ranked
<1>2. ASSUME NEW f \in F
      PROVE  /\ NewId(F, d, f) = d + Cardinality(RankedBelow(F, Rank, f)) + 1
             /\ Cardinality(RankedBelow(F, Rank, f)) \in 0 .. Cardinality(F) - 1
  <2>1. {g \in F : Rank[g] <= Rank[f]} = RankedBelow(F, Rank, f) \cup {f}
    <3>1. \A g \in F : Rank[g] \in Nat
      BY DevicesAssumption
    <3>2. \A g \in F : Rank[g] <= Rank[f] <=> Rank[g] < Rank[f] \/ g = f
      BY <1>1, <3>1 DEF Ranked
    <3> QED BY <3>2 DEF RankedBelow
  <2>2. f \notin RankedBelow(F, Rank, f)
    BY DevicesAssumption DEF RankedBelow
  <2>3. RankedBelow(F, Rank, f) \in SUBSET F
    BY DEF RankedBelow
  <2>4. IsFiniteSet(RankedBelow(F, Rank, f))
    BY <1>1, <2>3, FS_Subset
  <2>5. Cardinality({g \in F : Rank[g] <= Rank[f]}) = Cardinality(RankedBelow(F, Rank, f)) + 1
    BY <2>1, <2>2, <2>4, FS_AddElement
  <2>6. Cardinality(RankedBelow(F, Rank, f)) \in 0 .. Cardinality(F) - 1
    BY <1>1, PlacesDiffer
  <2> QED BY <2>5, <2>6 DEF NewId
<1>3. ASSUME NEW f \in F, NEW g \in F, NewId(F, d, f) = NewId(F, d, g), f # g
      PROVE  FALSE
  <2>1. Cardinality(RankedBelow(F, Rank, f)) = Cardinality(RankedBelow(F, Rank, g))
    BY <1>1, <1>2, <1>3
  <2>2. Rank[f] < Rank[g] \/ Rank[g] < Rank[f]
    BY <1>1, <1>3 DEF Ranked
  <2>3. Cardinality(RankedBelow(F, Rank, f)) < Cardinality(RankedBelow(F, Rank, g))
        \/ Cardinality(RankedBelow(F, Rank, g)) < Cardinality(RankedBelow(F, Rank, f))
    BY <1>1, <2>2, PlacesDiffer
  <2> QED BY <1>1, <1>2, <2>1, <2>3
<1>4. \A f \in F : NewId(F, d, f) \in d + 1 .. d + Cardinality(F)
  BY <1>1, <1>2
<1> QED BY <1>3, <1>4

------------------------------------------------------------------------------
(* Types.  The worker's future runs while there is an operation, which has   *)
(* begun only then; the rows of the queue stay finitely many.                *)
TypeInv ==
    /\ TypeOK /\ devices \in Nat /\ IsFiniteSet(DOMAIN queue)
    /\ running => scan \in Scan
    /\ begun => running

LEMMA ForgottenTyped == TypeOK => Forgotten \in Seq(Event)
<1> SUFFICES ASSUME TypeOK PROVE Forgotten \in Seq(Event)
  OBVIOUS
<1> DEFINE P == {i \in DOMAIN events : events[i].kind # "finished"}
<1>1. events \in Seq(Event) /\ P \in SUBSET (DOMAIN events)
  BY DEF TypeOK
<1> HIDE DEF P
<1>2. Only(events, P) \in Seq(Event)
  BY <1>1, OnlyKeeps
<1> QED BY <1>2 DEF P, Forgotten

LEMMA ScanNextTyped ==
    ASSUME TypeInv, NEW queued \in Seq(Scan), ScanNext(queued)
    PROVE  /\ folderQueue' \in Seq(Scan) /\ scan' \in Scan \cup {NoScan}
           /\ begun' \in BOOLEAN /\ pending' \subseteq Track /\ running' \in BOOLEAN
           /\ events' \in Seq(Event)
           /\ running' => scan' \in Scan
           /\ begun' => running'
<1>1. CASE running \/ queued = <<>>
  BY <1>1 DEF ScanNext, TypeInv, TypeOK
<1>2. CASE ~(running \/ queued = <<>>)
  <2>1. Head(queued) \in Scan /\ Tail(queued) \in Seq(Scan)
    BY <1>2
  <2>2. events' \in Seq(Event)
    BY <1>2, ForgottenTyped DEF ScanNext, TypeInv
  <2> QED BY <1>2, <2>1, <2>2 DEF ScanNext
<1> QED BY <1>1, <1>2

LEMMA InitTyped == Init => TypeInv
<1> SUFFICES ASSUME Init PROVE TypeInv
  OBVIOUS
<1>1. present \in SUBSET Folders
  BY DEF Init
<1>2. IsFiniteSet(present) /\ devices \in Nat
  BY <1>1, FoldersListed DEF Init
<1>3. deviceMap \in [Folders -> 0 .. devices]
  <2>1. ASSUME NEW f \in present
        PROVE  Cardinality({g \in present : Rank[g] <= Rank[f]}) \in 0 .. devices
    <3>1. {g \in present : Rank[g] <= Rank[f]} \in SUBSET present
      OBVIOUS
    <3>2. /\ IsFiniteSet({g \in present : Rank[g] <= Rank[f]})
          /\ Cardinality({g \in present : Rank[g] <= Rank[f]}) <= Cardinality(present)
      BY <1>2, <3>1, FS_Subset
    <3> QED BY <1>2, <3>2, FS_CardinalityType DEF Init
  <2> QED BY <1>2, <2>1 DEF Init
<1>4. PICK s \in InitialQueues :
        queue = [t \in ToSet(s) |-> (CHOOSE i \in DOMAIN s : s[i] = t) - 1]
  BY DEF Init
<1>5. s \in Seq(Track)
  BY DevicesAssumption
<1>6. \A t \in ToSet(s) : t \in Track /\ (CHOOSE i \in DOMAIN s : s[i] = t) - 1 \in Nat
  <2> TAKE t \in ToSet(s)
  <2>1. \E i \in DOMAIN s : s[i] = t
    BY DEF ToSet
  <2>2. (CHOOSE i \in DOMAIN s : s[i] = t) \in DOMAIN s
    BY <2>1
  <2> QED BY <1>5, <2>1, <2>2
<1>7. DOMAIN queue \subseteq Track /\ \A t \in DOMAIN queue : queue[t] \in Nat
  BY <1>4, <1>6
<1>8. IsFiniteSet(DOMAIN queue)
  <2>1. s \in Surjection(DOMAIN s, ToSet(s))
    BY <1>5 DEF Surjection, ToSet
  <2>2. IsFiniteSet(DOMAIN s)
    BY <1>5, FS_Interval
  <2>3. IsFiniteSet(ToSet(s))
    BY <2>1, <2>2, FS_Surjection
  <2> QED BY <1>4, <2>3
<1>9. DOMAIN queue = wanted /\ scan \in Scan
  BY DEF Init, Scan
<1>10. /\ rows \in [Models -> Seq(1 .. devices)] /\ timers \in Seq(Folders)
       /\ folderQueue \in Seq(Scan) /\ events \in Seq(Event) /\ playerJobs \in Seq(Nat)
  BY DEF Init
<1>11. /\ notified \in BOOLEAN /\ watching \in BOOLEAN /\ deleted \subseteq 1 .. devices
       /\ attached \subseteq Models /\ wired \in BOOLEAN /\ begun \in BOOLEAN
       /\ pending \subseteq Track /\ running \in BOOLEAN /\ result \in BOOLEAN
       /\ state = "Idle" /\ library \subseteq Track /\ control \in BOOLEAN
       /\ shownState = "Idle" /\ off = {} /\ ~begun
  BY DEF Init
<1>12. TypeOK
  BY <1>1, <1>3, <1>7, <1>9, <1>10, <1>11 DEF TypeOK
<1> QED BY <1>2, <1>8, <1>9, <1>11, <1>12 DEF TypeInv

\* A sequence has the type of its elements.
LEMMA ElementsTyped ==
    ASSUME NEW S, NEW T, NEW s \in Seq(S), \A i \in 1 .. Len(s) : s[i] \in T
    PROVE  s \in Seq(T)
  OBVIOUS

LEMMA SeqWider ==
    ASSUME NEW S, NEW T, S \subseteq T, NEW s \in Seq(S)
    PROVE  s \in Seq(T)
  BY ElementsTyped

\* What two sequences make when one follows the other.
LEMMA Joined ==
    ASSUME NEW S, NEW s \in Seq(S), NEW t \in Seq(S)
    PROVE  /\ s \o t \in Seq(S) /\ Len(s \o t) = Len(s) + Len(t)
           /\ \A i \in 1 .. Len(s) : (s \o t)[i] = s[i]
           /\ \A i \in 1 .. Len(t) : (s \o t)[Len(s) + i] = t[i]
           /\ \A i \in 1 .. Len(s \o t) :
                \/ i \in 1 .. Len(s) /\ (s \o t)[i] = s[i]
                \/ i - Len(s) \in 1 .. Len(t) /\ (s \o t)[i] = t[i - Len(s)]
  OBVIOUS

\* Sequences of devices stay such when there are more devices.
LEMMA RowsTyped ==
    ASSUME TypeInv, NEW n \in Nat, devices <= n
    PROVE  /\ \A m \in Models : rows[m] \in Seq(1 .. n)
           /\ deleted \subseteq 1 .. n /\ deviceMap \in [Folders -> 0 .. n]
<1>1. 1 .. devices \subseteq 1 .. n /\ 0 .. devices \subseteq 0 .. n
  BY DEF TypeInv
<1>2. ASSUME NEW m \in Models PROVE rows[m] \in Seq(1 .. n)
  <2>1. rows[m] \in Seq(1 .. devices)
    BY DEF TypeInv, TypeOK
  <2> QED BY <1>1, <2>1, SeqWider
<1>3. deviceMap \in [Folders -> 0 .. n]
  BY <1>1 DEF TypeInv, TypeOK
<1> QED BY <1>1, <1>2, <1>3 DEF TypeInv, TypeOK

LEMMA ValuesTyped ==
    ASSUME TypeInv
    PROVE  Values(deviceMap) \in Seq(1 .. devices)
<1> DEFINE used == Used(deviceMap)
<1>0. deviceMap \in [Folders -> 0 .. devices] /\ devices \in Nat
  BY DEF TypeInv, TypeOK
<1>1. /\ Values(deviceMap) \in Seq(0 .. devices)
      /\ Len(Values(deviceMap)) = Cardinality(used) /\ Cardinality(used) \in Nat
      /\ \E at \in [1 .. Cardinality(used) -> used] :
            \A n \in 1 .. Cardinality(used) : Values(deviceMap)[n] = deviceMap[at[n]]
  BY ZenonT(40), <1>0, ValuesListed
<1>2. \A f \in used : deviceMap[f] \in 1 .. devices
  BY <1>0 DEF Used
<1>3. \A n \in 1 .. Len(Values(deviceMap)) : Values(deviceMap)[n] \in 1 .. devices
  <2> HIDE DEF used
  <2> QED BY <1>1, <1>2
<1> QED BY <1>1, <1>3, ElementsTyped

LEMMA ModelsTyped ==
    ASSUME TypeInv,
           (\E m \in Models : AttachModel(m)) \/ (\E m \in Models : DetachModel(m))
    PROVE  TypeInv'
<1>1. CASE \E m \in Models : AttachModel(m)
  <2>1. PICK m \in Models : AttachModel(m)
    BY <1>1
  <2>2. attached' \subseteq Models /\ watching' \in BOOLEAN
    BY <2>1 DEF AttachModel, TypeInv, TypeOK
  <2>3. rows' \in [Models -> Seq(1 .. devices)]
    BY <2>1, ValuesTyped DEF AttachModel, ResetModels, TypeInv, TypeOK
  <2>4. deleted' \subseteq 1 .. devices
    <3>1. \A k \in Models : ToSet(rows[k]) \subseteq 1 .. devices
      BY DEF ToSet, TypeInv, TypeOK
    <3> QED BY <2>1, <2>2, <3>1 DEF AttachModel, ResetModels, TypeInv, TypeOK
  <2>5. UNCHANGED <<diskVars, deviceMap, devices, timers, wired, indexerVars, events,
                    library, playerVars, controlVars>>
    BY <2>1 DEF AttachModel
  <2> QED BY <2>2, <2>3, <2>4, <2>5
        DEF TypeInv, TypeOK, diskVars, indexerVars, playerVars, controlVars
<1>2. CASE \E m \in Models : DetachModel(m)
  <2>1. PICK m \in Models : DetachModel(m)
    BY <1>2
  <2>2. attached' \subseteq Models
    BY <2>1 DEF DetachModel, TypeInv, TypeOK
  <2>3. rows' \in [Models -> Seq(1 .. devices)]
    BY <2>1 DEF DetachModel, TypeInv, TypeOK
  <2>4. deleted' \subseteq 1 .. devices
    <3>1. ToSet(rows[m]) \subseteq 1 .. devices
      BY DEF ToSet, TypeInv, TypeOK
    <3> QED BY <2>1, <3>1 DEF DetachModel, TypeInv, TypeOK
  <2>5. UNCHANGED <<diskVars, watching, deviceMap, devices, timers, wired, indexerVars,
                    events, library, playerVars, controlVars>>
    BY <2>1 DEF DetachModel
  <2> QED BY <2>2, <2>3, <2>4, <2>5
        DEF TypeInv, TypeOK, diskVars, indexerVars, playerVars, controlVars
<1> QED BY <1>1, <1>2

(* What OnDirectoryChanged makes of the devices: those gone leave the map    *)
(* and the rows, those added get new numbers and are appended.               *)
Missing == {f \in Folders : deviceMap[f] # 0 /\ f \notin present}
Added == {f \in present : deviceMap[f] = 0}
AddedMap == [f \in Folders |-> IF f \in Added THEN NewId(Added, devices, f) ELSE 0]

LEMMA DirectoryChange ==
    ASSUME TypeInv, OnDirectoryChanged
    PROVE  \E gone \in SUBSET Missing : \E extra \in Seq(Scan) :
            LET removed == {deviceMap[f] : f \in gone} IN
            /\ Missing # {} => gone # {}
            /\ deviceMap' = [f \in Folders |->
                              IF f \in gone THEN 0
                              ELSE IF f \in Added THEN NewId(Added, devices, f)
                                                  ELSE deviceMap[f]]
            /\ devices' = devices + Cardinality(Added)
            /\ rows' = [m \in Models |->
                          IF m \in attached
                          THEN Without(rows[m], removed) \o Values(AddedMap) ELSE rows[m]]
            /\ deleted' = IF attached # {} THEN deleted \cup removed ELSE deleted
            /\ timers' = timers \o InOrder(Added, Rank)
            /\ ScanNext(folderQueue \o extra)
            /\ off \subseteq off'
            /\ "dangling" \in off' \/ extra = Scans("Remove", gone)
<1> DEFINE ids == [f \in Added |->
                    devices + Cardinality({g \in Added : Rank[g] <= Rank[f]})]
<1>1. \A f \in Added : ids[f] = NewId(Added, devices, f)
  BY DEF NewId
<1>2. Added \subseteq Folders
  BY DEF Added, TypeInv, TypeOK
<1> DEFINE map == [f \in Folders |-> IF f \in Added THEN ids[f] ELSE 0]
<1>3. map = AddedMap
  BY <1>1 DEF AddedMap
<1>4. \E gone \in SUBSET Missing : \E path \in [gone -> Paths] :
            LET removed == {deviceMap[f] : f \in gone} IN
            /\ Missing # {} => gone # {}
            /\ deviceMap' = [f \in Folders |->
                              IF f \in gone THEN 0
                              ELSE IF f \in Added THEN ids[f] ELSE deviceMap[f]]
            /\ devices' = devices + Cardinality(Added)
            /\ rows' = [m \in Models |->
                          IF m \in attached
                          THEN Without(rows[m], removed) \o Values(map) ELSE rows[m]]
            /\ deleted' = IF attached # {} THEN deleted \cup removed ELSE deleted
            /\ timers' = timers \o InOrder(Added, Rank)
            /\ ScanNext(folderQueue \o Removals(gone, path))
            /\ off' = IF \A f \in gone : path[f] = f THEN off ELSE off \cup {"dangling"}
  BY DEF OnDirectoryChanged, Missing, Added
<1> HIDE DEF ids, map
<1>5. PICK gone \in SUBSET Missing : \E path \in [gone -> Paths] :
            LET removed == {deviceMap[f] : f \in gone} IN
            /\ Missing # {} => gone # {}
            /\ deviceMap' = [f \in Folders |->
                              IF f \in gone THEN 0
                              ELSE IF f \in Added THEN ids[f] ELSE deviceMap[f]]
            /\ devices' = devices + Cardinality(Added)
            /\ rows' = [m \in Models |->
                          IF m \in attached
                          THEN Without(rows[m], removed) \o Values(map) ELSE rows[m]]
            /\ deleted' = IF attached # {} THEN deleted \cup removed ELSE deleted
            /\ timers' = timers \o InOrder(Added, Rank)
            /\ ScanNext(folderQueue \o Removals(gone, path))
            /\ off' = IF \A f \in gone : path[f] = f THEN off ELSE off \cup {"dangling"}
  BY Zenon, <1>4
<1>6. PICK path \in [gone -> Paths] :
            LET removed == {deviceMap[f] : f \in gone} IN
            /\ Missing # {} => gone # {}
            /\ deviceMap' = [f \in Folders |->
                              IF f \in gone THEN 0
                              ELSE IF f \in Added THEN ids[f] ELSE deviceMap[f]]
            /\ devices' = devices + Cardinality(Added)
            /\ rows' = [m \in Models |->
                          IF m \in attached
                          THEN Without(rows[m], removed) \o Values(map) ELSE rows[m]]
            /\ deleted' = IF attached # {} THEN deleted \cup removed ELSE deleted
            /\ timers' = timers \o InOrder(Added, Rank)
            /\ ScanNext(folderQueue \o Removals(gone, path))
            /\ off' = IF \A f \in gone : path[f] = f THEN off ELSE off \cup {"dangling"}
  BY Zenon, <1>5
<1>7. deviceMap' = [f \in Folders |->
                              IF f \in gone THEN 0
                              ELSE IF f \in Added THEN NewId(Added, devices, f)
                                                  ELSE deviceMap[f]]
  BY <1>1, <1>6
<1>8. gone \in SUBSET Folders
  BY DEF Missing
<1>9. /\ Removals(gone, path) \in Seq(Scan) /\ off \subseteq off'
      /\ "dangling" \in off' \/ Removals(gone, path) = Scans("Remove", gone)
  BY <1>6, <1>8, RemovalsListed
<1> QED BY <1>3, <1>6, <1>7, <1>9

\* New devices have numbers above the old ones.
LEMMA AddedTyped ==
    ASSUME TypeInv
    PROVE  /\ Added \in SUBSET Folders /\ Cardinality(Added) \in Nat
           /\ \A f \in Added : NewId(Added, devices, f)
                                \in devices + 1 .. devices + Cardinality(Added)
           /\ AddedMap \in [Folders -> Nat] /\ Used(AddedMap) = Added
           /\ Values(AddedMap) \in Seq(devices + 1 .. devices + Cardinality(Added))
<1>1. Added \in SUBSET Folders
  BY DEF Added, TypeInv, TypeOK
<1>2. /\ Cardinality(Added) \in Nat /\ devices \in Nat
      /\ \A f \in Added : NewId(Added, devices, f)
                            \in devices + 1 .. devices + Cardinality(Added)
  BY <1>1, FoldersListed, NewIdsDiffer DEF TypeInv
<1>3. AddedMap \in [Folders -> Nat]
  BY <1>2 DEF AddedMap
<1>4. Used(AddedMap) = Added
  BY <1>1, <1>2 DEF AddedMap, Used
<1>5. /\ Values(AddedMap) \in Seq(Nat) /\ Len(Values(AddedMap)) = Cardinality(Added)
      /\ \E at \in [1 .. Cardinality(Added) -> Added] :
            \A n \in 1 .. Cardinality(Added) : Values(AddedMap)[n] = AddedMap[at[n]]
  <2>1. /\ Values(AddedMap) \in Seq(Nat)
        /\ Len(Values(AddedMap)) = Cardinality(Used(AddedMap))
        /\ \E at \in [1 .. Cardinality(Used(AddedMap)) -> Used(AddedMap)] :
              \A n \in 1 .. Cardinality(Used(AddedMap)) :
                    Values(AddedMap)[n] = AddedMap[at[n]]
    BY ZenonT(40), <1>3, ValuesListed
  <2> QED BY <1>4, <2>1
<1>6. \A f \in Added : AddedMap[f] \in devices + 1 .. devices + Cardinality(Added)
  BY <1>1, <1>2 DEF AddedMap
<1>7. \A n \in 1 .. Len(Values(AddedMap)) :
        Values(AddedMap)[n] \in devices + 1 .. devices + Cardinality(Added)
  BY <1>5, <1>6
<1> QED BY <1>1, <1>2, <1>3, <1>4, <1>5, <1>7, ElementsTyped

LEMMA DirectoryTyped ==
    ASSUME TypeInv, OnDirectoryChanged
    PROVE  TypeInv'
<1>1. PICK gone \in SUBSET Missing, extra \in Seq(Scan) :
            LET removed == {deviceMap[f] : f \in gone} IN
            /\ Missing # {} => gone # {}
            /\ deviceMap' = [f \in Folders |->
                              IF f \in gone THEN 0
                              ELSE IF f \in Added THEN NewId(Added, devices, f)
                                                  ELSE deviceMap[f]]
            /\ devices' = devices + Cardinality(Added)
            /\ rows' = [m \in Models |->
                          IF m \in attached
                          THEN Without(rows[m], removed) \o Values(AddedMap) ELSE rows[m]]
            /\ deleted' = IF attached # {} THEN deleted \cup removed ELSE deleted
            /\ timers' = timers \o InOrder(Added, Rank)
            /\ ScanNext(folderQueue \o extra)
            /\ off \subseteq off'
            /\ "dangling" \in off' \/ extra = Scans("Remove", gone)
  BY DirectoryChange
<1>2. devices \in Nat /\ devices' \in Nat /\ devices <= devices'
  BY <1>1, AddedTyped DEF TypeInv
<1>3. /\ \A m \in Models : rows[m] \in Seq(1 .. devices')
      /\ deleted \subseteq 1 .. devices' /\ deviceMap \in [Folders -> 0 .. devices']
  BY <1>2, RowsTyped
<1>4. deviceMap' \in [Folders -> 0 .. devices']
  BY <1>1, <1>2, <1>3, AddedTyped
<1>5. {deviceMap[f] : f \in gone} \subseteq 1 .. devices'
  BY <1>2, <1>3 DEF Missing
<1>6. deleted' \subseteq 1 .. devices'
  BY <1>1, <1>3, <1>5
<1>7. rows' \in [Models -> Seq(1 .. devices')]
  <2>1. Values(AddedMap) \in Seq(1 .. devices')
    <3>1. devices + 1 .. devices + Cardinality(Added) \subseteq 1 .. devices'
      BY <1>1, <1>2
    <3>2. Values(AddedMap) \in Seq(devices + 1 .. devices + Cardinality(Added))
      BY AddedTyped
    <3> DEFINE new == devices + 1 .. devices + Cardinality(Added)
               list == Values(AddedMap)
    <3> HIDE DEF new, list
    <3>3. new \subseteq 1 .. devices' /\ list \in Seq(new)
      BY <3>1, <3>2 DEF new, list
    <3>4. list \in Seq(1 .. devices')
      BY <3>3, SeqWider
    <3> QED BY <3>4 DEF list
  <2>2. ASSUME NEW m \in Models
        PROVE  Without(rows[m], {deviceMap[f] : f \in gone}) \in Seq(1 .. devices')
    <3> DEFINE P == {i \in DOMAIN rows[m] : rows[m][i] \notin {deviceMap[f] : f \in gone}}
    <3>1. P \in SUBSET (DOMAIN rows[m])
      OBVIOUS
    <3> HIDE DEF P
    <3>2. Only(rows[m], P) \in Seq(1 .. devices')
      BY <1>3, <3>1, OnlyKeeps
    <3> QED BY <3>2 DEF P, Without
  <2>3. ASSUME NEW m \in Models
        PROVE  Without(rows[m], {deviceMap[f] : f \in gone}) \o Values(AddedMap)
                    \in Seq(1 .. devices')
    BY <2>1, <2>2, Joined
  <2> QED BY <1>1, <1>3, <2>3
<1>8. timers' \in Seq(Folders)
  <2>1. InOrder(Added, Rank) \in Seq(Folders)
    BY AddedTyped, FoldersListed, SeqWider
  <2> QED BY <1>1, <2>1 DEF TypeInv, TypeOK
<1>9. /\ folderQueue' \in Seq(Scan) /\ scan' \in Scan \cup {NoScan}
      /\ begun' \in BOOLEAN /\ pending' \subseteq Track /\ running' \in BOOLEAN
      /\ events' \in Seq(Event)
      /\ running' => scan' \in Scan
      /\ begun' => running'
  <2>1. folderQueue \o extra \in Seq(Scan)
    BY DEF TypeInv, TypeOK
  <2> QED BY <1>1, <2>1, ScanNextTyped
<1>10. /\ notified' = FALSE
       /\ UNCHANGED <<present, watching, attached, wired, result, state, library, queue,
                      playerJobs, wanted, controlVars>>
       /\ off' \in {off, off \cup {"dangling"}}
  BY DEF OnDirectoryChanged
<1> QED BY <1>2, <1>4, <1>6, <1>7, <1>8, <1>9, <1>10
        DEF TypeInv, TypeOK, controlVars

LEMMA IndexerTyped ==
    ASSUME TypeInv, MediaDirectoryAdded \/ Wire
    PROVE  TypeInv'
<1>1. /\ folderQueue' \in Seq(Scan) /\ scan' \in Scan \cup {NoScan}
      /\ begun' \in BOOLEAN /\ pending' \subseteq Track /\ running' \in BOOLEAN
      /\ events' \in Seq(Event)
      /\ running' => scan' \in Scan
      /\ begun' => running'
  <2>1. CASE MediaDirectoryAdded
    <3>1. Head(timers) \in Folders
      BY <2>1 DEF MediaDirectoryAdded, TypeInv, TypeOK
    <3>2. Append(folderQueue, [op |-> "Add", folder |-> Head(timers)]) \in Seq(Scan)
      BY <3>1 DEF TypeInv, TypeOK, Scan
    <3> QED BY <2>1, <3>2, ScanNextTyped DEF MediaDirectoryAdded
  <2>2. CASE Wire
    <3>1. Scans("Add", {f \in Folders : deviceMap[f] # 0}) \in Seq(Scan)
      <4>1. {f \in Folders : deviceMap[f] # 0} \in SUBSET Folders
        OBVIOUS
      <4> QED BY <4>1, ScansListed
    <3>2. folderQueue \o Scans("Add", {f \in Folders : deviceMap[f] # 0}) \in Seq(Scan)
      BY <3>1 DEF TypeInv, TypeOK
    <3> QED BY <2>2, <3>2, ScanNextTyped DEF Wire
  <2> QED BY <2>1, <2>2
<1>2. timers' \in Seq(Folders) /\ wired' \in BOOLEAN
  <2>1. timers \in Seq(Folders) /\ wired \in BOOLEAN
    BY DEF TypeInv, TypeOK
  <2>2. CASE MediaDirectoryAdded
    BY <2>1, <2>2 DEF MediaDirectoryAdded
  <2>3. CASE Wire
    BY <2>1, <2>3 DEF Wire
  <2> QED BY <2>2, <2>3
<1>3. UNCHANGED <<diskVars, deviceVars, attached, result, state, library, playerVars,
                  controlVars>>
  BY DEF MediaDirectoryAdded, Wire
<1> QED BY <1>1, <1>2, <1>3
        DEF TypeInv, TypeOK, diskVars, deviceVars, playerVars, controlVars

(* What the worker posts when it begins: its state, then the rows of the     *)
(* queue it has found, one after the other.                                  *)
RowEvents(order) ==
    IF wired THEN [i \in DOMAIN order |-> [kind |-> "removeFromQueue",
                                           index |-> queue[order[i]]]] ELSE <<>>
Queued == IF scan.op = "Add" THEN {} ELSE Found \cap DOMAIN queue

LEMMA QueuedFinite ==
    ASSUME TypeInv
    PROVE  /\ IsFiniteSet(Queued) /\ Cardinality(Queued) \in Nat
           /\ Queued \in SUBSET (DOMAIN queue)
<1>1. Queued \in SUBSET (DOMAIN queue)
  BY DEF Queued
<1> QED BY <1>1, FS_Subset, FS_CardinalityType DEF TypeInv

LEMMA RowEventsTyped ==
    ASSUME TypeInv, NEW order \in SetToSeqs(Queued)
    PROVE  /\ RowEvents(order) \in Seq(Event)
           /\ order \in [1 .. Cardinality(Queued) -> Queued]
           /\ Len(RowEvents(order)) = IF wired THEN Cardinality(Queued) ELSE 0
           /\ \A i \in 1 .. Len(RowEvents(order)) :
                /\ i \in 1 .. Cardinality(Queued)
                /\ RowEvents(order)[i] = [kind |-> "removeFromQueue",
                                          index |-> queue[order[i]]]
<1>1. order \in [1 .. Cardinality(Queued) -> Queued] /\ Cardinality(Queued) \in Nat
  BY QueuedFinite DEF SetToSeqs
<1>2. CASE wired
  <2>1. RowEvents(order) = [i \in 1 .. Cardinality(Queued) |->
            [kind |-> "removeFromQueue", index |-> queue[order[i]]]]
    BY <1>1, <1>2 DEF RowEvents
  <2>2. \A i \in 1 .. Cardinality(Queued) :
            [kind |-> "removeFromQueue", index |-> queue[order[i]]] \in Event
    <3> TAKE i \in 1 .. Cardinality(Queued)
    <3>1. queue[order[i]] \in Nat
      BY <1>1, QueuedFinite DEF TypeInv, TypeOK
    <3> QED BY <3>1 DEF Event
  <2>3. RowEvents(order) \in [1 .. Cardinality(Queued) -> Event]
    BY <2>1, <2>2
  <2>4. RowEvents(order) \in Seq(Event) /\ Len(RowEvents(order)) = Cardinality(Queued)
    BY <1>1, <2>3
  <2> QED BY <1>1, <1>2, <2>1, <2>4
<1>3. CASE ~wired
  BY <1>1, <1>3 DEF RowEvents
<1> QED BY <1>2, <1>3

LEMMA StateEventTyped ==
    ASSUME NEW st \in {"Active", "Error"}
    PROVE  /\ StateEvent(st) \in Seq(Event)
           /\ Len(StateEvent(st)) = IF control THEN 1 ELSE 0
           /\ control => StateEvent(st)[1] = [kind |-> "state", state |-> st]
<1> DEFINE e == [kind |-> "state", state |-> st]
<1>1. e \in Event
  BY DEF Event
<1>2. StateEvent(st) = IF control THEN <<e>> ELSE <<>>
  BY DEF StateEvent
<1> HIDE DEF e
<1>3. StateEvent(st) \in Seq(Event) /\ Len(StateEvent(st)) = IF control THEN 1 ELSE 0
  BY <1>1, <1>2
<1>4. control => StateEvent(st)[1] = e
  BY <1>2
<1> QED BY <1>3, <1>4 DEF e

\* The events after BeginScan.
LEMMA BeginEvents ==
    ASSUME TypeInv, BeginScan
    PROVE  \E order \in SetToSeqs(Queued) :
            /\ events' = (events \o StateEvent("Active")) \o RowEvents(order)
            /\ events \o StateEvent("Active") \in Seq(Event)
            /\ events' \in Seq(Event)
<1>1. PICK order \in SetToSeqs(Queued) :
        events' = (events \o StateEvent("Active")) \o RowEvents(order)
  BY DEF BeginScan, Queued, RowEvents
<1>2. events \o StateEvent("Active") \in Seq(Event)
  BY StateEventTyped, Joined DEF TypeInv, TypeOK
<1>3. events' \in Seq(Event)
  BY <1>1, <1>2, RowEventsTyped, Joined
<1> QED BY <1>1, <1>2, <1>3

LEMMA FoundTyped == ASSUME TypeInv, scan \in Scan PROVE Found \subseteq Track
<1>1. \A f \in Folders : Files[f] \subseteq Track
  BY DEF Track
<1> QED BY <1>1 DEF Found, Scan, TypeInv, TypeOK

LEMMA BeginTyped ==
    ASSUME TypeInv, BeginScan
    PROVE  TypeInv'
<1>1. events' \in Seq(Event)
  BY BeginEvents
<1>2. pending' \subseteq Track /\ state' = "Active" /\ begun'
  BY FoundTyped DEF BeginScan, TypeInv
<1>3. /\ wanted' \subseteq Track
      /\ off' \subseteq {"unseen", "dangling", "unheard", "several", "stale"}
  BY DEF BeginScan, TypeInv, TypeOK
<1>4. /\ running
      /\ UNCHANGED <<diskVars, deviceVars, attached, timers, wired, folderQueue, scan,
                     running, result, library, queue, playerJobs, controlVars>>
  BY DEF BeginScan
<1> QED BY <1>1, <1>2, <1>3, <1>4
      DEF TypeInv, TypeOK, diskVars, deviceVars, controlVars

LEMMA RowsLeftTyped ==
    ASSUME TypeInv, NEW gone, queue' = RowsLeft(gone)
    PROVE  /\ DOMAIN queue' \subseteq Track /\ \A t \in DOMAIN queue' : queue'[t] \in Nat
           /\ IsFiniteSet(DOMAIN queue')
<1>1. DOMAIN queue' = DOMAIN queue \ gone /\ \A t \in DOMAIN queue' : queue'[t] = queue[t]
  BY DEF RowsLeft
<1>2. DOMAIN queue' \in SUBSET (DOMAIN queue)
  BY <1>1
<1>3. IsFiniteSet(DOMAIN queue')
  BY <1>2, FS_Subset DEF TypeInv
<1> QED BY <1>1, <1>2, <1>3 DEF TypeInv, TypeOK

LEMMA EndTyped ==
    ASSUME TypeInv, NEW res \in BOOLEAN, NEW posted \in Seq(Event), EndScan(res, posted)
    PROVE  /\ events' \in Seq(Event) /\ running' = FALSE /\ begun' = FALSE
           /\ scan' = NoScan /\ pending' = {} /\ result' \in BOOLEAN
<1>1. <<[kind |-> "finished"]>> \in Seq(Event)
  BY DEF Event
<1>2. events \o posted \in Seq(Event)
  BY Joined DEF TypeInv, TypeOK
<1>3. (events \o posted) \o <<[kind |-> "finished"]>> \in Seq(Event)
  BY <1>1, <1>2, Joined
<1> QED BY <1>3 DEF EndScan

LEMMA WorkTyped ==
    ASSUME TypeInv, DeleteFound \/ InsertFile \/ AllInserted \/ FailScan
    PROVE  TypeInv'
<1>0. <<>> \in Seq(Event)
  OBVIOUS
<1>1. CASE DeleteFound
  <2>1. /\ events' \in Seq(Event) /\ running' = FALSE /\ begun' = FALSE
        /\ scan' = NoScan /\ pending' = {} /\ result' \in BOOLEAN
    BY <1>0, <1>1, EndTyped DEF DeleteFound
  <2>2. /\ DOMAIN queue' \subseteq Track /\ \A t \in DOMAIN queue' : queue'[t] \in Nat
        /\ IsFiniteSet(DOMAIN queue')
    BY <1>1, RowsLeftTyped DEF DeleteFound
  <2>3. library' \subseteq Track
    BY <1>1 DEF DeleteFound, TypeInv, TypeOK
  <2>4. UNCHANGED <<diskVars, deviceVars, attached, timers, wired, folderQueue, state,
                    playerJobs, wanted, off, controlVars>>
    BY <1>1 DEF DeleteFound
  <2> QED BY <2>1, <2>2, <2>3, <2>4
        DEF TypeInv, TypeOK, diskVars, deviceVars, controlVars
<1>2. CASE InsertFile
  <2>1. pending' \subseteq Track /\ library' \subseteq Track
    BY <1>2 DEF InsertFile, TypeInv, TypeOK
  <2>2. UNCHANGED <<diskVars, deviceVars, attached, timers, wired, folderQueue, scan,
                    begun, running, result, state, events, playerVars, controlVars>>
    BY <1>2 DEF InsertFile
  <2> QED BY <2>1, <2>2 DEF TypeInv, TypeOK, diskVars, deviceVars, playerVars, controlVars
<1>3. CASE AllInserted
  <2>1. /\ events' \in Seq(Event) /\ running' = FALSE /\ begun' = FALSE
        /\ scan' = NoScan /\ pending' = {} /\ result' \in BOOLEAN
    BY <1>0, <1>3, EndTyped DEF AllInserted
  <2>2. UNCHANGED <<diskVars, deviceVars, attached, timers, wired, folderQueue, state,
                    library, playerVars, controlVars>>
    BY <1>3 DEF AllInserted
  <2> QED BY <2>1, <2>2 DEF TypeInv, TypeOK, diskVars, deviceVars, playerVars, controlVars
<1>4. CASE FailScan
  <2>1. /\ events' \in Seq(Event) /\ running' = FALSE /\ begun' = FALSE
        /\ scan' = NoScan /\ pending' = {} /\ result' \in BOOLEAN
    BY <1>4, StateEventTyped, EndTyped DEF FailScan
  <2>2. /\ DOMAIN queue' \subseteq Track /\ \A t \in DOMAIN queue' : queue'[t] \in Nat
        /\ IsFiniteSet(DOMAIN queue')
    <3>1. CASE UNCHANGED queue
      BY <3>1 DEF TypeInv, TypeOK
    <3> QED BY <1>4, <3>1, RowsLeftTyped DEF FailScan
  <2>3. state' = "Error"
    BY <1>4 DEF FailScan
  <2>4. UNCHANGED <<diskVars, deviceVars, attached, timers, wired, folderQueue, library,
                    playerJobs, wanted, off, controlVars>>
    BY <1>4 DEF FailScan
  <2> QED BY <2>1, <2>2, <2>3, <2>4
        DEF TypeInv, TypeOK, diskVars, deviceVars, controlVars
<1> QED BY <1>1, <1>2, <1>3, <1>4

LEMMA HeardTyped ==
    ASSUME TypeInv, NEW kind, Received(kind), events' = Tail(events)
    PROVE  /\ Head(events) \in Event /\ Head(events) = events[1]
           /\ Head(events).kind = kind
           /\ events' \in Seq(Event) /\ Len(events) >= 1 /\ Len(events') = Len(events) - 1
           /\ \A i \in 1 .. Len(events') : events'[i] = events[i + 1]
  BY DEF Received, TypeInv, TypeOK

LEMMA DeliverTyped ==
    ASSUME TypeInv, Deliver
    PROVE  TypeInv'
<1>1. CASE OnStateChanged
  <2>1. /\ Head(events) \in Event /\ Head(events).kind = "state" /\ events' \in Seq(Event)
    BY <1>1, HeardTyped DEF OnStateChanged
  <2>2. Head(events).state \in {"Active", "Error"}
    BY <2>1 DEF Event
  <2>3. shownState' \in {"Active", "Error"}
    BY <1>1, <2>2 DEF OnStateChanged
  <2>4. UNCHANGED <<diskVars, deviceVars, attached, timers, wired, indexerVars, library,
                    playerVars, control>>
    BY <1>1 DEF OnStateChanged
  <2> QED BY <2>1, <2>3, <2>4
        DEF TypeInv, TypeOK, diskVars, deviceVars, indexerVars, playerVars
<1>2. CASE OnRemoveFromQueue
  <2>1. /\ Head(events) \in Event /\ Head(events).kind = "removeFromQueue"
        /\ events' \in Seq(Event)
    BY <1>2, HeardTyped DEF OnRemoveFromQueue
  <2>2. Head(events).index \in Nat
    BY <2>1 DEF Event
  <2>3. playerJobs' \in Seq(Nat)
    BY <1>2, <2>2 DEF OnRemoveFromQueue, TypeInv, TypeOK
  <2>4. UNCHANGED <<diskVars, deviceVars, attached, timers, wired, indexerVars, library,
                    queue, wanted, off, controlVars>>
    BY <1>2 DEF OnRemoveFromQueue
  <2> QED BY <2>1, <2>3, <2>4
        DEF TypeInv, TypeOK, diskVars, deviceVars, indexerVars, controlVars
<1>3. CASE OnScanFinished
  <2>1. events' \in Seq(Event)
    BY <1>3, HeardTyped DEF OnScanFinished
  <2>2. /\ folderQueue' \in Seq(Scan) /\ scan' \in Scan \cup {NoScan}
        /\ begun' \in BOOLEAN /\ pending' \subseteq Track /\ running' \in BOOLEAN
        /\ running' => scan' \in Scan
        /\ begun' => running'
    <3>1. CASE folderQueue # <<>>
      <4>1. Head(folderQueue) \in Scan /\ Tail(folderQueue) \in Seq(Scan)
        BY <3>1 DEF TypeInv, TypeOK
      <4> QED BY <1>3, <3>1, <4>1 DEF OnScanFinished
    <3>2. CASE folderQueue = <<>>
      BY <1>3, <3>2 DEF OnScanFinished, TypeInv, TypeOK
    <3> QED BY <3>1, <3>2
  <2>3. state' \in {"Idle", "Active", "Error"} /\ shownState' \in {"Idle", "Active", "Error"}
    BY <1>3 DEF OnScanFinished, StateAfter, TypeInv, TypeOK
  <2>4. UNCHANGED <<diskVars, deviceVars, attached, timers, wired, result, library,
                    playerVars, control>>
    BY <1>3 DEF OnScanFinished
  <2> QED BY <2>1, <2>2, <2>3, <2>4 DEF TypeInv, TypeOK, diskVars, deviceVars, playerVars
<1> QED BY <1>1, <1>2, <1>3 DEF Deliver

LEMMA PlayerTyped ==
    ASSUME TypeInv, PlayerRemoves \/ \E t \in Track : UserRemoves(t)
    PROVE  TypeInv'
<1>1. CASE PlayerRemoves
  <2> DEFINE i == Head(playerJobs)
  <2>1. i \in Nat /\ playerJobs' \in Seq(Nat)
    BY <1>1 DEF PlayerRemoves, TypeInv, TypeOK
  <2>2. queue' = [t \in {u \in DOMAIN queue : queue[u] # i} |->
                    IF queue[t] >= i THEN queue[t] - 1 ELSE queue[t]]
    BY <1>1 DEF PlayerRemoves, Removed
  <2> HIDE DEF i
  <2>3. DOMAIN queue' \in SUBSET (DOMAIN queue)
    BY <2>2
  <2>4. \A t \in DOMAIN queue' : queue'[t] \in Nat
    BY SMTT(40), <2>1, <2>2 DEF TypeInv, TypeOK
  <2>5. IsFiniteSet(DOMAIN queue')
    BY <2>3, FS_Subset DEF TypeInv
  <2>6. UNCHANGED <<diskVars, deviceVars, attached, timers, wired, indexerVars, events,
                    library, wanted, off, controlVars>>
    BY <1>1 DEF PlayerRemoves
  <2> QED BY <2>1, <2>3, <2>4, <2>5, <2>6
        DEF TypeInv, TypeOK, diskVars, deviceVars, indexerVars, controlVars
<1>2. ASSUME NEW t \in Track, UserRemoves(t) PROVE TypeInv'
  <2>1. playerJobs' \in Seq(Nat)
    BY <1>2 DEF UserRemoves, TypeInv, TypeOK
  <2>2. /\ wanted' \subseteq Track
        /\ off' \subseteq {"unseen", "dangling", "unheard", "several", "stale"}
    BY <1>2 DEF UserRemoves, TypeInv, TypeOK
  <2>3. UNCHANGED <<diskVars, deviceVars, attached, timers, wired, indexerVars, events,
                    library, queue, controlVars>>
    BY <1>2 DEF UserRemoves
  <2> QED BY <2>1, <2>2, <2>3
        DEF TypeInv, TypeOK, diskVars, deviceVars, indexerVars, controlVars
<1> QED BY <1>1, <1>2

LEMMA OthersTyped ==
    ASSUME TypeInv,
           \/ \E f \in Folders : ChangeDisk(f)
           \/ ConnectControl \/ DisconnectControl \/ UNCHANGED vars
    PROVE  TypeInv'
<1>1. ASSUME NEW f \in Folders, ChangeDisk(f) PROVE TypeInv'
  <2>1. /\ present' \subseteq Folders /\ notified' \in BOOLEAN
        /\ off' \subseteq {"unseen", "dangling", "unheard", "several", "stale"}
    BY <1>1 DEF ChangeDisk, TypeInv, TypeOK
  <2>2. UNCHANGED <<deviceVars, attached, timers, wired, indexerVars, events, library,
                    queue, playerJobs, wanted, controlVars>>
    BY <1>1 DEF ChangeDisk
  <2> QED BY <2>1, <2>2 DEF TypeInv, TypeOK, deviceVars, indexerVars, controlVars
<1>2. CASE ConnectControl \/ DisconnectControl
  <2>1. control' \in BOOLEAN /\ shownState' \in {"Idle", "Active", "Error"}
    BY <1>2 DEF ConnectControl, DisconnectControl, TypeInv, TypeOK
  <2>2. UNCHANGED <<diskVars, deviceVars, attached, timers, wired, indexerVars, events,
                    library, playerVars>>
    BY <1>2 DEF ConnectControl, DisconnectControl
  <2> QED BY <2>1, <2>2 DEF TypeInv, TypeOK, diskVars, deviceVars, indexerVars, playerVars
<1>3. CASE UNCHANGED vars
  BY <1>3 DEF vars, TypeInv, TypeOK, diskVars, deviceVars, indexerVars, playerVars, controlVars
<1> QED BY <1>1, <1>2, <1>3

LEMMA NextTyped == TypeInv /\ [Next]_vars => TypeInv'
  BY ModelsTyped, DirectoryTyped, IndexerTyped, BeginTyped, WorkTyped, DeliverTyped,
     PlayerTyped, OthersTyped DEF Next, Work

LEMMA TypedAlways == Spec => []TypeInv
  BY InitTyped, NextTyped, PTL DEF Spec

(* Every variable keeps its type, for any folders, files, models and queues: *)
(* no operation, event or device is ever made up.                            *)
THEOREM TypeCorrect == Spec => []TypeOK
<1>1. TypeInv => TypeOK
  BY DEF TypeInv
<1> QED BY <1>1, TypedAlways, PTL

------------------------------------------------------------------------------
(* The devices a model shows.                                                *)
\* A sequence holds the members of a set, each once.
Lists(s, D) ==
    /\ \A n \in DOMAIN s : s[n] \in D
    /\ \A d \in D : \E n \in DOMAIN s : s[n] = d
    /\ \A m, n \in DOMAIN s : s[m] = s[n] => m = n

LEMMA ListsAll ==
    ASSUME NEW T, NEW s \in Seq(T), NEW D, Lists(s, D)
    PROVE  ToSet(s) = D /\ Len(s) = Cardinality(D)
<1>1. ToSet(s) = D
  BY DEF ToSet, Lists
<1>2. IsFiniteSet(DOMAIN s) /\ Cardinality(DOMAIN s) = Len(s)
  <2>1. Len(s) \in Nat /\ DOMAIN s = 1 .. Len(s)
    OBVIOUS
  <2> QED BY <2>1, FS_Interval
<1>3. s \in Bijection(DOMAIN s, D)
  <2>1. s \in [DOMAIN s -> D]
    BY DEF Lists
  <2> QED BY <2>1 DEF Lists, Bijection, Injection, Surjection, IsInjective
<1>4. ExistsBijection(DOMAIN s, D)
  BY <1>3 DEF ExistsBijection
<1> QED BY <1>1, <1>2, <1>4, FS_Bijection

LEMMA WithoutLists ==
    ASSUME NEW T, NEW s \in Seq(T), NEW D, Lists(s, D), NEW gone
    PROVE  Without(s, gone) \in Seq(T) /\ Lists(Without(s, gone), D \ gone)
<1> DEFINE P == {i \in DOMAIN s : s[i] \notin gone}
           N == Cardinality(P)
           w == Only(s, P)
<1>1. P \in SUBSET (DOMAIN s)
  OBVIOUS
<1>2. /\ N \in Nat /\ w \in Seq(T) /\ Len(w) = N
      /\ \E at \in [1 .. N -> P] :
            /\ \A n \in 1 .. N : w[n] = s[at[n]]
            /\ \A i \in P : \E n \in 1 .. N : at[n] = i
            /\ \A m, n \in 1 .. N : m < n => at[m] < at[n]
  <2> HIDE DEF P
  <2> QED BY SMTT(60), <1>1, OnlyKeeps
<1>3. PICK at \in [1 .. N -> P] :
            /\ \A n \in 1 .. N : w[n] = s[at[n]]
            /\ \A i \in P : \E n \in 1 .. N : at[n] = i
            /\ \A m, n \in 1 .. N : m < n => at[m] < at[n]
  BY <1>2
<1>4. w = Without(s, gone)
  BY DEF Without
<1> HIDE DEF w, N
<1>5. \A n \in 1 .. N : w[n] \in D \ gone
  BY <1>3 DEF Lists
<1>6. ASSUME NEW d \in D \ gone PROVE \E n \in 1 .. N : w[n] = d
  <2>1. PICK i \in DOMAIN s : s[i] = d
    BY DEF Lists
  <2>2. i \in P
    BY <2>1
  <2> QED BY <1>3, <2>1, <2>2
<1>7. ASSUME NEW m \in 1 .. N, NEW n \in 1 .. N, w[m] = w[n] PROVE m = n
  <2>1. at[m] \in DOMAIN s /\ at[n] \in DOMAIN s /\ at[m] = at[n]
    BY <1>3, <1>7 DEF Lists
  <2>2. m \in Int /\ n \in Int /\ at[m] \in Int
    BY <1>2, <2>1
  <2> QED BY <1>3, <2>1, <2>2
<1>8. DOMAIN w = 1 .. N
  BY <1>2
<1>9. Lists(w, D \ gone)
  BY <1>5, <1>6, <1>7, <1>8 DEF Lists
<1> QED BY <1>2, <1>4, <1>9

LEMMA JoinedLists ==
    ASSUME NEW S, NEW s \in Seq(S), NEW t \in Seq(S), NEW D, NEW E,
           Lists(s, D), Lists(t, E), D \cap E = {}
    PROVE  Lists(s \o t, D \cup E)
<1>1. /\ s \o t \in Seq(S) /\ Len(s \o t) = Len(s) + Len(t)
      /\ \A i \in 1 .. Len(s) : (s \o t)[i] = s[i]
      /\ \A i \in 1 .. Len(t) : (s \o t)[Len(s) + i] = t[i]
      /\ \A i \in 1 .. Len(s \o t) :
            \/ i \in 1 .. Len(s) /\ (s \o t)[i] = s[i]
            \/ i - Len(s) \in 1 .. Len(t) /\ (s \o t)[i] = t[i - Len(s)]
  BY Joined
<1> DEFINE u == s \o t
<1> HIDE DEF u
<1>2. DOMAIN u = 1 .. Len(s) + Len(t) /\ DOMAIN s = 1 .. Len(s) /\ DOMAIN t = 1 .. Len(t)
      /\ Len(s) \in Nat /\ Len(t) \in Nat
  BY <1>1 DEF u
<1>3. \A i \in DOMAIN u : u[i] \in D \cup E
  BY <1>1, <1>2 DEF u, Lists
<1>4. ASSUME NEW d \in D \cup E PROVE \E n \in DOMAIN u : u[n] = d
  <2>1. CASE d \in D
    <3>1. PICK n \in DOMAIN s : s[n] = d
      BY <2>1 DEF Lists
    <3>2. n \in DOMAIN u /\ u[n] = d
      BY <1>1, <1>2, <3>1 DEF u
    <3> QED BY <3>2
  <2>2. CASE d \in E
    <3>1. PICK n \in DOMAIN t : t[n] = d
      BY <2>2 DEF Lists
    <3>2. Len(s) + n \in DOMAIN u /\ u[Len(s) + n] = d
      BY <1>1, <1>2, <3>1 DEF u
    <3> QED BY <3>2
  <2> QED BY <2>1, <2>2
<1>5. ASSUME NEW m \in DOMAIN u, NEW n \in DOMAIN u, u[m] = u[n] PROVE m = n
  <2>1. CASE m \in 1 .. Len(s) /\ n \in 1 .. Len(s)
    BY <1>1, <1>2, <1>5, <2>1 DEF u, Lists
  <2>2. CASE m \notin 1 .. Len(s) /\ n \notin 1 .. Len(s)
    <3>1. m - Len(s) \in DOMAIN t /\ n - Len(s) \in DOMAIN t
      BY <1>2, <2>2
    <3>2. t[m - Len(s)] = t[n - Len(s)]
      BY <1>1, <1>2, <1>5, <2>2 DEF u
    <3>3. m - Len(s) = n - Len(s)
      BY <3>1, <3>2 DEF Lists
    <3> QED BY <1>2, <3>3
  <2>3. ASSUME NEW i \in DOMAIN u, NEW j \in DOMAIN u, i \in 1 .. Len(s), j \notin 1 .. Len(s)
        PROVE  u[i] \in D /\ u[j] \in E
    <3>1. u[i] = s[i] /\ i \in DOMAIN s
      BY <1>1, <1>2, <2>3 DEF u
    <3>2. u[j] = t[j - Len(s)] /\ j - Len(s) \in DOMAIN t
      BY <1>1, <1>2, <2>3 DEF u
    <3> QED BY <3>1, <3>2 DEF Lists
  <2> QED BY <1>5, <2>1, <2>2, <2>3
<1> QED BY <1>3, <1>4, <1>5 DEF Lists, u

LEMMA ValuesLists ==
    ASSUME NEW T, NEW map \in [Folders -> T],
           \A f, g \in Used(map) : map[f] = map[g] => f = g
    PROVE  Lists(Values(map), {map[f] : f \in Used(map)})
<1> DEFINE N == Cardinality(Used(map))
<1>1. /\ Values(map) \in Seq(T) /\ Len(Values(map)) = N /\ N \in Nat
      /\ \E at \in [1 .. N -> Used(map)] :
            /\ \A n \in 1 .. N : Values(map)[n] = map[at[n]]
            /\ \A f \in Used(map) : \E n \in 1 .. N : at[n] = f
            /\ \A m, n \in 1 .. N : at[m] = at[n] => m = n
  BY ValuesListed
<1>2. DOMAIN Values(map) = 1 .. N
  BY <1>1
<1> HIDE DEF N
<1> QED BY <1>1, <1>2 DEF Lists

(* Devices have numbers of their own; a model that is not connected has no   *)
(* rows; until a second connection is made the one model that is connected   *)
(* lists the devices, and only devices the backend has given up are deleted. *)
CountsTyped ==
    counts \in [changes : Nat, edits : Nat, failures : Nat, control : Nat, models : Nat]

OneModelShows ==
    \A m \in attached :
        attached = {m} /\ Lists(rows[m], Devices) /\ Devices \cap deleted = {}

RowsInv ==
    /\ CountsTyped
    /\ \A f, g \in Used(deviceMap) : deviceMap[f] = deviceMap[g] => f = g
    /\ \A m \in Models \ attached : rows[m] = <<>>
    /\ counts.models = 0 => attached = {} /\ deleted = {}
    /\ counts.models <= 1 => OneModelShows

LEMMA RowsInit == Init => RowsInv
<1> SUFFICES ASSUME Init PROVE RowsInv
  OBVIOUS
<1>1. TypeInv
  BY InitTyped
<1>2. \A f \in Folders : deviceMap[f] = IF f \in present THEN NewId(present, 0, f) ELSE 0
  <2>1. \A f \in Folders :
            deviceMap[f] = IF f \in present
                           THEN Cardinality({g \in present : Rank[g] <= Rank[f]}) ELSE 0
    BY DEF Init
  <2>2. \A f \in present : Cardinality({g \in present : Rank[g] <= Rank[f]}) \in Int
    <3> TAKE f \in present
    <3>1. present \in SUBSET Folders
      BY DEF Init
    <3>2. {g \in present : Rank[g] <= Rank[f]} \in SUBSET Folders
      BY <3>1
    <3> QED BY <3>2, FoldersListed
  <2>3. \A f \in present :
            NewId(present, 0, f) = Cardinality({g \in present : Rank[g] <= Rank[f]})
    BY <2>2 DEF NewId
  <2> QED BY <2>1, <2>3
<1>3. \A f, g \in present : NewId(present, 0, f) = NewId(present, 0, g) => f = g
  <2>1. present \in SUBSET Folders
    BY DEF Init
  <2> QED BY <2>1, NewIdsDiffer
<1>4. \A f, g \in Used(deviceMap) : deviceMap[f] = deviceMap[g] => f = g
  BY <1>2, <1>3 DEF Used
<1>5. CountsTyped
  BY DEF Init, CountsTyped
<1> QED BY <1>4, <1>5 DEF Init, RowsInv, OneModelShows

LEMMA RowsAttach ==
    ASSUME TypeInv, RowsInv, NEW m \in Models, AttachModel(m)
    PROVE  RowsInv'
<1>1. /\ counts' = [counts EXCEPT !.models = counts.models + 1]
      /\ m \notin attached /\ attached' = attached \cup {m}
      /\ UNCHANGED <<deviceMap, devices>>
  BY DEF AttachModel
<1>2. CountsTyped' /\ counts'.models = counts.models + 1 /\ counts.models \in Nat
  BY <1>1 DEF RowsInv, CountsTyped
<1>3. /\ deleted' = deleted \cup UNION {ToSet(rows[k]) : k \in attached'}
      /\ rows' = [k \in Models |-> IF k \in attached' THEN Values(deviceMap) ELSE rows[k]]
  BY DEF AttachModel, ResetModels
<1>4. \A k \in Models \ attached' : rows'[k] = <<>>
  BY <1>1, <1>3 DEF RowsInv
<1>5. ASSUME counts'.models <= 1 PROVE OneModelShows'
  <2>1. attached = {} /\ deleted = {} /\ attached' = {m}
    BY <1>1, <1>2, <1>5 DEF RowsInv
  <2>2. rows[m] = <<>>
    BY <1>1 DEF RowsInv
  <2>3. deleted' = {}
    BY <1>3, <2>1, <2>2 DEF ToSet
  <2>4. rows'[m] = Values(deviceMap)
    BY <1>3, <2>1
  <2>5. Lists(Values(deviceMap), {deviceMap[f] : f \in Used(deviceMap)})
    <3>1. deviceMap \in [Folders -> 0 .. devices]
      BY DEF TypeInv, TypeOK
    <3> QED BY <3>1, ValuesLists DEF RowsInv
  <2>6. Devices' = {deviceMap[f] : f \in Used(deviceMap)}
    BY <1>1 DEF Devices, Used
  <2> QED BY <2>1, <2>3, <2>4, <2>5, <2>6 DEF OneModelShows
<1>6. \A f, g \in Used(deviceMap)' : deviceMap'[f] = deviceMap'[g] => f = g
  BY <1>1 DEF RowsInv, Used
<1> QED BY <1>2, <1>4, <1>5, <1>6 DEF RowsInv

LEMMA RowsDetach ==
    ASSUME TypeInv, RowsInv, NEW m \in Models, DetachModel(m)
    PROVE  RowsInv'
<1>1. /\ m \in attached /\ attached' = attached \ {m}
      /\ rows' = [rows EXCEPT ![m] = <<>>]
      /\ UNCHANGED <<deviceMap, devices, counts>>
  BY DEF DetachModel
<1>2. \A k \in Models \ attached' : rows'[k] = <<>>
  BY <1>1 DEF RowsInv, TypeInv, TypeOK
<1>3. ASSUME counts'.models <= 1 PROVE attached' = {}
  BY <1>1, <1>3 DEF RowsInv, OneModelShows
<1> QED BY <1>1, <1>2, <1>3 DEF RowsInv, OneModelShows, CountsTyped, Used

LEMMA RowsDirectory ==
    ASSUME TypeInv, RowsInv, OnDirectoryChanged
    PROVE  RowsInv'
<1>1. PICK gone \in SUBSET Missing, extra \in Seq(Scan) :
            LET removed == {deviceMap[f] : f \in gone} IN
            /\ Missing # {} => gone # {}
            /\ deviceMap' = [f \in Folders |->
                              IF f \in gone THEN 0
                              ELSE IF f \in Added THEN NewId(Added, devices, f)
                                                  ELSE deviceMap[f]]
            /\ devices' = devices + Cardinality(Added)
            /\ rows' = [m \in Models |->
                          IF m \in attached
                          THEN Without(rows[m], removed) \o Values(AddedMap) ELSE rows[m]]
            /\ deleted' = IF attached # {} THEN deleted \cup removed ELSE deleted
            /\ timers' = timers \o InOrder(Added, Rank)
            /\ ScanNext(folderQueue \o extra)
            /\ off \subseteq off'
            /\ "dangling" \in off' \/ extra = Scans("Remove", gone)
  BY DirectoryChange
<1> DEFINE removed == {deviceMap[f] : f \in gone}
           new == {AddedMap[f] : f \in Added}
<1>2. attached' = attached /\ counts' = counts
  BY DEF OnDirectoryChanged
<1>3. /\ Added \in SUBSET Folders /\ Cardinality(Added) \in Nat
      /\ AddedMap \in [Folders -> Nat] /\ Used(AddedMap) = Added
      /\ \A f \in Added : NewId(Added, devices, f)
                                \in devices + 1 .. devices + Cardinality(Added)
      /\ Values(AddedMap) \in Seq(devices + 1 .. devices + Cardinality(Added))
      /\ devices \in Nat /\ deviceMap \in [Folders -> 0 .. devices]
      /\ deleted \subseteq 1 .. devices /\ rows \in [Models -> Seq(1 .. devices)]
  BY AddedTyped DEF TypeInv, TypeOK
<1>4. \A f, g \in Added : NewId(Added, devices, f) = NewId(Added, devices, g) => f = g
  BY <1>3, NewIdsDiffer
<1>5. \A f \in gone : f \in Folders /\ f \notin Added /\ deviceMap[f] # 0
  BY DEF Missing, Added
<1>6. \A f \in Added : AddedMap[f] = NewId(Added, devices, f)
  BY <1>3 DEF AddedMap
<1>7. \A f \in Folders :
        /\ f \in gone => deviceMap'[f] = 0
        /\ f \in Added => deviceMap'[f] = NewId(Added, devices, f)
        /\ f \notin gone /\ f \notin Added => deviceMap'[f] = deviceMap[f]
  BY <1>1, <1>5
<1>8. \A f, g \in Used(deviceMap)' : deviceMap'[f] = deviceMap'[g] => f = g
  <2> SUFFICES ASSUME NEW f \in Folders, NEW g \in Folders, deviceMap'[f] # 0,
                      deviceMap'[g] # 0, deviceMap'[f] = deviceMap'[g]
               PROVE  f = g
    BY DEF Used
  <2>1. f \notin gone /\ g \notin gone
    BY <1>7
  <2>2. CASE f \in Added /\ g \in Added
    BY <1>4, <1>7, <2>2
  <2>3. CASE f \notin Added /\ g \notin Added
    BY <1>7, <2>1, <2>3 DEF RowsInv, Used
  <2>4. \A h \in Folders : h \notin Added => deviceMap[h] \in 0 .. devices
    BY <1>3
  <2>5. CASE f \in Added /\ g \notin Added
    BY <1>3, <1>7, <2>1, <2>4, <2>5
  <2>6. CASE f \notin Added /\ g \in Added
    BY <1>3, <1>7, <2>1, <2>4, <2>6
  <2> QED BY <2>2, <2>3, <2>5, <2>6
<1>9. Devices' = (Devices \ removed) \cup new
  <2>1. ASSUME NEW f \in Folders, deviceMap'[f] # 0
        PROVE  deviceMap'[f] \in (Devices \ removed) \cup new
    <3>1. CASE f \in Added
      BY <1>6, <1>7, <3>1
    <3>2. CASE f \notin Added
      <4>1. f \notin gone /\ deviceMap'[f] = deviceMap[f]
        BY <1>7, <2>1, <3>2
      <4>2. ASSUME NEW g \in gone PROVE deviceMap[g] # deviceMap[f]
        BY <1>5, <2>1, <4>1 DEF RowsInv, Used
      <4>3. deviceMap[f] \in Devices
        BY <2>1, <4>1 DEF Devices
      <4> QED BY <4>1, <4>2, <4>3
    <3> QED BY <3>1, <3>2
  <2>2. ASSUME NEW f \in Folders, deviceMap[f] # 0, deviceMap[f] \notin removed
        PROVE  deviceMap'[f] = deviceMap[f]
    <3>1. f \notin gone /\ f \notin Added
      BY <2>2 DEF Added
    <3> QED BY <1>7, <3>1
  <2>3. ASSUME NEW f \in Added PROVE f \in Folders /\ deviceMap'[f] = AddedMap[f] /\ AddedMap[f] # 0
    BY <1>3, <1>6, <1>7
  <2>4. ASSUME NEW d \in Devices' PROVE d \in (Devices \ removed) \cup new
    <3>1. PICK f \in Folders : deviceMap'[f] # 0 /\ deviceMap'[f] = d
      BY <2>4 DEF Devices
    <3> HIDE DEF new, removed
    <3> QED BY <2>1, <3>1
  <2>5. ASSUME NEW d \in Devices \ removed PROVE d \in Devices'
    <3>1. PICK f \in Folders : deviceMap[f] # 0 /\ deviceMap[f] = d
      BY <2>5 DEF Devices
    <3>2. deviceMap'[f] = d
      BY <2>2, <2>5, <3>1
    <3> QED BY <3>1, <3>2 DEF Devices
  <2>6. ASSUME NEW d \in new PROVE d \in Devices'
    <3>1. PICK f \in Added : AddedMap[f] = d
      BY <2>6
    <3>2. f \in Folders /\ deviceMap'[f] = d /\ d # 0
      BY <2>3, <3>1
    <3> QED BY <3>2 DEF Devices
  <2> HIDE DEF new, removed
  <2> QED BY <2>4, <2>5, <2>6
<1>10. ASSUME NEW m \in Models \ attached' PROVE rows'[m] = <<>>
  BY <1>1, <1>2, <1>10 DEF RowsInv
<1>11. \A d \in new : d \in Nat /\ d > devices
  BY <1>3, <1>6
<1>12. Devices \subseteq 1 .. devices
  BY <1>3 DEF Devices
<1>13. ASSUME counts.models <= 1, NEW m \in attached
       PROVE  Lists(rows'[m], Devices') /\ Devices' \cap deleted' = {}
  <2>0. m \in Models
    BY <1>13 DEF TypeInv, TypeOK
  <2>1. Lists(rows[m], Devices) /\ Devices \cap deleted = {}
    BY <1>13 DEF RowsInv, OneModelShows
  <2>2. rows'[m] = Without(rows[m], removed) \o Values(AddedMap)
    BY <1>1, <2>0
  <2>3. deleted' = deleted \cup removed
    BY <1>1, <1>13
  <2> HIDE DEF removed
  <2>4. /\ Without(rows[m], removed) \in Seq(Nat)
        /\ Lists(Without(rows[m], removed), Devices \ removed)
    <3>1. rows[m] \in Seq(1 .. devices)
      BY <1>3, <2>0
    <3>2. /\ Without(rows[m], removed) \in Seq(1 .. devices)
          /\ Lists(Without(rows[m], removed), Devices \ removed)
      BY <2>1, <3>1, WithoutLists
    <3>3. 1 .. devices \subseteq Nat
      BY <1>3
    <3> QED BY <3>2, <3>3, SeqWider
  <2>5. Values(AddedMap) \in Seq(Nat) /\ Lists(Values(AddedMap), new)
    <3>1. Values(AddedMap) \in Seq(Nat)
      BY <1>3, ValuesListed
    <3>2. \A f, g \in Used(AddedMap) : AddedMap[f] = AddedMap[g] => f = g
      BY <1>3, <1>4, <1>6
    <3>3. Lists(Values(AddedMap), {AddedMap[f] : f \in Used(AddedMap)})
      BY <1>3, <3>2, ValuesLists
    <3>4. {AddedMap[f] : f \in Used(AddedMap)} = new
      BY <1>3
    <3> HIDE DEF new
    <3> QED BY <3>1, <3>3, <3>4
  <2> HIDE DEF new
  <2>6. (Devices \ removed) \cap new = {}
    BY <1>3, <1>11, <1>12
  <2>7. Lists(rows'[m], Devices')
    <3> DEFINE list == Without(rows[m], removed)
               more == Values(AddedMap)
               kept == Devices \ removed
    <3> HIDE DEF list, more, kept
    <3>1. /\ list \in Seq(Nat) /\ Lists(list, kept)
          /\ more \in Seq(Nat) /\ Lists(more, new)
          /\ kept \cap new = {}
      BY <2>4, <2>5, <2>6 DEF list, more, kept
    <3>2. Lists(list \o more, kept \cup new)
      BY <3>1, JoinedLists
    <3> QED BY <1>9, <2>2, <3>2 DEF list, more, kept
  <2>8. Devices' \cap deleted' = {}
    <3> SUFFICES ASSUME NEW d \in Devices', d \in deleted' PROVE FALSE
      OBVIOUS
    <3>1. CASE d \in new
      <4>1. d > devices /\ d \in Nat /\ d \in 1 .. devices
        <5>1. removed \subseteq 1 .. devices
          BY <1>3, <1>5, <1>12 DEF removed
        <5> QED BY <1>3, <1>11, <2>3, <3>1, <5>1
      <4> QED BY <1>3, <4>1
    <3>2. CASE d \in Devices \ removed
      BY <2>1, <2>3, <3>2
    <3> QED BY <1>9, <3>1, <3>2
  <2> QED BY <2>7, <2>8
<1>14. counts.models = 0 => attached' = {} /\ deleted' = {}
  BY <1>1, <1>2 DEF RowsInv
<1>15. counts.models <= 1 => OneModelShows'
  BY <1>2, <1>13 DEF RowsInv, OneModelShows
<1> QED BY <1>2, <1>8, <1>10, <1>14, <1>15 DEF RowsInv, CountsTyped

\* Nothing else touches devices or rows.
LEMMA RowsFrame ==
    ASSUME RowsInv, CountsTyped', counts'.models = counts.models,
           UNCHANGED <<deviceMap, devices, deleted, rows, attached>>
    PROVE  RowsInv'
<1>1. Devices' = Devices /\ Used(deviceMap)' = Used(deviceMap)
  BY DEF Devices, Used
<1>2. OneModelShows' <=> OneModelShows
  BY <1>1 DEF OneModelShows
<1> QED BY <1>1, <1>2 DEF RowsInv

LEMMA RowsKept == TypeInv /\ RowsInv /\ [Next]_vars => RowsInv'
<1> SUFFICES ASSUME TypeInv, RowsInv, [Next]_vars PROVE RowsInv'
  OBVIOUS
<1>1. ASSUME UNCHANGED <<deviceVars, attached, counts>> PROVE RowsInv'
  BY <1>1, RowsFrame DEF RowsInv, CountsTyped, deviceVars
<1>2. ASSUME NEW f \in Folders, ChangeDisk(f) PROVE RowsInv'
  <2>1. counts' = [counts EXCEPT !.changes = counts.changes + 1]
        /\ UNCHANGED <<deviceVars, attached>>
    BY <1>2 DEF ChangeDisk
  <2>2. CountsTyped' /\ counts'.models = counts.models
    BY <2>1 DEF RowsInv, CountsTyped
  <2> QED BY <2>1, <2>2, RowsFrame DEF deviceVars
<1>3. ASSUME NEW t \in Track, UserRemoves(t) PROVE RowsInv'
  <2>1. counts' = [counts EXCEPT !.edits = counts.edits + 1]
        /\ UNCHANGED <<deviceVars, attached>>
    BY <1>3 DEF UserRemoves
  <2>2. CountsTyped' /\ counts'.models = counts.models
    BY <2>1 DEF RowsInv, CountsTyped
  <2> QED BY <2>1, <2>2, RowsFrame DEF deviceVars
<1>4. CASE FailScan
  <2>1. counts' = [counts EXCEPT !.failures = counts.failures + 1]
        /\ UNCHANGED <<deviceVars, attached>>
    BY <1>4 DEF FailScan
  <2>2. CountsTyped' /\ counts'.models = counts.models
    BY <2>1 DEF RowsInv, CountsTyped
  <2> QED BY <2>1, <2>2, RowsFrame DEF deviceVars
<1>5. CASE ConnectControl
  <2>1. counts' = [counts EXCEPT !.control = counts.control + 1]
        /\ UNCHANGED <<deviceVars, attached>>
    BY <1>5 DEF ConnectControl
  <2>2. CountsTyped' /\ counts'.models = counts.models
    BY <2>1 DEF RowsInv, CountsTyped
  <2> QED BY <2>1, <2>2, RowsFrame DEF deviceVars
<1>6. CASE DisconnectControl \/ Deliver \/ PlayerRemoves \/ MediaDirectoryAdded \/ Wire
  BY <1>1, <1>6 DEF DisconnectControl, Deliver, OnStateChanged, OnRemoveFromQueue,
        OnScanFinished, PlayerRemoves, MediaDirectoryAdded, Wire
<1>7. CASE BeginScan \/ DeleteFound \/ InsertFile \/ AllInserted
  BY <1>1, <1>7 DEF BeginScan, DeleteFound, InsertFile, AllInserted
<1>8. CASE UNCHANGED vars
  BY <1>1, <1>8 DEF vars
<1> QED BY <1>2, <1>3, <1>4, <1>5, <1>6, <1>7, <1>8, RowsAttach, RowsDetach, RowsDirectory
      DEF Next, Work

(* A model shows the devices the backend has, each once and none that has    *)
(* been deleted, for any folders and however devices come and go, until      *)
(* there is a second connection: resetModel() deletes what others show.      *)
THEOREM FirstModelShowsLive == Spec => [](counts.models <= 1 => ShowsLiveDevices)
<1>1. ASSUME TypeInv, RowsInv PROVE counts.models <= 1 => ShowsLiveDevices
  <2> SUFFICES ASSUME counts.models <= 1, NEW m \in attached
               PROVE  /\ ToSet(rows[m]) = Devices /\ Len(rows[m]) = Cardinality(Devices)
                      /\ ToSet(rows[m]) \cap deleted = {}
    BY DEF ShowsLiveDevices
  <2>1. rows[m] \in Seq(1 .. devices) /\ Lists(rows[m], Devices) /\ Devices \cap deleted = {}
    BY <1>1 DEF TypeInv, TypeOK, RowsInv, OneModelShows
  <2> QED BY <2>1, ListsAll
<1>2. TypeInv /\ RowsInv => (counts.models <= 1 => ShowsLiveDevices)
  BY <1>1
<1> QED BY <1>2, TypedAlways, InitTyped, NextTyped, RowsInit, RowsKept, PTL DEF Spec

------------------------------------------------------------------------------
(* The indexer.  Its finished() signal is the last of the queued events and  *)
(* on its way only while nothing runs.                                       *)
FinishedToCome == \E i \in DOMAIN events : events[i].kind = "finished"

FinishedLast ==
    \A i \in DOMAIN events :
        events[i].kind = "finished" => i = Len(events) /\ ~running

LEMMA ForgottenEvents ==
    ASSUME TypeInv, FinishedLast
    PROVE  /\ Forgotten \in Seq(Event)
           /\ Len(Forgotten) = IF FinishedToCome THEN Len(events) - 1 ELSE Len(events)
           /\ \A n \in 1 .. Len(Forgotten) :
                Forgotten[n] = events[n] /\ events[n].kind # "finished"
<1> DEFINE k == IF FinishedToCome THEN Len(events) - 1 ELSE Len(events)
           P == {i \in DOMAIN events : events[i].kind # "finished"}
<1>1. events \in Seq(Event) /\ Len(events) \in Nat /\ DOMAIN events = 1 .. Len(events)
  BY DEF TypeInv, TypeOK
<1>2. k \in 0 .. Len(events)
  <2>1. FinishedToCome => Len(events) > 0
    BY <1>1 DEF FinishedToCome
  <2> QED BY <1>1, <2>1
<1>3. \A i \in 1 .. Len(events) : events[i].kind # "finished" <=> i \in 1 .. k
  <2> TAKE i \in 1 .. Len(events)
  <2>1. CASE FinishedToCome
    <3>1. PICK j \in DOMAIN events : events[j].kind = "finished"
      BY <2>1 DEF FinishedToCome
    <3>2. j = Len(events)
      BY <3>1 DEF FinishedLast
    <3>3. events[i].kind = "finished" <=> i = Len(events)
      BY <1>1, <3>1, <3>2 DEF FinishedLast
    <3>4. k = Len(events) - 1
      BY <2>1
    <3>5. Len(events) \in Nat /\ i \in 1 .. Len(events)
      BY <1>1
    <3> HIDE DEF k
    <3>6. i \in 1 .. k <=> ~(i = Len(events))
      BY <3>4, <3>5
    <3> QED BY <3>3, <3>6, Zenon
  <2>2. CASE ~FinishedToCome
    BY <1>1, <2>2 DEF FinishedToCome
  <2> QED BY <2>1, <2>2
<1>4. P = 1 .. k
  BY <1>1, <1>2, <1>3
<1> HIDE DEF k
<1>5. Forgotten = Only(events, 1 .. k)
  BY <1>4 DEF Forgotten
<1>6. /\ Only(events, 1 .. k) \in Seq(Event) /\ Len(Only(events, 1 .. k)) = k
      /\ \A n \in 1 .. k : Only(events, 1 .. k)[n] = events[n]
  BY <1>1, <1>2, OnlyFirst
<1>7. \A n \in 1 .. k : n \in 1 .. Len(events) /\ events[n].kind # "finished"
  BY <1>1, <1>2, <1>3
<1> QED BY <1>5, <1>6, <1>7 DEF k

(* The state of the indexer fits its last result; the connected control will *)
(* have been told of it by the last of the events on their way to it.        *)
StateFits ==
    ~running => state = IF ~result THEN "Error"
                        ELSE IF FinishedToCome THEN "Active" ELSE "Idle"

Announced ==
    /\ (\A i \in DOMAIN events : events[i].kind # "state") => shownState = state
    /\ \A i \in DOMAIN events :
        events[i].kind = "state" /\ (\A j \in DOMAIN events : j > i => events[j].kind # "state")
            => events[i].state = state

ServeInv ==
    /\ CountsTyped /\ FinishedLast /\ NothingForgotten /\ StateFits
    /\ begun => state = "Active"
    /\ counts.control = 0 =>
        ~control /\ \A i \in DOMAIN events : events[i].kind # "state"
    /\ counts.control <= 1 /\ control => Announced

LEMMA ServeInit == Init => ServeInv
  BY DEF Init, ServeInv, CountsTyped, FinishedLast, NothingForgotten, StateFits, Announced

LEMMA ServeScanNext ==
    ASSUME TypeInv, ServeInv, NEW queued \in Seq(Scan), ScanNext(queued),
           UNCHANGED <<state, result, controlVars, counts>>
    PROVE  ServeInv'
<1>1. CASE running \/ queued = <<>>
  <2>1. UNCHANGED <<scan, begun, running, events>> /\ folderQueue' = queued
    BY <1>1 DEF ScanNext
  <2>2. UNCHANGED <<FinishedToCome, Announced, FinishedLast, StateFits>>
    BY <2>1 DEF FinishedToCome, Announced, FinishedLast, StateFits, controlVars
  <2> QED BY <1>1, <2>1, <2>2 DEF ServeInv, NothingForgotten, CountsTyped, controlVars
<1>2. CASE ~(running \/ queued = <<>>)
  <2>1. running' = TRUE /\ begun' = FALSE /\ events' = Forgotten
    BY <1>2 DEF ScanNext
  <2>2. /\ Forgotten \in Seq(Event)
        /\ Len(Forgotten) = IF FinishedToCome THEN Len(events) - 1 ELSE Len(events)
        /\ \A n \in 1 .. Len(Forgotten) :
            Forgotten[n] = events[n] /\ events[n].kind # "finished"
    BY ForgottenEvents DEF ServeInv
  <2>3. /\ DOMAIN events' = 1 .. Len(events') /\ DOMAIN events = 1 .. Len(events)
        /\ Len(events) \in Nat
    BY <2>1, <2>2 DEF TypeInv, TypeOK
  <2>4. /\ \/ Len(events') = Len(events)
           \/ /\ Len(events') = Len(events) - 1 /\ events[Len(events)].kind = "finished"
              /\ Len(events) \in DOMAIN events
        /\ \A n \in DOMAIN events' :
            n \in DOMAIN events /\ events'[n] = events[n] /\ events[n].kind # "finished"
    <3>1. FinishedToCome => Len(events) \in DOMAIN events
                                /\ events[Len(events)].kind = "finished"
      BY DEF FinishedToCome, ServeInv, FinishedLast
    <3>2. \/ Len(events') = Len(events)
          \/ /\ Len(events') = Len(events) - 1 /\ events[Len(events)].kind = "finished"
             /\ Len(events) \in DOMAIN events
      BY <2>1, <2>2, <3>1
    <3>3. Len(events') <= Len(events) /\ Len(events') \in Nat
      <4>1. Len(events') \in Nat
        BY <2>1, <2>2
      <4>2. Len(events) \in Nat
        BY <2>3
      <4> QED BY <3>2, <4>1, <4>2
    <3>4. \A n \in DOMAIN events' : n \in DOMAIN events /\ n \in 1 .. Len(Forgotten)
      BY <2>1, <2>3, <3>3
    <3> QED BY <2>1, <2>2, <3>2, <3>4
  <2>5. ASSUME Announced PROVE Announced'
    <3>1. ASSUME NEW i \in DOMAIN events, events[i].kind = "state"
          PROVE  i \in DOMAIN events'
      <4>1. CASE Len(events') = Len(events)
        BY <2>3, <4>1
      <4>2. CASE Len(events') = Len(events) - 1 /\ i # Len(events)
        BY <2>3, <4>2
      <4> QED BY <2>4, <3>1, <4>1, <4>2
    <3> QED BY <2>4, <2>5, <3>1 DEF Announced, controlVars
  <2> QED BY <2>1, <2>3, <2>4, <2>5
        DEF ServeInv, NothingForgotten, CountsTyped, controlVars, FinishedLast, StateFits
<1> QED BY <1>1, <1>2

LEMMA ServeQueued ==
    ASSUME TypeInv, ServeInv, OnDirectoryChanged \/ MediaDirectoryAdded \/ Wire
    PROVE  ServeInv'
<1>1. UNCHANGED <<state, result, controlVars, counts>>
  BY DEF OnDirectoryChanged, MediaDirectoryAdded, Wire
<1>2. CASE OnDirectoryChanged
  <2>1. PICK extra \in Seq(Scan) : ScanNext(folderQueue \o extra) /\ off \subseteq off'
    BY <1>2, DirectoryChange
  <2>3. folderQueue \o extra \in Seq(Scan)
    BY DEF TypeInv, TypeOK
  <2> QED BY <1>1, <2>1, <2>3, ServeScanNext
<1>3. CASE MediaDirectoryAdded
  <2>1. Head(timers) \in Folders
    BY <1>3 DEF MediaDirectoryAdded, TypeInv, TypeOK
  <2>2. Append(folderQueue, [op |-> "Add", folder |-> Head(timers)]) \in Seq(Scan)
    BY <2>1 DEF TypeInv, TypeOK, Scan
  <2> QED BY <1>1, <1>3, <2>2, ServeScanNext DEF MediaDirectoryAdded
<1>4. CASE Wire
  <2>1. Scans("Add", {f \in Folders : deviceMap[f] # 0}) \in Seq(Scan)
    <3>1. {f \in Folders : deviceMap[f] # 0} \in SUBSET Folders
      OBVIOUS
    <3> QED BY <3>1, ScansListed
  <2>2. folderQueue \o Scans("Add", {f \in Folders : deviceMap[f] # 0}) \in Seq(Scan)
    BY <2>1 DEF TypeInv, TypeOK
  <2> QED BY <1>1, <1>4, <2>2, ServeScanNext DEF Wire
<1> QED BY <1>2, <1>3, <1>4

\* What the worker posts when it begins.
LEMMA ServeBegin ==
    ASSUME TypeInv, ServeInv, BeginScan
    PROVE  ServeInv'
<1>1. PICK order \in SetToSeqs(Queued) :
            /\ events' = (events \o StateEvent("Active")) \o RowEvents(order)
            /\ events \o StateEvent("Active") \in Seq(Event)
            /\ events' \in Seq(Event)
  BY BeginEvents
<1>2. /\ running /\ running' = running /\ state' = "Active"
      /\ UNCHANGED <<folderQueue, result, controlVars, counts>>
  BY DEF BeginScan
<1> DEFINE n == Len(events)
           k == IF control THEN 1 ELSE 0
<1>3. /\ n \in Nat /\ DOMAIN events = 1 .. n /\ DOMAIN events' = 1 .. Len(events')
      /\ Len(events') \in Nat /\ Len(events') >= n + k
      /\ \A i \in 1 .. n : events'[i] = events[i]
      /\ control => events'[n + 1] = [kind |-> "state", state |-> "Active"]
      /\ \A i \in 1 .. Len(events') : i > n + k => events'[i].kind = "removeFromQueue"
  <2> DEFINE u == events \o StateEvent("Active")
             r == RowEvents(order)
  <2>1. /\ events \in Seq(Event) /\ StateEvent("Active") \in Seq(Event)
        /\ Len(StateEvent("Active")) = k
        /\ control => StateEvent("Active")[1] = [kind |-> "state", state |-> "Active"]
    BY StateEventTyped DEF TypeInv, TypeOK
  <2>2. /\ u \in Seq(Event) /\ Len(u) = n + k
        /\ \A i \in 1 .. n : u[i] = events[i]
        /\ \A i \in 1 .. k : u[n + i] = StateEvent("Active")[i]
    <3>1. /\ u \in Seq(Event) /\ Len(u) = Len(events) + Len(StateEvent("Active"))
          /\ \A i \in 1 .. Len(events) : u[i] = events[i]
      BY <2>1, Joined
    <3>2. \A i \in 1 .. Len(StateEvent("Active")) :
            u[Len(events) + i] = StateEvent("Active")[i]
      BY <2>1, Joined
    <3> QED BY <2>1, <3>1, <3>2
  <2>3. /\ r \in Seq(Event)
        /\ \A i \in 1 .. Len(r) : r[i].kind = "removeFromQueue"
    <3>1. /\ r \in Seq(Event)
          /\ \A i \in 1 .. Len(r) :
                r[i] = [kind |-> "removeFromQueue", index |-> queue[order[i]]]
      BY RowEventsTyped
    <3> HIDE DEF r
    <3>2. ASSUME NEW i \in 1 .. Len(r) PROVE r[i].kind = "removeFromQueue"
      <4>1. r[i] = [kind |-> "removeFromQueue", index |-> queue[order[i]]]
        BY <3>1
      <4> QED BY <4>1
    <3> QED BY <3>1, <3>2
  <2>4. events' = u \o r
    BY <1>1
  <2> HIDE DEF u, r
  <2>5. /\ Len(u \o r) = Len(u) + Len(r)
        /\ \A i \in 1 .. Len(u) : (u \o r)[i] = u[i]
        /\ \A i \in 1 .. Len(u \o r) :
                \/ i \in 1 .. Len(u) /\ (u \o r)[i] = u[i]
                \/ i - Len(u) \in 1 .. Len(r) /\ (u \o r)[i] = r[i - Len(u)]
    BY ZenonT(40), <2>2, <2>3, Joined
  <2>6. n \in Nat /\ k \in Nat /\ Len(r) \in Nat /\ Len(u) \in Nat
    BY <2>1, <2>2, <2>3
  <2>7. \A i \in 1 .. n : events'[i] = events[i]
    BY <2>2, <2>4, <2>5, <2>6
  <2>8. control => events'[n + 1] = [kind |-> "state", state |-> "Active"]
    BY <2>1, <2>2, <2>4, <2>5, <2>6
  <2>9. \A i \in 1 .. Len(events') : i > n + k => events'[i].kind = "removeFromQueue"
    BY <2>2, <2>3, <2>4, <2>5, <2>6
  <2>10. /\ Len(events') = n + k + Len(r)
         /\ DOMAIN events = 1 .. n /\ DOMAIN events' = 1 .. Len(events')
         /\ n \in Nat /\ Len(events') \in Nat
    <3>1. Len(events') = n + k + Len(r)
      BY <2>2, <2>4, <2>5
    <3>2. DOMAIN events = 1 .. n
      BY <2>1
    <3>3. events' \in Seq(Event)
      BY <1>1
    <3>4. DOMAIN events' = 1 .. Len(events') /\ Len(events') \in Nat
      BY <3>3
    <3> QED BY <2>6, <3>1, <3>2, <3>4
  <2>11. Len(events') >= n + k
    BY <2>6, <2>10
  <2> QED BY <2>7, <2>8, <2>9, <2>10, <2>11
<1> HIDE DEF n
<1>4. \A i \in 1 .. Len(events') : \/ i \in 1 .. n /\ events'[i] = events[i]
                                   \/ i = n + 1 /\ control /\ events'[i].kind = "state"
                                   \/ i > n + k /\ events'[i].kind = "removeFromQueue"
  BY <1>3
<1>5. \A i \in DOMAIN events' : events'[i].kind # "finished"
  BY <1>2, <1>3, <1>4 DEF ServeInv, FinishedLast
<1>6. ASSUME control PROVE Announced'
  <2>1. n + 1 \in DOMAIN events' /\ events'[n + 1].kind = "state"
        /\ events'[n + 1].state = "Active"
    BY <1>3, <1>6
  <2>2. \A i \in DOMAIN events' : i > n + 1 => events'[i].kind # "state"
    BY <1>3, <1>6
  <2>3. ASSUME NEW i \in DOMAIN events', events'[i].kind = "state",
               \A j \in DOMAIN events' : j > i => events'[j].kind # "state"
        PROVE  i = n + 1
    BY <1>3, <2>1, <2>2, <2>3
  <2> QED BY <1>2, <2>1, <2>3 DEF Announced
<1>7. counts.control = 0 => \A i \in DOMAIN events' : events'[i].kind # "state"
  BY <1>3, <1>4 DEF ServeInv
<1> QED BY <1>2, <1>5, <1>6, <1>7
      DEF ServeInv, FinishedLast, NothingForgotten, StateFits, CountsTyped, controlVars

\* What the worker posts when it ends: finished() comes last.
LEMMA EndEvents ==
    ASSUME TypeInv, NEW res \in BOOLEAN, NEW posted \in Seq(Event), EndScan(res, posted)
    PROVE  /\ events' \in Seq(Event) /\ Len(events') = Len(events) + Len(posted) + 1
           /\ \A i \in 1 .. Len(events) : events'[i] = events[i]
           /\ \A i \in 1 .. Len(posted) : events'[Len(events) + i] = posted[i]
           /\ events'[Len(events')] = [kind |-> "finished"]
           /\ DOMAIN events = 1 .. Len(events) /\ DOMAIN events' = 1 .. Len(events')
           /\ Len(events) \in Nat /\ Len(posted) \in Nat
<1> DEFINE fin == <<[kind |-> "finished"]>>
           u == events \o posted
<1>1. fin \in Seq(Event) /\ Len(fin) = 1 /\ fin[1] = [kind |-> "finished"]
  BY DEF Event
<1>2. events \in Seq(Event) /\ posted \in Seq(Event)
  BY DEF TypeInv, TypeOK
<1>3. /\ u \in Seq(Event) /\ Len(u) = Len(events) + Len(posted)
      /\ \A i \in 1 .. Len(events) : u[i] = events[i]
      /\ \A i \in 1 .. Len(posted) : u[Len(events) + i] = posted[i]
  BY <1>2, Joined
<1>4. events' = u \o fin
  BY DEF EndScan
<1> HIDE DEF fin, u
<1>5. /\ u \o fin \in Seq(Event) /\ Len(u \o fin) = Len(u) + Len(fin)
      /\ \A i \in 1 .. Len(u) : (u \o fin)[i] = u[i]
      /\ \A i \in 1 .. Len(fin) : (u \o fin)[Len(u) + i] = fin[i]
  <2>1. u \in Seq(Event) /\ fin \in Seq(Event)
    BY <1>1, <1>3
  <2> QED BY <2>1, Joined
<1>6. Len(events) \in Nat /\ Len(posted) \in Nat
  BY <1>2
<1>7. Len(events') = Len(events) + Len(posted) + 1
  BY <1>1, <1>3, <1>4, <1>5
<1>8. \A i \in 1 .. Len(events) : events'[i] = events[i]
  BY <1>3, <1>4, <1>5, <1>6
<1>9. \A i \in 1 .. Len(posted) : events'[Len(events) + i] = posted[i]
  BY <1>3, <1>4, <1>5, <1>6
<1>10. events'[Len(events')] = [kind |-> "finished"]
  BY <1>1, <1>3, <1>4, <1>5, <1>6, <1>7
<1> QED BY SMTT(30), <1>2, <1>4, <1>5, <1>6, <1>7, <1>8, <1>9, <1>10

LEMMA ServeEnd ==
    ASSUME TypeInv, ServeInv, DeleteFound \/ AllInserted \/ FailScan
    PROVE  ServeInv'
<1> DEFINE failed == state' = "Error" /\ result' = FALSE
           n == Len(events)
           k == IF failed /\ control THEN 1 ELSE 0
<1>1. /\ begun /\ running /\ state = "Active" /\ running' = FALSE /\ begun' = FALSE
      /\ UNCHANGED controlVars
      /\ \/ result' = TRUE /\ state' = state
         \/ result' = FALSE /\ state' = "Error"
  BY DEF DeleteFound, AllInserted, FailScan, EndScan, ServeInv, TypeInv
<1>2. CountsTyped' /\ counts'.control = counts.control
  <2>1. UNCHANGED counts \/ counts' = [counts EXCEPT !.failures = counts.failures + 1]
    BY DEF DeleteFound, AllInserted, FailScan
  <2> QED BY <2>1 DEF ServeInv, CountsTyped
<1>3. /\ DOMAIN events = 1 .. n /\ DOMAIN events' = 1 .. n + k + 1 /\ n \in Nat
      /\ Len(events') = n + k + 1
      /\ \A i \in 1 .. n : events'[i] = events[i]
      /\ failed /\ control => events'[n + 1] = [kind |-> "state", state |-> "Error"]
      /\ events'[n + k + 1] = [kind |-> "finished"]
  <2>1. CASE DeleteFound \/ AllInserted
    <3>1. EndScan(TRUE, <<>>) /\ k = 0 /\ ~failed
      BY <1>1, <2>1 DEF DeleteFound, AllInserted, EndScan
    <3>2. <<>> \in Seq(Event) /\ Len(<<>>) = 0
      OBVIOUS
    <3>3. /\ Len(events') = Len(events) + 0 + 1
          /\ \A i \in 1 .. Len(events) : events'[i] = events[i]
          /\ events'[Len(events')] = [kind |-> "finished"]
          /\ DOMAIN events = 1 .. Len(events) /\ DOMAIN events' = 1 .. Len(events')
          /\ Len(events) \in Nat
      BY <3>1, <3>2, EndEvents
    <3> HIDE DEF failed, k
    <3> QED BY <3>1, <3>3
  <2>2. CASE FailScan
    <3>1. EndScan(FALSE, StateEvent("Error")) /\ failed
      BY <2>2 DEF FailScan, EndScan
    <3>2. /\ StateEvent("Error") \in Seq(Event) /\ Len(StateEvent("Error")) = k
          /\ control => StateEvent("Error")[1] = [kind |-> "state", state |-> "Error"]
      BY <3>1, StateEventTyped
    <3>3. /\ Len(events') = Len(events) + Len(StateEvent("Error")) + 1
          /\ \A i \in 1 .. Len(events) : events'[i] = events[i]
          /\ \A i \in 1 .. Len(StateEvent("Error")) :
                events'[Len(events) + i] = StateEvent("Error")[i]
          /\ events'[Len(events')] = [kind |-> "finished"]
          /\ DOMAIN events = 1 .. Len(events) /\ DOMAIN events' = 1 .. Len(events')
          /\ Len(events) \in Nat
      BY <3>1, <3>2, EndEvents
    <3>4. control => k = 1
      BY <3>1
    <3> HIDE DEF failed, k
    <3>5. control => events'[n + 1] = [kind |-> "state", state |-> "Error"]
      BY <3>2, <3>3, <3>4
    <3> QED BY <3>1, <3>2, <3>3, <3>5
  <2> QED BY <2>1, <2>2
<1>4. k \in {0, 1} /\ (k = 1 <=> failed /\ control)
  OBVIOUS
<1>5. failed \/ (result' = TRUE /\ state' = "Active")
  BY <1>1
<1> HIDE DEF n, k, failed
<1>6. \A i \in 1 .. n + k + 1 :
        \/ i \in 1 .. n /\ events'[i] = events[i]
        \/ i = n + 1 /\ k = 1 /\ events'[i] = [kind |-> "state", state |-> "Error"]
        \/ i = n + k + 1 /\ events'[i] = [kind |-> "finished"]
  BY <1>3, <1>4
<1>7. \A i \in 1 .. n : events[i].kind # "finished"
  BY <1>1, <1>3 DEF ServeInv, FinishedLast
<1>8. FinishedLast' /\ FinishedToCome'
  <2>1. n + k + 1 \in DOMAIN events' /\ events'[n + k + 1].kind = "finished"
    BY <1>3, <1>4
  <2>2. ASSUME NEW i \in DOMAIN events', events'[i].kind = "finished"
        PROVE  i = n + k + 1
    BY <1>3, <1>6, <1>7, <2>2
  <2> QED BY <1>1, <1>3, <2>1, <2>2 DEF FinishedLast, FinishedToCome
<1>9. NothingForgotten' /\ StateFits'
  BY <1>5, <1>8 DEF NothingForgotten, StateFits, FinishedToCome, failed
<1>10. ASSUME NEW i \in DOMAIN events'
       PROVE  \/ i \in DOMAIN events /\ events'[i] = events[i]
              \/ i = n + 1 /\ k = 1 /\ events'[i].kind = "state" /\ events'[i].state = "Error"
              \/ events'[i].kind = "finished"
  BY <1>3, <1>6
<1>11. counts.control = 0 =>
        ~control' /\ \A i \in DOMAIN events' : events'[i].kind # "state"
  BY <1>1, <1>4, <1>10 DEF ServeInv, controlVars
<1>12. ASSUME Announced, control PROVE Announced'
  <2>1. CASE failed
    <3>1. k = 1 /\ n + 1 \in DOMAIN events' /\ events'[n + 1].kind = "state"
          /\ events'[n + 1].state = "Error" /\ state' = "Error"
      BY <1>3, <1>4, <1>12, <2>1 DEF failed
    <3>2. ASSUME NEW i \in DOMAIN events', events'[i].kind = "state",
                 \A j \in DOMAIN events' : j > i => events'[j].kind # "state"
          PROVE  i = n + 1
      <4>1. i \notin 1 .. n
        BY <1>3, <3>1, <3>2
      <4> QED BY <1>3, <1>10, <3>2, <4>1
    <3> QED BY <3>1, <3>2 DEF Announced
  <2>2. CASE ~failed
    <3>1. k = 0 /\ state' = state
      BY <1>1, <1>4, <2>2 DEF failed
    <3>2. \A i \in DOMAIN events : i \in DOMAIN events' /\ events'[i] = events[i]
      BY <1>3, <3>1
    <3>3. \A i \in DOMAIN events' :
            \/ i \in DOMAIN events /\ events'[i] = events[i]
            \/ events'[i].kind = "finished"
      BY <1>10, <3>1
    <3> QED BY <1>1, <1>12, <3>1, <3>2, <3>3 DEF Announced, controlVars
  <2> QED BY <2>1, <2>2
<1> QED BY <1>1, <1>2, <1>8, <1>9, <1>11, <1>12 DEF ServeInv, controlVars

\* The GUI thread takes the next event.
LEMMA ServeDeliver ==
    ASSUME TypeInv, ServeInv, Deliver
    PROVE  ServeInv'
<1>1. /\ events \in Seq(Event) /\ events # <<>> /\ events' = Tail(events)
      /\ UNCHANGED <<result, control, counts>>
  <2>1. events \in Seq(Event)
    BY DEF TypeInv, TypeOK
  <2>2. CASE OnStateChanged
    BY <2>1, <2>2 DEF OnStateChanged, Received, indexerVars
  <2>3. CASE OnRemoveFromQueue
    BY <2>1, <2>3 DEF OnRemoveFromQueue, Received, indexerVars, controlVars
  <2>4. CASE OnScanFinished
    BY <2>1, <2>4 DEF OnScanFinished, Received
  <2> QED BY <2>2, <2>3, <2>4 DEF Deliver
<1>2. /\ Head(events) = events[1] /\ Len(events) >= 1 /\ Len(events) \in Nat
      /\ Len(events') = Len(events) - 1
      /\ DOMAIN events = 1 .. Len(events) /\ DOMAIN events' = 1 .. Len(events) - 1
      /\ \A i \in 1 .. Len(events) - 1 : events'[i] = events[i + 1]
  BY <1>1
<1> DEFINE n == Len(events)
<1> HIDE DEF n
<1>3. \A i \in DOMAIN events' : i + 1 \in DOMAIN events /\ events'[i] = events[i + 1]
  BY <1>2
<1>4. \A i \in DOMAIN events : i # 1 => i - 1 \in DOMAIN events' /\ events'[i - 1] = events[i]
  BY <1>2
<1>5. 1 \in DOMAIN events /\ \A i \in DOMAIN events : i \in Nat
  BY <1>2
<1>5a. \A i \in DOMAIN events' : i \in Nat
  BY <1>2
<1>6. counts.control = 0 => \A i \in DOMAIN events' : events'[i].kind # "state"
  BY <1>3 DEF ServeInv
<1>7. CASE OnStateChanged \/ OnRemoveFromQueue
  <2>1. UNCHANGED <<folderQueue, running, begun, state>> /\ events[1].kind # "finished"
    BY <1>2, <1>7 DEF OnStateChanged, OnRemoveFromQueue, Received, indexerVars
  <2>2. FinishedLast'
    BY <1>2, <1>3, <2>1 DEF ServeInv, FinishedLast
  <2>3. FinishedToCome' <=> FinishedToCome
    BY <1>3, <1>4, <2>1 DEF FinishedToCome
  <2>4. NothingForgotten' /\ StateFits'
    BY <1>1, <2>1, <2>3 DEF ServeInv, NothingForgotten, StateFits, FinishedToCome
  <2>5. ASSUME Announced PROVE Announced'
    <3>1. shownState' = IF events[1].kind = "state" THEN events[1].state ELSE shownState
      BY <1>2, <1>7 DEF OnStateChanged, OnRemoveFromQueue, Received, controlVars
    <3>2. ASSUME NEW i \in DOMAIN events', events'[i].kind = "state",
                 \A j \in DOMAIN events' : j > i => events'[j].kind # "state"
          PROVE  events'[i].state = state
      <4>1. i + 1 \in DOMAIN events /\ events'[i] = events[i + 1] /\ i \in Nat
        BY <1>3, <1>5a
      <4>2. ASSUME NEW j \in DOMAIN events, j > i + 1 PROVE events[j].kind # "state"
        <5>1. j - 1 \in DOMAIN events' /\ events'[j - 1] = events[j] /\ j - 1 > i
          BY <1>4, <1>5, <4>1, <4>2
        <5> QED BY <3>2, <5>1
      <4> QED BY <2>5, <3>2, <4>1, <4>2 DEF Announced
    <3>3. ASSUME \A i \in DOMAIN events' : events'[i].kind # "state"
          PROVE  shownState' = state
      <4>1. \A j \in DOMAIN events : j # 1 => events[j].kind # "state"
        BY <1>4, <3>3
      <4>2. CASE events[1].kind = "state"
        <5>1. \A j \in DOMAIN events : j > 1 => events[j].kind # "state"
          BY <1>5, <4>1
        <5> QED BY <1>5, <2>5, <3>1, <4>2, <5>1 DEF Announced
      <4>3. CASE events[1].kind # "state"
        <5>1. \A j \in DOMAIN events : events[j].kind # "state"
          BY <4>1, <4>3
        <5> QED BY <2>5, <3>1, <4>3, <5>1 DEF Announced
      <4> QED BY <4>2, <4>3
    <3> QED BY <2>1, <3>2, <3>3 DEF Announced
  <2> QED BY <1>1, <1>6, <2>1, <2>2, <2>4, <2>5 DEF ServeInv, CountsTyped
<1>8. CASE OnScanFinished
  <2>1. events[1].kind = "finished"
    BY <1>2, <1>8 DEF OnScanFinished, Received
  <2>2. Len(events) = 1 /\ ~running
    BY <1>5, <2>1 DEF ServeInv, FinishedLast
  <2>3. DOMAIN events' = {}
    BY <1>2, <2>2
  <2>4. \A i \in DOMAIN events : events[i].kind = "finished"
    BY <1>2, <2>1, <2>2
  <2>5. FinishedToCome /\ ~FinishedToCome'
    BY <1>5, <2>1, <2>3 DEF FinishedToCome
  <2>6. state = IF result THEN "Active" ELSE "Error"
    BY <2>2, <2>5 DEF ServeInv, StateFits
  <2>7. counts.control <= 1 /\ control => shownState = state
    BY <2>4 DEF ServeInv, Announced
  <2>8. CASE folderQueue # <<>>
    <3>1. running' = TRUE /\ begun' = FALSE /\ UNCHANGED <<state, shownState>>
      BY <1>8, <2>8 DEF OnScanFinished
    <3> QED BY <1>1, <2>3, <2>7, <3>1
          DEF ServeInv, CountsTyped, FinishedLast, NothingForgotten, StateFits, Announced
  <2>9. CASE folderQueue = <<>>
    <3>1. /\ folderQueue' = <<>> /\ running' = running /\ begun' = begun
          /\ state' = IF result THEN "Idle" ELSE state
          /\ shownState' = IF control /\ (IF result THEN "Idle" ELSE state) = "Idle"
                           THEN "Idle" ELSE shownState
      BY <1>8, <2>9 DEF OnScanFinished, StateAfter
    <3>2. ~begun
      BY <2>2 DEF TypeInv
    <3>3. counts.control <= 1 /\ control => shownState' = state'
      BY <2>6, <2>7, <3>1
    <3>4. StateFits' /\ NothingForgotten' /\ FinishedLast'
      BY <1>1, <2>3, <2>5, <2>6, <3>1 DEF StateFits, NothingForgotten, FinishedLast
    <3> QED BY <1>1, <2>3, <3>1, <3>2, <3>3, <3>4 DEF ServeInv, CountsTyped, Announced
  <2> QED BY <2>8, <2>9
<1> QED BY <1>7, <1>8 DEF Deliver

LEMMA ServeControl ==
    ASSUME TypeInv, ServeInv, ConnectControl \/ DisconnectControl
    PROVE  ServeInv'
<1>1. UNCHANGED <<folderQueue, running, begun, state, result, events>>
  BY DEF ConnectControl, DisconnectControl, indexerVars
<1>2. FinishedLast' /\ NothingForgotten' /\ StateFits'
  BY <1>1 DEF ServeInv, FinishedLast, NothingForgotten, StateFits, FinishedToCome
<1>3. CASE ConnectControl
  <2>1. /\ counts' = [counts EXCEPT !.control = counts.control + 1]
        /\ control' = TRUE /\ shownState' = state
    BY <1>3 DEF ConnectControl
  <2>2. CountsTyped' /\ counts'.control = counts.control + 1 /\ counts.control \in Nat
    BY <2>1 DEF ServeInv, CountsTyped
  <2>3. counts'.control <= 1 => Announced'
    BY <1>1, <2>1, <2>2 DEF ServeInv, Announced
  <2> QED BY <1>1, <1>2, <2>2, <2>3 DEF ServeInv
<1>4. CASE DisconnectControl
  BY <1>1, <1>2, <1>4 DEF ServeInv, DisconnectControl, CountsTyped
<1> QED BY <1>3, <1>4

LEMMA ServeFrame ==
    ASSUME ServeInv, CountsTyped', counts'.control = counts.control,
           UNCHANGED <<folderQueue, begun, running, result, state, events, controlVars>>
    PROVE  ServeInv'
<1>1. FinishedLast' /\ NothingForgotten' /\ StateFits'
  BY DEF ServeInv, FinishedLast, NothingForgotten, StateFits, FinishedToCome
<1>2. Announced => Announced'
  BY DEF Announced, controlVars
<1> QED BY <1>1, <1>2 DEF ServeInv, controlVars

LEMMA ServeKept == TypeInv /\ ServeInv /\ [Next]_vars => ServeInv'
<1> SUFFICES ASSUME TypeInv, ServeInv, [Next]_vars PROVE ServeInv'
  OBVIOUS
<1>1. ASSUME UNCHANGED <<folderQueue, begun, running, result, state, events, controlVars,
                         counts>>
      PROVE  ServeInv'
  BY <1>1, ServeFrame DEF ServeInv, CountsTyped
<1>2. ASSUME NEW f \in Folders, ChangeDisk(f) PROVE ServeInv'
  <2>1. counts' = [counts EXCEPT !.changes = counts.changes + 1]
        /\ UNCHANGED <<indexerVars, events, controlVars>>
    BY <1>2 DEF ChangeDisk
  <2>2. CountsTyped' /\ counts'.control = counts.control
    BY <2>1 DEF ServeInv, CountsTyped
  <2> QED BY <2>1, <2>2, ServeFrame DEF indexerVars
<1>3. ASSUME NEW t \in Track, UserRemoves(t) PROVE ServeInv'
  <2>1. counts' = [counts EXCEPT !.edits = counts.edits + 1]
        /\ UNCHANGED <<indexerVars, events, controlVars>>
    BY <1>3 DEF UserRemoves
  <2>2. CountsTyped' /\ counts'.control = counts.control
    BY <2>1 DEF ServeInv, CountsTyped
  <2> QED BY <2>1, <2>2, ServeFrame DEF indexerVars
<1>4. ASSUME NEW m \in Models, AttachModel(m) PROVE ServeInv'
  <2>1. counts' = [counts EXCEPT !.models = counts.models + 1]
        /\ UNCHANGED <<indexerVars, events, controlVars>>
    BY <1>4 DEF AttachModel
  <2>2. CountsTyped' /\ counts'.control = counts.control
    BY <2>1 DEF ServeInv, CountsTyped
  <2> QED BY <2>1, <2>2, ServeFrame DEF indexerVars
<1>5. ASSUME NEW m \in Models, DetachModel(m) PROVE ServeInv'
  BY <1>1, <1>5 DEF DetachModel, indexerVars
<1>6. CASE InsertFile \/ PlayerRemoves \/ UNCHANGED vars
  BY <1>1, <1>6 DEF InsertFile, PlayerRemoves, vars, indexerVars
<1> QED BY <1>2, <1>3, <1>4, <1>5, <1>6, ServeQueued, ServeBegin, ServeEnd, ServeDeliver,
           ServeControl DEF Next, Work

(* No operation is forgotten, however calls, the worker and its signals      *)
(* interleave, for any folders and queues.                                   *)
THEOREM NoScanForgotten == Spec => []NothingForgotten
<1>1. ServeInv => NothingForgotten
  BY DEF ServeInv
<1> QED BY <1>1, InitTyped, NextTyped, ServeInit, ServeKept, PTL DEF Spec

(* And once all is quiet the control, on its first connection, shows the     *)
(* indexer's state, which is that of the last scan's result.                 *)
THEOREM IndexerServesAlways == Spec => [](counts.control <= 1 => IndexerServes)
<1>1. ASSUME TypeInv, ServeInv, counts.control <= 1 PROVE IndexerServes
  <2>1. ASSUME Settled, control
        PROVE  shownState = state /\ state = IF result THEN "Idle" ELSE "Error"
    <3>1. ~running /\ events = <<>>
      BY <2>1 DEF Settled
    <3>2. ~FinishedToCome /\ Announced
      BY <1>1, <2>1, <3>1 DEF FinishedToCome, ServeInv
    <3>3. shownState = state
      BY <3>1, <3>2 DEF Announced
    <3> QED BY <1>1, <3>1, <3>2, <3>3 DEF ServeInv, StateFits
  <2> QED BY <1>1, <2>1 DEF IndexerServes, StateShown, ServeInv
<1>2. TypeInv /\ ServeInv => (counts.control <= 1 => IndexerServes)
  BY <1>1
<1> QED BY <1>2, InitTyped, NextTyped, ServeInit, ServeKept, PTL DEF Spec

------------------------------------------------------------------------------
(* The play queue.  A row is taken out by index: while the index of one is   *)
(* on its way, the tracks that stay are numbered with a gap there.           *)
Removal(p) == p \in DOMAIN events /\ events[p].kind = "removeFromQueue"

NoGap ==
    /\ DOMAIN queue = wanted
    /\ {queue[t] : t \in wanted} = 0 .. Cardinality(wanted) - 1

GapAt(i) ==
    /\ {t \in DOMAIN queue : queue[t] # i} = wanted
    /\ i \in 0 .. Cardinality(wanted)
    /\ {queue[t] : t \in wanted} = (0 .. Cardinality(wanted)) \ {i}

RowsAgree ==
    /\ \A t, u \in DOMAIN queue : queue[t] = queue[u] => t = u
    /\ begun /\ scan.op # "Add" => pending \cap wanted = {}
    /\ playerJobs = <<>> /\ (\A p \in Nat : ~Removal(p)) => NoGap
    /\ \A p \in Nat : Removal(p) =>
        /\ playerJobs = <<>> /\ GapAt(events[p].index)
        /\ \A q \in Nat : Removal(q) => q = p
    /\ playerJobs # <<>> =>
        /\ Len(playerJobs) = 1 /\ GapAt(playerJobs[1])
        /\ \A p \in Nat : ~Removal(p)

QueueInv == off \subseteq {"unseen", "dangling"} => RowsAgree

LEMMA OutstandingRows ==
    ASSUME TypeInv
    PROVE  Outstanding <=> playerJobs # <<>> \/ \E p \in Nat : Removal(p)
<1>1. \A p \in DOMAIN events : p \in Nat
  BY DEF TypeInv, TypeOK
<1> QED BY <1>1 DEF Outstanding, Removal

LEMMA WantedRows ==
    ASSUME TypeInv, RowsAgree
    PROVE  wanted \subseteq DOMAIN queue /\ IsFiniteSet(wanted) /\ Cardinality(wanted) \in Nat
<1>1. wanted \in SUBSET (DOMAIN queue)
  BY DEF RowsAgree, NoGap, GapAt
<1> QED BY <1>1, FS_Subset, FS_CardinalityType DEF TypeInv

LEMMA QueueInit == Init => QueueInv
<1> SUFFICES ASSUME Init PROVE RowsAgree
  BY DEF QueueInv
<1>1. PICK s \in InitialQueues :
        queue = [t \in ToSet(s) |-> (CHOOSE i \in DOMAIN s : s[i] = t) - 1]
  BY DEF Init
<1>2. s \in Seq(Track) /\ IsInjective(s)
  BY DevicesAssumption
<1>3. Len(s) \in Nat /\ DOMAIN s = 1 .. Len(s)
  BY <1>2
<1>4. \A i, j \in DOMAIN s : s[i] = s[j] => i = j
  BY <1>2 DEF IsInjective
<1>5. DOMAIN queue = ToSet(s) /\ wanted = ToSet(s)
  BY <1>1 DEF Init
<1>6. ASSUME NEW i \in DOMAIN s PROVE s[i] \in ToSet(s) /\ queue[s[i]] = i - 1
  <2>1. s[i] \in ToSet(s)
    BY DEF ToSet
  <2>2. (CHOOSE j \in DOMAIN s : s[j] = s[i]) = i
    BY <1>4
  <2> QED BY <1>1, <2>1, <2>2
<1>7. \A t \in ToSet(s) : \E i \in DOMAIN s : s[i] = t
  BY DEF ToSet
<1>8. \A t, u \in DOMAIN queue : queue[t] = queue[u] => t = u
  <2> SUFFICES ASSUME NEW t \in ToSet(s), NEW u \in ToSet(s), queue[t] = queue[u] PROVE t = u
    BY <1>5
  <2>1. PICK i \in DOMAIN s : s[i] = t
    BY <1>7
  <2>2. PICK j \in DOMAIN s : s[j] = u
    BY <1>7
  <2>3. i - 1 = j - 1
    BY <1>6, <2>1, <2>2
  <2>4. i \in Nat /\ j \in Nat
    BY <1>3
  <2> QED BY <2>1, <2>2, <2>3, <2>4
<1>9. Cardinality(ToSet(s)) = Len(s)
  <2>1. Lists(s, ToSet(s))
    BY <1>2, <1>4 DEF Lists, ToSet
  <2> QED BY <1>2, <2>1, ListsAll
<1>10. {queue[t] : t \in wanted} = 0 .. Cardinality(wanted) - 1
  <2>1. ASSUME NEW t \in ToSet(s) PROVE queue[t] \in 0 .. Len(s) - 1
    <3>1. PICK i \in DOMAIN s : s[i] = t
      BY <1>7
    <3> QED BY <1>3, <1>6, <3>1
  <2>2. ASSUME NEW v \in 0 .. Len(s) - 1 PROVE \E t \in ToSet(s) : queue[t] = v
    <3>1. v + 1 \in DOMAIN s /\ (v + 1) - 1 = v
      BY <1>3
    <3> QED BY <1>6, <3>1
  <2> QED BY <1>5, <1>9, <2>1, <2>2
<1> QED BY <1>5, <1>8, <1>10 DEF Init, RowsAgree, NoGap, Removal

(* As long as the rows on their way stay the same, rows that were meant to   *)
(* go may be deleted in the database early.                                  *)
LEMMA QueueFrame ==
    ASSUME TypeInv, QueueInv, NEW d \in Nat,
           UNCHANGED <<playerJobs, wanted>>, off \subseteq off',
           \A p \in Nat : Removal(p)' => Removal(p + d) /\ events'[p].index = events[p + d].index,
           \A p \in Nat : Removal(p) => p - d \in Nat /\ Removal(p - d)',
           begun' /\ scan'.op # "Add" => begun /\ scan.op # "Add" /\ pending' = pending,
           DOMAIN queue' \subseteq DOMAIN queue, \A t \in DOMAIN queue' : queue'[t] = queue[t],
           off \subseteq {"unseen", "dangling"} => DOMAIN queue \cap wanted \subseteq DOMAIN queue'
    PROVE  QueueInv'
<1> SUFFICES ASSUME off' \subseteq {"unseen", "dangling"} PROVE RowsAgree'
  BY DEF QueueInv
<1>1. RowsAgree /\ wanted \subseteq DOMAIN queue /\ wanted \subseteq DOMAIN queue'
  <2>1. RowsAgree
    BY DEF QueueInv
  <2> QED BY <2>1, WantedRows
<1>2. {queue'[t] : t \in wanted} = {queue[t] : t \in wanted}
  BY <1>1
<1>3. NoGap => NoGap'
  BY <1>1, <1>2 DEF NoGap
<1>4. ASSUME NEW i, GapAt(i) PROVE GapAt(i)'
  <2>1. {t \in DOMAIN queue' : queue'[t] # i} = wanted
    BY <1>1, <1>4 DEF GapAt
  <2> QED BY <1>2, <1>4, <2>1 DEF GapAt
<1>5. \A t, u \in DOMAIN queue' : queue'[t] = queue'[u] => t = u
  BY <1>1 DEF RowsAgree
<1>6. begun' /\ scan'.op # "Add" => pending' \cap wanted' = {}
  BY <1>1 DEF RowsAgree
<1>7. ASSUME playerJobs = <<>>, \A p \in Nat : ~Removal(p)' PROVE NoGap'
  <2>1. \A p \in Nat : ~Removal(p)
    BY <1>7
  <2> QED BY <1>1, <1>3, <1>7, <2>1 DEF RowsAgree
<1>8. ASSUME NEW p \in Nat, Removal(p)'
      PROVE  /\ playerJobs = <<>> /\ GapAt(events[p].index)'
             /\ \A q \in Nat : Removal(q)' => q = p
  <2>1. p + d \in Nat /\ Removal(p + d) /\ events'[p].index = events[p + d].index
    BY <1>8
  <2>2. /\ playerJobs = <<>> /\ GapAt(events[p + d].index)
        /\ \A q \in Nat : Removal(q) => q = p + d
    BY <1>1, <2>1 DEF RowsAgree
  <2>3. GapAt(events[p].index)'
    <3>1. PICK i : i = events'[p].index
      OBVIOUS
    <3>2. GapAt(i)
      BY <2>1, <2>2, <3>1
    <3>3. GapAt(i)'
      BY <1>4, <3>2
    <3> QED BY <3>1, <3>3 DEF GapAt
  <2>4. ASSUME NEW q \in Nat, Removal(q)' PROVE q = p
    <3>1. q + d \in Nat /\ Removal(q + d)
      BY <2>4
    <3>2. q + d = p + d
      BY <2>2, <3>1
    <3> QED BY <3>2
  <2> QED BY <2>2, <2>3, <2>4
<1>9. ASSUME playerJobs # <<>>
      PROVE  Len(playerJobs) = 1 /\ GapAt(playerJobs[1])' /\ \A p \in Nat : ~Removal(p)'
  <2>1. Len(playerJobs) = 1 /\ GapAt(playerJobs[1]) /\ \A p \in Nat : ~Removal(p)
    BY <1>1, <1>9 DEF RowsAgree
  <2>2. \A p \in Nat : ~Removal(p)'
    BY <2>1
  <2> QED BY <1>4, <2>1, <2>2
<1> QED BY <1>5, <1>6, <1>7, <1>8, <1>9 DEF RowsAgree

\* The worker's operations and signals are not the rows it has others remove.
LEMMA QueueScanNext ==
    ASSUME TypeInv, ServeInv, QueueInv, NEW queued \in Seq(Scan), ScanNext(queued),
           UNCHANGED <<queue, playerJobs, wanted>>, off \subseteq off'
    PROVE  QueueInv'
<1>1. UNCHANGED <<queue, playerJobs, wanted>> /\ off \subseteq off'
  OBVIOUS
<1>2. begun' /\ scan'.op # "Add" => begun /\ scan.op # "Add" /\ pending' = pending
  BY DEF ScanNext
<1>3. \A p \in Nat : /\ Removal(p)' <=> Removal(p)
                     /\ Removal(p)' => events'[p].index = events[p].index
  <2>1. CASE running \/ queued = <<>>
    BY <2>1 DEF ScanNext, Removal
  <2>2. CASE ~(running \/ queued = <<>>)
    <3>1. events' = Forgotten
      BY <2>2 DEF ScanNext
    <3>2. /\ Forgotten \in Seq(Event)
          /\ Len(Forgotten) = IF FinishedToCome THEN Len(events) - 1 ELSE Len(events)
          /\ \A n \in 1 .. Len(Forgotten) :
                Forgotten[n] = events[n] /\ events[n].kind # "finished"
      BY ForgottenEvents DEF ServeInv
    <3>3. /\ DOMAIN events = 1 .. Len(events) /\ Len(events) \in Nat
          /\ DOMAIN events' = 1 .. Len(Forgotten) /\ Len(Forgotten) \in Nat
      BY <3>1, <3>2 DEF TypeInv, TypeOK
    <3>4. FinishedToCome => events[Len(events)].kind = "finished"
      BY DEF FinishedToCome, ServeInv, FinishedLast
    <3>5. ASSUME NEW p \in DOMAIN events, events[p].kind = "removeFromQueue"
          PROVE  p \in DOMAIN events'
      <4>1. CASE FinishedToCome
        <5>1. p # Len(events) /\ Len(Forgotten) = Len(events) - 1
          BY <3>2, <3>4, <3>5, <4>1
        <5> QED BY <3>3, <5>1
      <4>2. CASE ~FinishedToCome
        <5>1. Len(Forgotten) = Len(events)
          BY <3>2, <4>2
        <5> QED BY <3>3, <5>1
      <4> QED BY <4>1, <4>2
    <3>6. Len(Forgotten) <= Len(events)
      <4>1. CASE FinishedToCome
        <5>1. Len(Forgotten) = Len(events) - 1
          BY <3>2, <4>1
        <5> QED BY <3>3, <5>1
      <4>2. CASE ~FinishedToCome
        <5>1. Len(Forgotten) = Len(events)
          BY <3>2, <4>2
        <5> QED BY <3>3, <5>1
      <4> QED BY <4>1, <4>2
    <3>7. ASSUME NEW p \in DOMAIN events' PROVE p \in DOMAIN events /\ events'[p] = events[p]
      <4>1. p \in 1 .. Len(Forgotten) /\ p \in 1 .. Len(events)
        BY <3>3, <3>6
      <4>2. Forgotten[p] = events[p]
        BY <3>2, <4>1
      <4> QED BY <3>1, <3>3, <4>1, <4>2
    <3> QED BY <3>5, <3>7 DEF Removal
  <2> QED BY <2>1, <2>2
<1>4. \A p \in Nat : p + 0 = p /\ p - 0 = p /\ p - 0 \in Nat
  OBVIOUS
<1>5. \A p \in Nat : Removal(p)' => Removal(p + 0) /\ events'[p].index = events[p + 0].index
  BY <1>3, <1>4
<1>6. \A p \in Nat : Removal(p) => p - 0 \in Nat /\ Removal(p - 0)'
  BY <1>3, <1>4
<1> QED BY <1>1, <1>2, <1>5, <1>6, QueueFrame

\* The rows a scan has found are asked for behind what there is.
LEMMA BeginRemovals ==
    ASSUME TypeInv, BeginScan
    PROVE  \E order \in [1 .. Cardinality(Queued) -> Queued], b \in Nat, n \in Nat :
            /\ n = IF wired THEN Cardinality(Queued) ELSE 0
            /\ \A p \in Nat : Removal(p)' <=> Removal(p) \/ p \in b + 1 .. b + n
            /\ \A p \in Nat : Removal(p) => events'[p] = events[p] /\ p <= b
            /\ \A k \in 1 .. n : k \in 1 .. Cardinality(Queued)
                                    /\ events'[b + k].index = queue[order[k]]
<1>1. PICK order \in SetToSeqs(Queued) :
            /\ events' = (events \o StateEvent("Active")) \o RowEvents(order)
            /\ events \o StateEvent("Active") \in Seq(Event)
            /\ events' \in Seq(Event)
  BY BeginEvents
<1> DEFINE u == events \o StateEvent("Active")
           r == RowEvents(order)
           b == Len(u)
           n == IF wired THEN Cardinality(Queued) ELSE 0
<1>2. /\ events \in Seq(Event) /\ StateEvent("Active") \in Seq(Event)
      /\ Len(StateEvent("Active")) \in {0, 1}
      /\ \A i \in 1 .. Len(StateEvent("Active")) : StateEvent("Active")[i].kind = "state"
  <2> DEFINE posted == StateEvent("Active")
  <2>1. /\ posted \in Seq(Event) /\ Len(posted) = IF control THEN 1 ELSE 0
        /\ control => posted[1] = [kind |-> "state", state |-> "Active"]
    BY StateEventTyped
  <2> HIDE DEF posted
  <2>2. ASSUME NEW i \in 1 .. Len(posted) PROVE posted[i].kind = "state"
    <3>1. CASE control
      <4>1. Len(posted) = 1 /\ posted[1].kind = "state"
        BY <2>1, <3>1
      <4>2. i = 1
        BY <4>1
      <4> QED BY <4>1, <4>2
    <3>2. CASE ~control
      <4>1. Len(posted) = 0
        BY <2>1, <3>2
      <4> QED BY <4>1
    <3> QED BY <3>1, <3>2
  <2>3. events \in Seq(Event)
    BY DEF TypeInv, TypeOK
  <2>4. Len(posted) \in {0, 1}
    BY <2>1
  <2> QED BY <2>1, <2>2, <2>3, <2>4 DEF posted
<1>3. /\ u \in Seq(Event) /\ Len(u) = Len(events) + Len(StateEvent("Active"))
      /\ \A i \in 1 .. Len(events) : u[i] = events[i]
      /\ \A i \in 1 .. Len(u) :
            \/ i \in 1 .. Len(events) /\ u[i] = events[i]
            \/ /\ i - Len(events) \in 1 .. Len(StateEvent("Active"))
               /\ u[i] = StateEvent("Active")[i - Len(events)]
  BY <1>2, Joined
<1>4. /\ r \in Seq(Event) /\ order \in [1 .. Cardinality(Queued) -> Queued]
      /\ Len(r) = n
      /\ \A i \in 1 .. n :
            /\ i \in 1 .. Cardinality(Queued)
            /\ r[i] = [kind |-> "removeFromQueue", index |-> queue[order[i]]]
  BY RowEventsTyped
<1>5. events' = u \o r
  BY <1>1
<1> HIDE DEF u, r, n
<1>6. /\ Len(u \o r) = b + n
      /\ \A i \in 1 .. b : (u \o r)[i] = u[i]
      /\ \A i \in 1 .. n : (u \o r)[b + i] = r[i]
      /\ DOMAIN (u \o r) = 1 .. b + n
  <2>1. /\ u \o r \in Seq(Event) /\ Len(u \o r) = Len(u) + Len(r)
        /\ \A i \in 1 .. Len(u) : (u \o r)[i] = u[i]
        /\ \A i \in 1 .. Len(r) : (u \o r)[Len(u) + i] = r[i]
    <3>1. u \in Seq(Event) /\ r \in Seq(Event)
      BY <1>3, <1>4
    <3> QED BY <3>1, Joined
  <2> QED BY <1>4, <2>1
<1>7. /\ b \in Nat /\ n \in Nat /\ Len(events) \in Nat /\ DOMAIN events = 1 .. Len(events)
      /\ Len(events) <= b /\ DOMAIN events' = 1 .. b + n
  <2>1. b \in Nat /\ n \in Nat /\ Len(events) \in Nat /\ DOMAIN events = 1 .. Len(events)
    BY <1>2, <1>3, <1>4
  <2>2. DOMAIN events' = 1 .. b + n
    BY <1>5, <1>6
  <2> QED BY <1>2, <1>3, <2>1, <2>2
<1>8. \A k \in 1 .. n : /\ k \in 1 .. Cardinality(Queued)
                        /\ events'[b + k].kind = "removeFromQueue"
                        /\ events'[b + k].index = queue[order[k]]
  <2> TAKE k \in 1 .. n
  <2>1. k \in 1 .. Cardinality(Queued)
        /\ events'[b + k] = [kind |-> "removeFromQueue", index |-> queue[order[k]]]
    BY <1>4, <1>5, <1>6
  <2> QED BY <2>1
<1>9. \A i \in 1 .. Len(events) : i \in 1 .. b /\ events'[i] = events[i]
  BY <1>3, <1>5, <1>6, <1>7
<1>10. ASSUME NEW i \in 1 .. b, i \notin 1 .. Len(events) PROVE events'[i].kind = "state"
  <2>1. /\ i - Len(events) \in 1 .. Len(StateEvent("Active"))
        /\ u[i] = StateEvent("Active")[i - Len(events)]
    BY <1>3, <1>10
  <2>2. events'[i] = u[i]
    BY <1>5, <1>6
  <2> QED BY <1>2, <2>1, <2>2
<1>11. ASSUME NEW p \in Nat
       PROVE  Removal(p)' <=> Removal(p) \/ p \in b + 1 .. b + n
  <2>1. CASE p \in 1 .. Len(events)
    <3>1. events'[p] = events[p] /\ p \in DOMAIN events /\ p \in DOMAIN events'
          /\ p \notin b + 1 .. b + n
      BY <1>7, <1>9, <2>1
    <3> QED BY <3>1 DEF Removal
  <2>2. CASE p \in 1 .. b /\ p \notin 1 .. Len(events)
    <3>1. events'[p].kind = "state" /\ p \notin DOMAIN events /\ p \notin b + 1 .. b + n
      BY <1>7, <1>10, <2>2
    <3> QED BY <3>1 DEF Removal
  <2>3. CASE p \in b + 1 .. b + n
    <3>1. p - b \in 1 .. n /\ b + (p - b) = p /\ p \in DOMAIN events'
      BY <1>7, <2>3
    <3>2. events'[p].kind = "removeFromQueue"
      BY <1>8, <3>1
    <3> QED BY <2>3, <3>1, <3>2 DEF Removal
  <2>4. CASE p \notin 1 .. b + n
    <3>1. p \notin DOMAIN events /\ p \notin DOMAIN events' /\ p \notin b + 1 .. b + n
      BY <1>7, <2>4
    <3> QED BY <3>1 DEF Removal
  <2>5. \/ p \in 1 .. Len(events)
        \/ p \in 1 .. b /\ p \notin 1 .. Len(events)
        \/ p \in b + 1 .. b + n
        \/ p \notin 1 .. b + n
    BY <1>7
  <2> QED BY <2>1, <2>2, <2>3, <2>4, <2>5
<1>12. \A p \in Nat : Removal(p) => events'[p] = events[p] /\ p <= b
  BY <1>7, <1>9 DEF Removal
<1> HIDE DEF b
<1>13. n = IF wired THEN Cardinality(Queued) ELSE 0
  BY DEF n
<1> QED BY <1>4, <1>7, <1>8, <1>11, <1>12, <1>13

LEMMA QueueBegin ==
    ASSUME TypeInv, QueueInv, BeginScan
    PROVE  QueueInv'
<1>1. PICK order \in [1 .. Cardinality(Queued) -> Queued], b \in Nat, n \in Nat :
            /\ n = IF wired THEN Cardinality(Queued) ELSE 0
            /\ \A p \in Nat : Removal(p)' <=> Removal(p) \/ p \in b + 1 .. b + n
            /\ \A p \in Nat : Removal(p) => events'[p] = events[p] /\ p <= b
            /\ \A k \in 1 .. n : k \in 1 .. Cardinality(Queued)
                                    /\ events'[b + k].index = queue[order[k]]
  BY BeginRemovals
<1>2. /\ pending' = Found /\ scan' = scan /\ UNCHANGED <<queue, playerJobs>>
      /\ wanted' = wanted \ Queued
      /\ off' = off \cup (IF Queued # {} /\ ~wired THEN {"unheard"} ELSE {})
                    \cup (IF Cardinality(Queued) > 1 THEN {"several"} ELSE {})
                    \cup (IF Queued # {} /\ Outstanding THEN {"stale"} ELSE {})
  BY DEF BeginScan, Queued
<1>3. /\ IsFiniteSet(Queued) /\ Cardinality(Queued) \in Nat
      /\ Queued \in SUBSET (DOMAIN queue)
  BY QueuedFinite
<1> SUFFICES ASSUME off' \subseteq {"unseen", "dangling"} PROVE RowsAgree'
  BY DEF QueueInv
<1>4. /\ off \subseteq {"unseen", "dangling"}
      /\ Queued # {} => wired /\ ~Outstanding
      /\ ~(Cardinality(Queued) > 1)
  BY <1>2
<1>5. RowsAgree /\ wanted \subseteq DOMAIN queue
  <2>1. RowsAgree
    BY <1>4 DEF QueueInv
  <2> QED BY <2>1, WantedRows
<1>6. \A t, u \in DOMAIN queue' : queue'[t] = queue'[u] => t = u
  BY <1>2, <1>5 DEF RowsAgree
<1>7. begun' /\ scan'.op # "Add" => pending' \cap wanted' = {}
  BY <1>2, <1>5 DEF Queued
<1>8. CASE Queued = {}
  <2>1. Cardinality(Queued) = 0
    BY <1>8, FS_EmptySet
  <2>2. n = 0
    BY <1>1, <2>1
  <2>3. \A p \in Nat : Removal(p)' <=> Removal(p)
    BY <1>1, <2>2
  <2>4. wanted' = wanted
    BY <1>2, <1>8
  <2>5. NoGap' <=> NoGap
    BY <1>2, <2>4 DEF NoGap
  <2>6. ASSUME NEW i, GapAt(i) PROVE GapAt(i)'
    <3>1. queue' = queue
      BY <1>2
    <3> QED BY <2>4, <2>6, <3>1 DEF GapAt
  <2>7. ASSUME NEW p \in Nat, Removal(p)'
        PROVE  /\ playerJobs = <<>> /\ GapAt(events[p].index)'
               /\ \A q \in Nat : Removal(q)' => q = p
    <3>1. /\ Removal(p) /\ playerJobs = <<>> /\ GapAt(events[p].index)
          /\ \A q \in Nat : Removal(q) => q = p
      BY <1>5, <2>3, <2>7 DEF RowsAgree
    <3>2. events'[p] = events[p]
      BY <1>1, <3>1
    <3>3. PICK i : i = events[p].index
      OBVIOUS
    <3>4. GapAt(i)'
      BY <2>6, <3>1, <3>3
    <3>5. GapAt(events[p].index)'
      BY <3>2, <3>3, <3>4 DEF GapAt
    <3> QED BY <2>3, <3>1, <3>5
  <2>8. playerJobs # <<>> =>
            /\ Len(playerJobs) = 1 /\ GapAt(playerJobs[1])'
            /\ \A p \in Nat : ~Removal(p)'
    BY <1>2, <1>5, <2>3, <2>6 DEF RowsAgree
  <2>9. playerJobs = <<>> /\ (\A p \in Nat : ~Removal(p)') => NoGap'
    BY <1>5, <2>3, <2>5 DEF RowsAgree
  <2> QED BY <1>2, <1>6, <1>7, <2>7, <2>8, <2>9 DEF RowsAgree
<1>9. CASE Queued # {}
  <2>1. playerJobs = <<>> /\ (\A p \in Nat : ~Removal(p)) /\ wired
    BY <1>4, <1>9, OutstandingRows
  <2>2. NoGap
    BY <1>5, <2>1 DEF RowsAgree
  <2>3. Cardinality(Queued) = 1
    <3>1. Cardinality(Queued) # 0
      BY <1>3, <1>9, FS_EmptySet
    <3> QED BY <1>3, <1>4, <3>1
  <2>4. PICK t : Queued = {t}
    BY <1>3, <2>3, FS_Singleton
  <2>5. n = 1 /\ order[1] = t
    BY <1>1, <2>1, <2>3, <2>4
  <2>6. \A p \in Nat : Removal(p)' <=> p = b + 1
    BY <1>1, <2>1, <2>5
  <2>7. events'[b + 1].index = queue[t] /\ t \in DOMAIN queue /\ t \in wanted
    <3>1. 1 \in 1 .. n
      BY <2>5
    <3>2. events'[b + 1].index = queue[order[1]]
      BY <1>1, <3>1
    <3> QED BY <1>3, <2>2, <2>4, <2>5, <3>2 DEF NoGap
  <2>8. /\ IsFiniteSet(wanted) /\ Cardinality(wanted) \in Nat
        /\ Cardinality(wanted') = Cardinality(wanted) - 1 /\ wanted' = wanted \ {t}
    BY <1>2, <1>5, <2>4, <2>7, WantedRows, FS_RemoveElement
  <2>9. ASSUME NEW i, i = queue[t] PROVE GapAt(i)'
    <3>1. {u \in DOMAIN queue : queue[u] # i} = wanted'
      BY <1>5, <2>2, <2>7, <2>8, <2>9 DEF RowsAgree, NoGap
    <3>2. i \in 0 .. Cardinality(wanted')
      <4>1. i \in 0 .. Cardinality(wanted) - 1
        BY <2>2, <2>7, <2>9 DEF NoGap
      <4> QED BY <2>8, <4>1
    <3>3. {queue[u] : u \in wanted'} = (0 .. Cardinality(wanted) - 1) \ {i}
      BY <1>5, <2>2, <2>7, <2>8, <2>9 DEF RowsAgree, NoGap
    <3>4. 0 .. Cardinality(wanted) - 1 = 0 .. Cardinality(wanted')
      BY <2>8
    <3> QED BY <1>2, <3>1, <3>2, <3>3, <3>4 DEF GapAt
  <2>10. GapAt(events[b + 1].index)'
    <3>1. PICK i : i = queue[t]
      OBVIOUS
    <3>2. GapAt(i)'
      BY <2>9, <3>1
    <3> QED BY <2>7, <3>1, <3>2 DEF GapAt
  <2>11. ASSUME NEW p \in Nat, Removal(p)'
         PROVE  GapAt(events[p].index)' /\ \A q \in Nat : Removal(q)' => q = p
    <3>1. p = b + 1
      BY <2>6, <2>11
    <3> QED BY <2>6, <2>10, <3>1
  <2>12. b + 1 \in Nat /\ Removal(b + 1)'
    BY <2>6
  <2> QED BY <1>2, <1>6, <1>7, <2>1, <2>11, <2>12 DEF RowsAgree
<1> QED BY <1>8, <1>9

\* A scan that ends takes out rows that were meant to go.
LEMMA QueueEnd ==
    ASSUME TypeInv, ServeInv, QueueInv, DeleteFound \/ AllInserted \/ FailScan
    PROVE  QueueInv'
<1>1. begun /\ begun' = FALSE /\ UNCHANGED <<playerJobs, wanted, off>>
  BY DEF DeleteFound, AllInserted, FailScan, EndScan, playerVars
<1>2. UNCHANGED queue \/ (scan.op # "Add" /\ queue' = RowsLeft(pending))
  BY DEF DeleteFound, AllInserted, FailScan, playerVars
<1>3. /\ DOMAIN queue' \subseteq DOMAIN queue /\ \A t \in DOMAIN queue' : queue'[t] = queue[t]
      /\ off \subseteq {"unseen", "dangling"} => DOMAIN queue \cap wanted \subseteq DOMAIN queue'
  <2>1. off \subseteq {"unseen", "dangling"} /\ scan.op # "Add" => pending \cap wanted = {}
    BY <1>1 DEF QueueInv, RowsAgree
  <2> QED BY <1>2, <2>1 DEF RowsLeft
<1>4. \E posted \in Seq(Event), res \in BOOLEAN :
        /\ EndScan(res, posted)
        /\ \A i \in 1 .. Len(posted) : posted[i].kind = "state"
  <2>1. CASE DeleteFound \/ AllInserted
    <3>1. EndScan(TRUE, <<>>)
      BY <2>1 DEF DeleteFound, AllInserted
    <3>2. <<>> \in Seq(Event) /\ \A i \in 1 .. Len(<<>>) : <<>>[i].kind = "state"
      OBVIOUS
    <3> QED BY <3>1, <3>2
  <2>2. CASE FailScan
    <3> DEFINE posted == StateEvent("Error")
    <3>1. EndScan(FALSE, posted)
      BY <2>2 DEF FailScan
    <3>2. /\ posted \in Seq(Event) /\ Len(posted) = IF control THEN 1 ELSE 0
          /\ control => posted[1] = [kind |-> "state", state |-> "Error"]
      BY StateEventTyped
    <3> HIDE DEF posted
    <3>3. ASSUME NEW i \in 1 .. Len(posted) PROVE posted[i].kind = "state"
      <4>1. CASE control
        <5>1. Len(posted) = 1 /\ posted[1].kind = "state"
          BY <3>2, <4>1
        <5>2. i = 1
          BY <5>1
        <5> QED BY <5>1, <5>2
      <4>2. CASE ~control
        <5>1. Len(posted) = 0
          BY <3>2, <4>2
        <5> QED BY <5>1
      <4> QED BY <4>1, <4>2
    <3> QED BY <3>1, <3>2, <3>3
  <2> QED BY <2>1, <2>2
<1>5. PICK posted \in Seq(Event), res \in BOOLEAN :
        /\ EndScan(res, posted)
        /\ \A i \in 1 .. Len(posted) : posted[i].kind = "state"
  BY <1>4
<1>6. /\ Len(events') = Len(events) + Len(posted) + 1
      /\ \A i \in 1 .. Len(events) : events'[i] = events[i]
      /\ \A i \in 1 .. Len(posted) : events'[Len(events) + i] = posted[i]
      /\ events'[Len(events')] = [kind |-> "finished"]
      /\ DOMAIN events = 1 .. Len(events) /\ DOMAIN events' = 1 .. Len(events')
      /\ Len(events) \in Nat /\ Len(posted) \in Nat
  BY <1>5, EndEvents
<1>7. ASSUME NEW p \in Nat, p \in DOMAIN events', p \notin DOMAIN events
      PROVE  events'[p].kind # "removeFromQueue"
  <2>1. CASE p = Len(events')
    BY <1>6, <2>1
  <2>2. CASE p # Len(events')
    <3>1. p - Len(events) \in 1 .. Len(posted) /\ Len(events) + (p - Len(events)) = p
      <4>1. /\ p \in 1 .. Len(events) + Len(posted) + 1
            /\ p \notin 1 .. Len(events) /\ p # Len(events) + Len(posted) + 1
        BY <1>6, <1>7, <2>2
      <4>2. Len(events) \in Nat /\ Len(posted) \in Nat
        BY <1>6
      <4> QED BY <4>1, <4>2
    <3>2. events'[p] = posted[p - Len(events)]
      BY <1>6, <3>1
    <3>3. events'[p].kind = "state"
      BY <1>5, <3>1, <3>2
    <3> QED BY <3>3
  <2> QED BY <2>1, <2>2
<1>8. \A p \in DOMAIN events : p \in DOMAIN events' /\ events'[p] = events[p]
  BY <1>6
<1>9. \A p \in Nat : p + 0 = p /\ p - 0 = p /\ p - 0 \in Nat
  OBVIOUS
<1>10. \A p \in Nat : Removal(p)' => Removal(p + 0) /\ events'[p].index = events[p + 0].index
  BY <1>7, <1>8, <1>9 DEF Removal
<1>11. \A p \in Nat : Removal(p) => p - 0 \in Nat /\ Removal(p - 0)'
  BY <1>8, <1>9 DEF Removal
<1> QED BY <1>1, <1>3, <1>10, <1>11, QueueFrame

\* The next event is delivered; a row's index goes on to the player's thread.
LEMMA QueueDeliver ==
    ASSUME TypeInv, QueueInv, Deliver
    PROVE  QueueInv'
<1>1. /\ events \in Seq(Event) /\ events # <<>> /\ events' = Tail(events)
      /\ UNCHANGED <<queue, wanted, off>>
  <2>1. events \in Seq(Event)
    BY DEF TypeInv, TypeOK
  <2>2. CASE OnStateChanged
    BY <2>1, <2>2 DEF OnStateChanged, Received, playerVars
  <2>3. CASE OnRemoveFromQueue
    BY <2>1, <2>3 DEF OnRemoveFromQueue, Received
  <2>4. CASE OnScanFinished
    BY <2>1, <2>4 DEF OnScanFinished, Received, playerVars
  <2> QED BY <2>2, <2>3, <2>4 DEF Deliver
<1>2. /\ Head(events) = events[1] /\ Len(events) >= 1 /\ Len(events) \in Nat
      /\ Len(events') = Len(events) - 1
      /\ DOMAIN events = 1 .. Len(events) /\ DOMAIN events' = 1 .. Len(events) - 1
      /\ \A i \in 1 .. Len(events) - 1 : events'[i] = events[i + 1]
  BY <1>1
<1>3. \A p \in Nat : Removal(p)' => Removal(p + 1) /\ events'[p].index = events[p + 1].index
  BY <1>2 DEF Removal
<1>4. ASSUME NEW p \in Nat, Removal(p), p # 1 PROVE p - 1 \in Nat /\ Removal(p - 1)'
  <2>1. p - 1 \in 1 .. Len(events) - 1 /\ (p - 1) + 1 = p
    BY <1>2, <1>4 DEF Removal
  <2> QED BY <1>2, <1>4, <2>1 DEF Removal
<1>5. CASE OnStateChanged \/ OnScanFinished
  <2>1. events[1].kind # "removeFromQueue" /\ UNCHANGED playerJobs
    BY <1>2, <1>5 DEF OnStateChanged, OnScanFinished, Received, playerVars
  <2>2. begun' /\ scan'.op # "Add" => begun /\ scan.op # "Add" /\ pending' = pending
    BY <1>5 DEF OnStateChanged, OnScanFinished, indexerVars
  <2>3. \A p \in Nat : Removal(p) => p - 1 \in Nat /\ Removal(p - 1)'
    BY <1>4, <2>1 DEF Removal
  <2>4. 1 \in Nat
    OBVIOUS
  <2> QED BY <1>1, <1>3, <2>1, <2>2, <2>3, <2>4, QueueFrame
<1>6. CASE OnRemoveFromQueue
  <2> SUFFICES ASSUME off \subseteq {"unseen", "dangling"} PROVE RowsAgree'
    BY <1>1 DEF QueueInv
  <2>1. /\ playerJobs' = Append(playerJobs, events[1].index)
        /\ UNCHANGED <<begun, scan, pending>>
    BY <1>2, <1>6 DEF OnRemoveFromQueue, indexerVars
  <2>2. Removal(1) /\ 1 \in Nat
    BY <1>2, <1>6 DEF OnRemoveFromQueue, Received, Removal
  <2>3. RowsAgree
    BY DEF QueueInv
  <2>4. /\ playerJobs = <<>> /\ GapAt(events[1].index)
        /\ \A q \in Nat : Removal(q) => q = 1
    BY <2>2, <2>3 DEF RowsAgree
  <2>5. \A p \in Nat : ~Removal(p)'
    <3> SUFFICES ASSUME NEW p \in Nat, Removal(p)' PROVE FALSE
      OBVIOUS
    <3>1. Removal(p + 1) /\ p + 1 \in Nat
      BY <1>3
    <3>2. p \in DOMAIN events'
      BY DEF Removal
    <3> QED BY <1>2, <2>4, <3>1, <3>2
  <2>6. playerJobs' = <<events[1].index>>
    BY <2>1, <2>4
  <2>7. playerJobs' # <<>> /\ Len(playerJobs') = 1 /\ playerJobs'[1] = events[1].index
    BY <2>6
  <2>8. GapAt(playerJobs[1])'
    BY <1>1, <2>4, <2>7 DEF GapAt
  <2> QED BY <1>1, <2>1, <2>3, <2>5, <2>7, <2>8 DEF RowsAgree
<1> QED BY <1>5, <1>6 DEF Deliver

\* The player takes the row out and closes the gap.
LEMMA QueuePlayerRemoves ==
    ASSUME TypeInv, QueueInv, PlayerRemoves
    PROVE  QueueInv'
<1> SUFFICES ASSUME off \subseteq {"unseen", "dangling"} PROVE RowsAgree'
  BY DEF QueueInv, PlayerRemoves
<1>1. /\ playerJobs \in Seq(Nat) /\ playerJobs # <<>> /\ playerJobs' = Tail(playerJobs)
      /\ queue' = Removed(Head(playerJobs))
      /\ UNCHANGED <<begun, scan, pending, events, wanted, off>>
  BY DEF PlayerRemoves, indexerVars, TypeInv, TypeOK
<1>2. RowsAgree
  BY DEF QueueInv
<1>3. Len(playerJobs) = 1 /\ GapAt(playerJobs[1]) /\ \A p \in Nat : ~Removal(p)
  BY <1>1, <1>2 DEF RowsAgree
<1> DEFINE i == playerJobs[1]
           n == Cardinality(wanted)
<1>4. playerJobs' = <<>> /\ i \in Nat /\ Head(playerJobs) = i
  BY <1>1, <1>3
<1>5. queue' = [t \in {u \in DOMAIN queue : queue[u] # i} |->
                    IF queue[t] >= i THEN queue[t] - 1 ELSE queue[t]]
  BY <1>1, <1>4 DEF Removed
<1>6. /\ {t \in DOMAIN queue : queue[t] # i} = wanted /\ i \in 0 .. n
      /\ {queue[t] : t \in wanted} = (0 .. n) \ {i}
  BY <1>3 DEF GapAt
<1>7. n \in Nat /\ \A t \in DOMAIN queue : queue[t] \in Nat
  BY <1>2, WantedRows DEF TypeInv, TypeOK
<1> HIDE DEF i, n
<1>8. /\ DOMAIN queue' = wanted
      /\ \A t \in wanted : /\ queue[t] \in Nat /\ queue[t] # i
                           /\ queue'[t] = IF queue[t] >= i THEN queue[t] - 1 ELSE queue[t]
  BY <1>5, <1>6, <1>7
<1>9. \A t, u \in DOMAIN queue' : queue'[t] = queue'[u] => t = u
  <2> SUFFICES ASSUME NEW t \in wanted, NEW u \in wanted, queue'[t] = queue'[u] PROVE t = u
    BY <1>8
  <2>1. queue[t] = queue[u]
    BY <1>4, <1>8
  <2> QED BY <1>2, <1>6, <2>1 DEF RowsAgree
<1>10. {queue'[t] : t \in wanted} = 0 .. n - 1
  <2>1. ASSUME NEW t \in wanted PROVE queue'[t] \in 0 .. n - 1
    <3>1. queue[t] \in 0 .. n /\ queue[t] # i
      BY <1>6, <1>8
    <3> QED BY <1>4, <1>6, <1>7, <1>8, <3>1
  <2>2. ASSUME NEW v \in 0 .. n - 1 PROVE \E t \in wanted : queue'[t] = v
    <3>1. CASE v < i
      <4>1. v \in (0 .. n) \ {i}
        BY <1>4, <1>7, <3>1
      <4>2. PICK t \in wanted : queue[t] = v
        BY <1>6, <4>1
      <4> QED BY <1>4, <1>8, <3>1, <4>2
    <3>2. CASE ~(v < i)
      <4>1. v + 1 \in (0 .. n) \ {i}
        BY <1>4, <1>7, <3>2
      <4>2. PICK t \in wanted : queue[t] = v + 1
        BY <1>6, <4>1
      <4>3. queue'[t] = (v + 1) - 1
        BY <1>4, <1>8, <3>2, <4>2
      <4> QED BY <4>3
    <3> QED BY <3>1, <3>2
  <2> QED BY <2>1, <2>2
<1>11. NoGap'
  BY <1>1, <1>8, <1>10 DEF NoGap, n
<1>12. \A p \in Nat : ~Removal(p)'
  BY <1>1, <1>3 DEF Removal
<1> QED BY <1>1, <1>2, <1>4, <1>9, <1>11, <1>12 DEF RowsAgree

LEMMA QueueUserRemoves ==
    ASSUME TypeInv, QueueInv, NEW t \in Track, UserRemoves(t)
    PROVE  QueueInv'
<1> SUFFICES ASSUME off' \subseteq {"unseen", "dangling"} PROVE RowsAgree'
  BY DEF QueueInv
<1>1. /\ t \in DOMAIN queue /\ playerJobs' = Append(playerJobs, queue[t])
      /\ wanted' = wanted \ {t}
      /\ off' = IF Outstanding THEN off \cup {"stale"} ELSE off
      /\ UNCHANGED <<begun, scan, pending, events, queue>>
  BY DEF UserRemoves, indexerVars
<1>2. ~Outstanding /\ off \subseteq {"unseen", "dangling"}
  BY <1>1
<1>3. RowsAgree /\ playerJobs = <<>> /\ \A p \in Nat : ~Removal(p)
  BY <1>2, OutstandingRows DEF QueueInv
<1>4. NoGap
  BY <1>3 DEF RowsAgree
<1>5. playerJobs' = <<queue[t]>>
  BY <1>1, <1>3
<1>6. playerJobs' # <<>> /\ Len(playerJobs') = 1 /\ playerJobs'[1] = queue[t]
  BY <1>5
<1>7. /\ t \in wanted /\ IsFiniteSet(wanted) /\ Cardinality(wanted) \in Nat
      /\ Cardinality(wanted') = Cardinality(wanted) - 1
  BY <1>1, <1>3, <1>4, WantedRows, FS_RemoveElement DEF NoGap
<1>8. GapAt(playerJobs[1])'
  <2>1. {u \in DOMAIN queue : queue[u] # queue[t]} = wanted'
    BY <1>1, <1>3, <1>4, <1>7 DEF RowsAgree, NoGap
  <2>2. queue[t] \in 0 .. Cardinality(wanted')
    <3>1. queue[t] \in 0 .. Cardinality(wanted) - 1
      BY <1>4, <1>7 DEF NoGap
    <3> QED BY <1>7, <3>1
  <2>3. {queue[u] : u \in wanted'} = (0 .. Cardinality(wanted) - 1) \ {queue[t]}
    BY <1>1, <1>3, <1>4, <1>7 DEF RowsAgree, NoGap
  <2>4. 0 .. Cardinality(wanted) - 1 = 0 .. Cardinality(wanted')
    BY <1>7
  <2> QED BY ZenonT(40), <1>1, <1>6, <2>1, <2>2, <2>3, <2>4 DEF GapAt
<1>9. \A p \in Nat : ~Removal(p)'
  BY <1>1, <1>3 DEF Removal
<1>10. begun' /\ scan'.op # "Add" => pending' \cap wanted' = {}
  BY <1>1, <1>3 DEF RowsAgree
<1> QED BY <1>1, <1>3, <1>6, <1>8, <1>9, <1>10 DEF RowsAgree

LEMMA QueueOthers ==
    ASSUME QueueInv, off \subseteq off',
           UNCHANGED <<queue, playerJobs, wanted, events>>,
           begun' /\ scan'.op # "Add" => begun /\ scan.op # "Add" /\ pending' = pending
    PROVE  QueueInv'
<1> SUFFICES ASSUME off' \subseteq {"unseen", "dangling"} PROVE RowsAgree'
  BY DEF QueueInv
<1>1. RowsAgree
  BY DEF QueueInv
<1> QED BY <1>1 DEF RowsAgree, NoGap, GapAt, Removal

LEMMA QueueKeptOn == TypeInv /\ ServeInv /\ QueueInv /\ [Next]_vars => QueueInv'
<1> SUFFICES ASSUME TypeInv, ServeInv, QueueInv, [Next]_vars PROVE QueueInv'
  OBVIOUS
<1>1. ASSUME UNCHANGED <<playerVars, indexerVars, events>> PROVE QueueInv'
  BY <1>1, QueueOthers DEF playerVars, indexerVars
<1>2. ASSUME NEW f \in Folders, ChangeDisk(f) PROVE QueueInv'
  BY <1>2, QueueOthers DEF ChangeDisk, indexerVars
<1>3. CASE OnDirectoryChanged
  <2>1. PICK extra \in Seq(Scan) : ScanNext(folderQueue \o extra) /\ off \subseteq off'
    BY <1>3, DirectoryChange
  <2>3. folderQueue \o extra \in Seq(Scan)
    BY DEF TypeInv, TypeOK
  <2> QED BY <1>3, <2>1, <2>3, QueueScanNext DEF OnDirectoryChanged
<1>4. CASE MediaDirectoryAdded
  <2>1. Head(timers) \in Folders
    BY <1>4 DEF MediaDirectoryAdded, TypeInv, TypeOK
  <2>2. Append(folderQueue, [op |-> "Add", folder |-> Head(timers)]) \in Seq(Scan)
    BY <2>1 DEF TypeInv, TypeOK, Scan
  <2> QED BY <1>4, <2>2, QueueScanNext DEF MediaDirectoryAdded, playerVars
<1>5. CASE Wire
  <2>1. Scans("Add", {f \in Folders : deviceMap[f] # 0}) \in Seq(Scan)
    <3>1. {f \in Folders : deviceMap[f] # 0} \in SUBSET Folders
      OBVIOUS
    <3> QED BY <3>1, ScansListed
  <2>2. folderQueue \o Scans("Add", {f \in Folders : deviceMap[f] # 0}) \in Seq(Scan)
    BY <2>1 DEF TypeInv, TypeOK
  <2> QED BY <1>5, <2>2, QueueScanNext DEF Wire, playerVars
<1>6. CASE InsertFile
  BY <1>6, QueueOthers DEF InsertFile, playerVars
<1>7. ASSUME NEW m \in Models, AttachModel(m) \/ DetachModel(m) PROVE QueueInv'
  BY <1>1, <1>7 DEF AttachModel, DetachModel
<1>8. CASE ConnectControl \/ DisconnectControl \/ UNCHANGED vars
  BY <1>1, <1>8 DEF ConnectControl, DisconnectControl, vars
<1> QED BY <1>2, <1>3, <1>4, <1>5, <1>6, <1>7, <1>8, QueueBegin, QueueEnd, QueueDeliver,
           QueuePlayerRemoves, QueueUserRemoves DEF Next, Work

(* When all is quiet the play queue holds the tracks no one meant to go,     *)
(* numbered without a gap, for any queue and any folders, whichever of       *)
(* player and indexer takes out a row first; as long as a removal finds one  *)
(* row at most and its index arrives before another is looked up.            *)
THEOREM QueueKeptAlways == Spec => []QueueKept
<1>1. ASSUME TypeInv, QueueInv PROVE QueueKept
  <2> SUFFICES ASSUME Settled, off \subseteq {"unseen", "dangling"}
               PROVE  /\ DOMAIN queue = wanted
                      /\ {queue[t] : t \in DOMAIN queue} = 0 .. Cardinality(DOMAIN queue) - 1
    BY DEF QueueKept
  <2>1. playerJobs = <<>> /\ \A p \in Nat : ~Removal(p)
    BY DEF Settled, Removal
  <2>2. NoGap
    BY <1>1, <2>1 DEF QueueInv, RowsAgree
  <2> QED BY <2>2 DEF NoGap
<1>2. TypeInv /\ QueueInv => QueueKept
  BY <1>1
<1> QED BY <1>2, InitTyped, NextTyped, ServeInit, ServeKept, QueueInit, QueueKeptOn, PTL
      DEF Spec

------------------------------------------------------------------------------
(* The library.  A folder is known while it has a device.  One whose files   *)
(* may be missing is still to be scanned, one whose files may have to go is  *)
(* still to be removed, in the order in which the folder came and went.      *)
Known == Used(deviceMap)

\* The path of no other folder begins its path.
Alone(f) == \A g \in Folders : <<g, f>> \notin PrefixOf

AddOf(f) == [op |-> "Add", folder |-> f]
RemoveOf(f) == [op |-> "Remove", folder |-> f]

Has(s, x) == \E i \in DOMAIN s : s[i] = x

\* The folder is to be scanned and not to be removed afterwards.
AddLast(q, f) ==
    \E i \in DOMAIN q :
        q[i] = AddOf(f) /\ \A j \in DOMAIN q : j >= i => q[j] # RemoveOf(f)

AddComing(f) ==
    \/ ~wired \/ Has(timers, f) \/ AddLast(folderQueue, f)
    \/ /\ running /\ scan = AddOf(f) /\ ~Has(folderQueue, RemoveOf(f))
       /\ begun => Files[f] \subseteq library \cup pending

InLibrary(f) ==
    /\ Files[f] \subseteq library /\ ~Has(folderQueue, RemoveOf(f))
    /\ ~(running /\ scan = RemoveOf(f))
    /\ begun /\ scan.op # "Add" => pending \cap Files[f] = {}

RemovalComing(f) ==
    \/ Has(folderQueue, RemoveOf(f))
    \/ /\ running /\ (scan = RemoveOf(f) \/ scan.op = "Verify")
       /\ begun => Files[f] \cap library \subseteq pending

Absent(f) ==
    /\ Files[f] \cap library = {}
    /\ begun /\ scan.op = "Add" => Files[f] \cap pending = {}

LibraryRight ==
    /\ \A f \in Known \cap present : Alone(f) => AddComing(f) \/ InLibrary(f)
    /\ \A f \in Folders \ (Known \cup present) : RemovalComing(f) \/ Absent(f)

AllSeen == off \cap {"unseen", "dangling"} = {}

LibraryInv == AllSeen /\ counts.failures = 0 => LibraryRight

(* A removal that found the name it was to announce is one of a folder.      *)
OfFolder(s) == s.op = "Remove" => s.folder \in Folders

PathsRight == OfFolder(scan) /\ \A i \in DOMAIN folderQueue : OfFolder(folderQueue[i])

PathsInv == "dangling" \notin off => PathsRight

\* Sequences: what is in a joined one, and in the rest of one.
LEMMA HasJoined ==
    ASSUME NEW S, NEW s \in Seq(S), NEW t \in Seq(S), NEW x
    PROVE  Has(s \o t, x) <=> Has(s, x) \/ Has(t, x)
<1> DEFINE u == s \o t
<1>1. /\ u \in Seq(S) /\ Len(u) = Len(s) + Len(t)
      /\ \A i \in 1 .. Len(s) : u[i] = s[i]
      /\ \A i \in 1 .. Len(t) : u[Len(s) + i] = t[i]
      /\ \A i \in 1 .. Len(u) :
            \/ i \in 1 .. Len(s) /\ u[i] = s[i]
            \/ i - Len(s) \in 1 .. Len(t) /\ u[i] = t[i - Len(s)]
  BY Joined
<1> HIDE DEF u
<1>2. /\ DOMAIN s = 1 .. Len(s) /\ DOMAIN t = 1 .. Len(t) /\ DOMAIN u = 1 .. Len(u)
      /\ Len(s) \in Nat /\ Len(t) \in Nat
  BY <1>1
<1>3. ASSUME Has(u, x) PROVE Has(s, x) \/ Has(t, x)
  BY <1>1, <1>2, <1>3 DEF Has
<1>4. ASSUME Has(s, x) PROVE Has(u, x)
  <2>1. PICK i \in 1 .. Len(s) : s[i] = x
    BY <1>2, <1>4 DEF Has
  <2>2. i \in DOMAIN u /\ u[i] = x
    BY <1>1, <1>2, <2>1
  <2> QED BY <2>2 DEF Has
<1>5. ASSUME Has(t, x) PROVE Has(u, x)
  <2>1. PICK i \in 1 .. Len(t) : t[i] = x
    BY <1>2, <1>5 DEF Has
  <2>2. Len(s) + i \in DOMAIN u /\ u[Len(s) + i] = x
    BY <1>1, <1>2, <2>1
  <2> QED BY <2>2 DEF Has
<1> QED BY <1>3, <1>4, <1>5 DEF u

LEMMA AddLastJoined ==
    ASSUME NEW S, NEW s \in Seq(S), NEW t \in Seq(S), NEW f,
           ~Has(t, RemoveOf(f)), AddLast(s, f) \/ Has(t, AddOf(f))
    PROVE  AddLast(s \o t, f)
<1> DEFINE u == s \o t
<1>1. /\ u \in Seq(S) /\ Len(u) = Len(s) + Len(t)
      /\ \A i \in 1 .. Len(s) : u[i] = s[i]
      /\ \A i \in 1 .. Len(t) : u[Len(s) + i] = t[i]
      /\ \A i \in 1 .. Len(u) :
            \/ i \in 1 .. Len(s) /\ u[i] = s[i]
            \/ i - Len(s) \in 1 .. Len(t) /\ u[i] = t[i - Len(s)]
  BY Joined
<1> HIDE DEF u
<1>2. /\ DOMAIN s = 1 .. Len(s) /\ DOMAIN t = 1 .. Len(t) /\ DOMAIN u = 1 .. Len(u)
      /\ Len(s) \in Nat /\ Len(t) \in Nat
  BY <1>1
<1>3. \A j \in 1 .. Len(t) : t[j] # RemoveOf(f)
  BY <1>2 DEF Has
<1>4. CASE AddLast(s, f)
  <2>1. PICK i \in 1 .. Len(s) :
            s[i] = AddOf(f) /\ \A j \in 1 .. Len(s) : j >= i => s[j] # RemoveOf(f)
    BY <1>2, <1>4 DEF AddLast
  <2>2. i \in DOMAIN u /\ u[i] = AddOf(f)
    BY <1>1, <1>2, <2>1
  <2>3. \A j \in DOMAIN u : j >= i => u[j] # RemoveOf(f)
    BY <1>1, <1>2, <1>3, <2>1
  <2> QED BY <2>2, <2>3 DEF AddLast, u
<1>5. CASE Has(t, AddOf(f))
  <2>1. PICK i \in 1 .. Len(t) : t[i] = AddOf(f)
    BY <1>2, <1>5 DEF Has
  <2>2. Len(s) + i \in DOMAIN u /\ u[Len(s) + i] = AddOf(f)
    BY <1>1, <1>2, <2>1
  <2>3. ASSUME NEW j \in DOMAIN u, j >= Len(s) + i PROVE u[j] # RemoveOf(f)
    <3>1. j - Len(s) \in 1 .. Len(t) /\ u[j] = t[j - Len(s)]
      BY <1>1, <1>2, <2>3
    <3> QED BY <1>3, <3>1
  <2> QED BY <2>2, <2>3 DEF AddLast, u
<1> QED BY <1>4, <1>5

LEMMA HasRest ==
    ASSUME NEW S, NEW s \in Seq(S), s # <<>>, NEW x
    PROVE  Has(s, x) <=> Head(s) = x \/ Has(Tail(s), x)
<1> DEFINE u == Tail(s)
<1>1. /\ DOMAIN s = 1 .. Len(s) /\ DOMAIN u = 1 .. Len(s) - 1 /\ Len(s) \in Nat
      /\ Len(s) >= 1 /\ Head(s) = s[1]
      /\ \A i \in 1 .. Len(s) - 1 : u[i] = s[i + 1]
  OBVIOUS
<1> HIDE DEF u
<1>2. ASSUME Has(s, x), s[1] # x PROVE Has(u, x)
  <2>1. PICK i \in 1 .. Len(s) : s[i] = x
    BY <1>1, <1>2 DEF Has
  <2>2. i - 1 \in DOMAIN u /\ (i - 1) + 1 = i
    BY <1>1, <1>2, <2>1
  <2>3. u[i - 1] = x
    BY <1>1, <2>1, <2>2
  <2> QED BY <2>2, <2>3 DEF Has
<1>3. ASSUME Has(u, x) PROVE Has(s, x)
  <2>1. PICK i \in 1 .. Len(s) - 1 : u[i] = x
    BY <1>1, <1>3 DEF Has
  <2>2. i + 1 \in DOMAIN s /\ s[i + 1] = x
    BY <1>1, <2>1
  <2> QED BY <2>2 DEF Has
<1>4. s[1] = x => Has(s, x)
  BY <1>1 DEF Has
<1> QED BY <1>1, <1>2, <1>3, <1>4 DEF u

LEMMA AddLastRest ==
    ASSUME NEW S, NEW s \in Seq(S), s # <<>>, NEW f, AddLast(s, f)
    PROVE  \/ AddLast(Tail(s), f)
           \/ Head(s) = AddOf(f) /\ ~Has(Tail(s), RemoveOf(f))
<1> DEFINE u == Tail(s)
<1>1. /\ DOMAIN s = 1 .. Len(s) /\ DOMAIN u = 1 .. Len(s) - 1 /\ Len(s) \in Nat
      /\ Len(s) >= 1 /\ Head(s) = s[1]
      /\ \A i \in 1 .. Len(s) - 1 : u[i] = s[i + 1]
  OBVIOUS
<1> HIDE DEF u
<1>2. PICK i \in 1 .. Len(s) :
        s[i] = AddOf(f) /\ \A j \in 1 .. Len(s) : j >= i => s[j] # RemoveOf(f)
  BY <1>1 DEF AddLast
<1>3. \A j \in 1 .. Len(s) - 1 : j + 1 >= i => u[j] # RemoveOf(f)
  <2> TAKE j \in 1 .. Len(s) - 1
  <2>1. j + 1 \in 1 .. Len(s) /\ u[j] = s[j + 1]
    BY <1>1
  <2> QED BY <1>2, <2>1
<1>4. CASE i = 1
  <2>1. \A j \in DOMAIN u : u[j] # RemoveOf(f)
    BY <1>1, <1>3, <1>4
  <2> QED BY <1>1, <1>2, <1>4, <2>1 DEF Has, u
<1>5. CASE i # 1
  <2>1. i - 1 \in DOMAIN u /\ (i - 1) + 1 = i
    BY <1>1, <1>2, <1>5
  <2>2. u[i - 1] = AddOf(f)
    BY <1>1, <1>2, <2>1
  <2>3. \A j \in DOMAIN u : j >= i - 1 => u[j] # RemoveOf(f)
    BY <1>1, <1>2, <1>3, <2>1
  <2> QED BY <2>1, <2>2, <2>3 DEF AddLast, u
<1> QED BY <1>4, <1>5

\* What scanNext() and onScanFinished() make of the operations there are.
Moves(queued) ==
    \/ folderQueue' = queued /\ UNCHANGED <<scan, begun, pending, running>>
    \/ /\ ~running /\ queued # <<>>
       /\ folderQueue' = Tail(queued) /\ scan' = Head(queued)
       /\ running' = TRUE /\ begun' = FALSE /\ pending' = {}

LEMMA ScanNextMoves == ASSUME NEW queued, ScanNext(queued) PROVE Moves(queued)
  BY DEF ScanNext, Moves

LEMMA MovesKeep ==
    ASSUME TypeInv, NEW queued \in Seq(Scan), Moves(queued), UNCHANGED library,
           NEW f \in Folders
    PROVE  /\ AddLast(queued, f) => AddComing(f)'
           /\ running /\ scan = AddOf(f) /\ ~Has(queued, RemoveOf(f))
                /\ (begun => Files[f] \subseteq library \cup pending) => AddComing(f)'
           /\ InLibrary(f) /\ ~Has(queued, RemoveOf(f)) => InLibrary(f)'
           /\ Has(queued, RemoveOf(f)) => RemovalComing(f)'
           /\ running /\ (scan = RemoveOf(f) \/ scan.op = "Verify")
                /\ (begun => Files[f] \cap library \subseteq pending) => RemovalComing(f)'
           /\ Absent(f) => Absent(f)'
<1>1. CASE folderQueue' = queued /\ UNCHANGED <<scan, begun, pending, running>>
  BY <1>1 DEF AddComing, InLibrary, RemovalComing, Absent
<1>2. CASE /\ ~running /\ queued # <<>>
           /\ folderQueue' = Tail(queued) /\ scan' = Head(queued)
           /\ running' = TRUE /\ begun' = FALSE /\ pending' = {}
  <2>1. \A x : Has(queued, x) <=> Head(queued) = x \/ Has(Tail(queued), x)
    BY <1>2, HasRest
  <2>2. AddLast(queued, f) =>
            \/ AddLast(Tail(queued), f)
            \/ Head(queued) = AddOf(f) /\ ~Has(Tail(queued), RemoveOf(f))
    BY <1>2, AddLastRest
  <2>3. AddLast(queued, f) => AddComing(f)'
    BY <1>2, <2>2 DEF AddComing
  <2>4. InLibrary(f) /\ ~Has(queued, RemoveOf(f)) => InLibrary(f)'
    BY <1>2, <2>1 DEF InLibrary
  <2>5. Has(queued, RemoveOf(f)) => RemovalComing(f)'
    BY <1>2, <2>1 DEF RemovalComing
  <2>6. Absent(f) => Absent(f)'
    BY <1>2 DEF Absent
  <2> QED BY <1>2, <2>3, <2>4, <2>5, <2>6
<1> QED BY <1>1, <1>2 DEF Moves

\* Operations that are added to the queue leave what there is in place.
LEMMA GrowthKeeps ==
    ASSUME TypeInv, NEW extra \in Seq(Scan), Moves(folderQueue \o extra), UNCHANGED library,
           NEW f \in Folders
    PROVE  /\ ~Has(extra, RemoveOf(f)) /\ (AddLast(folderQueue, f) \/ Has(extra, AddOf(f)))
                => AddComing(f)'
           /\ ~Has(extra, RemoveOf(f)) /\ running /\ scan = AddOf(f)
                /\ ~Has(folderQueue, RemoveOf(f))
                /\ (begun => Files[f] \subseteq library \cup pending) => AddComing(f)'
           /\ ~Has(extra, RemoveOf(f)) /\ InLibrary(f) => InLibrary(f)'
           /\ Has(extra, RemoveOf(f)) \/ RemovalComing(f) => RemovalComing(f)'
           /\ Absent(f) => Absent(f)'
<1>1. folderQueue \in Seq(Scan) /\ folderQueue \o extra \in Seq(Scan)
  BY Joined DEF TypeInv, TypeOK
<1>2. \A x : Has(folderQueue \o extra, x) <=> Has(folderQueue, x) \/ Has(extra, x)
  BY <1>1, HasJoined
<1>3. ~Has(extra, RemoveOf(f)) /\ (AddLast(folderQueue, f) \/ Has(extra, AddOf(f)))
        => AddLast(folderQueue \o extra, f)
  BY <1>1, AddLastJoined
<1> DEFINE queued == folderQueue \o extra
<1> HIDE DEF queued
<1>4. /\ AddLast(queued, f) => AddComing(f)'
      /\ running /\ scan = AddOf(f) /\ ~Has(queued, RemoveOf(f))
            /\ (begun => Files[f] \subseteq library \cup pending) => AddComing(f)'
      /\ InLibrary(f) /\ ~Has(queued, RemoveOf(f)) => InLibrary(f)'
      /\ Has(queued, RemoveOf(f)) => RemovalComing(f)'
      /\ running /\ (scan = RemoveOf(f) \/ scan.op = "Verify")
            /\ (begun => Files[f] \cap library \subseteq pending) => RemovalComing(f)'
      /\ Absent(f) => Absent(f)'
  <2>1. queued \in Seq(Scan) /\ Moves(queued)
    BY <1>1 DEF queued
  <2> QED BY <2>1, MovesKeep
<1>5. InLibrary(f) => ~Has(folderQueue, RemoveOf(f))
  BY DEF InLibrary
<1>6. Has(extra, RemoveOf(f)) \/ RemovalComing(f) => RemovalComing(f)'
  BY <1>2, <1>4 DEF RemovalComing, queued
<1> QED BY <1>2, <1>3, <1>4, <1>5, <1>6 DEF queued

LEMMA PathsInit == Init => PathsInv
  BY DEF Init, PathsInv, PathsRight, OfFolder

\* Operations are added to those there are, and the next one may start.
LEMMA PathsMove ==
    ASSUME TypeInv, PathsRight, NEW extra \in Seq(Scan), Moves(folderQueue \o extra),
           \A i \in DOMAIN extra : OfFolder(extra[i])
    PROVE  PathsRight'
<1> DEFINE queued == folderQueue \o extra
<1>1. /\ folderQueue \in Seq(Scan) /\ queued \in Seq(Scan)
      /\ \A i \in 1 .. Len(queued) :
            \/ i \in 1 .. Len(folderQueue) /\ queued[i] = folderQueue[i]
            \/ i - Len(folderQueue) \in 1 .. Len(extra)
               /\ queued[i] = extra[i - Len(folderQueue)]
  BY Joined DEF TypeInv, TypeOK
<1>2. /\ DOMAIN folderQueue = 1 .. Len(folderQueue) /\ DOMAIN extra = 1 .. Len(extra)
      /\ DOMAIN queued = 1 .. Len(queued)
  BY <1>1
<1> HIDE DEF queued
<1>3. \A i \in 1 .. Len(queued) : OfFolder(queued[i])
  BY <1>1, <1>2 DEF PathsRight
<1>4. CASE folderQueue' = queued /\ UNCHANGED scan
  BY <1>2, <1>3, <1>4 DEF PathsRight, OfFolder
<1>5. CASE queued # <<>> /\ folderQueue' = Tail(queued) /\ scan' = Head(queued)
  <2>1. /\ Head(queued) = queued[1] /\ 1 \in 1 .. Len(queued) /\ Len(queued) \in Nat
        /\ DOMAIN Tail(queued) = 1 .. Len(queued) - 1
        /\ \A i \in 1 .. Len(queued) - 1 : Tail(queued)[i] = queued[i + 1]
    BY <1>1, <1>5
  <2>2. OfFolder(scan)'
    BY <1>3, <1>5, <2>1 DEF OfFolder
  <2>3. ASSUME NEW i \in DOMAIN folderQueue' PROVE OfFolder(folderQueue'[i])
    <3>1. i \in 1 .. Len(queued) - 1 /\ i + 1 \in 1 .. Len(queued)
          /\ folderQueue'[i] = queued[i + 1]
      BY <1>5, <2>1
    <3> QED BY <1>3, <3>1
  <2> QED BY <2>2, <2>3 DEF PathsRight, OfFolder
<1> QED BY <1>4, <1>5 DEF Moves, queued

LEMMA PathsKept == TypeInv /\ ServeInv /\ PathsInv /\ [Next]_vars => PathsInv'
<1> SUFFICES ASSUME TypeInv, ServeInv, PathsInv, [Next]_vars, "dangling" \notin off'
             PROVE  PathsRight'
  BY DEF PathsInv
<1>1. off \subseteq off' => PathsRight
  BY DEF PathsInv
<1>2. ASSUME off \subseteq off', UNCHANGED <<folderQueue, scan>> PROVE PathsRight'
  BY <1>1, <1>2 DEF PathsRight, OfFolder
<1>3. ASSUME off \subseteq off', Moves(folderQueue) PROVE PathsRight'
  <2>1. <<>> \in Seq(Scan) /\ folderQueue \o <<>> = folderQueue
    BY DEF TypeInv, TypeOK
  <2>2. Moves(folderQueue \o <<>>)
    BY <1>3, <2>1
  <2>3. \A i \in DOMAIN <<>> : OfFolder(<<>>[i])
    OBVIOUS
  <2> QED BY <1>1, <1>3, <2>1, <2>2, <2>3, PathsMove
<1>4. CASE OnDirectoryChanged
  <2>1. PICK gone \in SUBSET Missing, extra \in Seq(Scan) :
            /\ ScanNext(folderQueue \o extra) /\ off \subseteq off'
            /\ "dangling" \in off' \/ extra = Scans("Remove", gone)
    BY <1>4, DirectoryChange
  <2>2. gone \in SUBSET Folders /\ extra = Scans("Remove", gone)
    BY <2>1 DEF Missing
  <2>3. \A n \in DOMAIN extra : \E f \in gone : extra[n] = [op |-> "Remove", folder |-> f]
    BY <2>2, ScansListed
  <2>4. \A n \in DOMAIN extra : OfFolder(extra[n])
    BY <2>2, <2>3 DEF OfFolder
  <2> QED BY <1>1, <2>1, <2>4, ScanNextMoves, PathsMove
<1>5. CASE MediaDirectoryAdded
  <2>1. /\ ScanNext(Append(folderQueue, AddOf(Head(timers)))) /\ off' = off
        /\ Head(timers) \in Folders
    BY <1>5 DEF MediaDirectoryAdded, TypeInv, TypeOK, playerVars, AddOf
  <2> DEFINE x == AddOf(Head(timers))
             extra == <<x>>
  <2>2. /\ x \in Scan /\ OfFolder(x) /\ extra \in Seq(Scan) /\ folderQueue \in Seq(Scan)
    BY <2>1 DEF AddOf, Scan, OfFolder, TypeInv, TypeOK
  <2>3. Append(folderQueue, x) = folderQueue \o extra
        /\ \A n \in DOMAIN extra : OfFolder(extra[n])
    <3> HIDE DEF x
    <3> QED BY <2>2
  <2>4. Moves(folderQueue \o extra)
    BY <2>1, <2>3, ScanNextMoves
  <2> HIDE DEF extra, x
  <2> QED BY <1>1, <2>1, <2>2, <2>3, <2>4, PathsMove
<1>6. CASE Wire
  <2> DEFINE extra == Scans("Add", Known)
  <2>1. ScanNext(folderQueue \o extra) /\ off' = off
    BY <1>6 DEF Wire, playerVars, Known, Used
  <2>2. /\ extra \in Seq(Scan)
        /\ \A n \in DOMAIN extra : \E f \in Known :
              extra[n] = [op |-> "Add", folder |-> f]
    <3>1. Known \in SUBSET Folders
      BY DEF Known, Used
    <3> QED BY <3>1, ScansListed
  <2> HIDE DEF extra
  <2>3. \A n \in DOMAIN extra : OfFolder(extra[n])
    BY <2>2 DEF OfFolder
  <2> QED BY <1>1, <2>1, <2>2, <2>3, ScanNextMoves, PathsMove
<1>7. CASE OnScanFinished
  <2>1. ~running
    <3>1. events # <<>> /\ events \in Seq(Event) /\ Head(events).kind = "finished"
      BY <1>7 DEF OnScanFinished, Received, TypeInv, TypeOK
    <3>2. 1 \in DOMAIN events /\ events[1] = Head(events)
      BY <3>1
    <3> QED BY <3>1, <3>2 DEF ServeInv, FinishedLast
  <2>2. Moves(folderQueue) /\ off' = off
    BY <1>7, <2>1 DEF OnScanFinished, Moves, playerVars
  <2> QED BY <1>3, <2>2
<1>8. CASE BeginScan
  BY <1>2, <1>8 DEF BeginScan
<1>9. CASE InsertFile
  BY <1>2, <1>9 DEF InsertFile, playerVars
<1>10. CASE DeleteFound \/ AllInserted \/ FailScan
  <2>1. off' = off /\ UNCHANGED folderQueue /\ scan' = NoScan
    BY <1>10 DEF DeleteFound, AllInserted, FailScan, EndScan, playerVars
  <2>2. OfFolder(NoScan)
    BY DEF OfFolder, NoScan
  <2> QED BY <1>1, <2>1, <2>2 DEF PathsRight, OfFolder
<1>11. ASSUME NEW f \in Folders, ChangeDisk(f) PROVE PathsRight'
  BY <1>2, <1>11 DEF ChangeDisk, indexerVars
<1>12. ASSUME NEW m \in Models, AttachModel(m) \/ DetachModel(m) PROVE PathsRight'
  BY <1>2, <1>12 DEF AttachModel, DetachModel, indexerVars, playerVars
<1>13. CASE OnStateChanged \/ OnRemoveFromQueue
  BY <1>2, <1>13 DEF OnStateChanged, OnRemoveFromQueue, indexerVars, playerVars
<1>14. CASE PlayerRemoves
  BY <1>2, <1>14 DEF PlayerRemoves, indexerVars
<1>15. ASSUME NEW t \in Track, UserRemoves(t) PROVE PathsRight'
  BY <1>2, <1>15 DEF UserRemoves, indexerVars
<1>16. CASE ConnectControl \/ DisconnectControl
  BY <1>2, <1>16 DEF ConnectControl, DisconnectControl, indexerVars, playerVars
<1>17. CASE UNCHANGED vars
  BY <1>2, <1>17 DEF vars, indexerVars, playerVars
<1> QED BY <1>4, <1>5, <1>6, <1>7, <1>8, <1>9, <1>10, <1>11, <1>12, <1>13, <1>14, <1>15,
           <1>16, <1>17
        DEF Next, Work, Deliver

LEMMA LibraryInit == Init => LibraryInv
<1> SUFFICES ASSUME Init PROVE LibraryRight
  BY DEF LibraryInv
<1>1. \A f \in Folders : deviceMap[f] # 0 <=> f \in present
  <2>1. \A f \in Folders :
            deviceMap[f] = IF f \in present
                           THEN Cardinality({g \in present : Rank[g] <= Rank[f]}) ELSE 0
    BY DEF Init
  <2>2. ASSUME NEW f \in present
        PROVE  /\ f \in Folders /\ NewId(present, 0, f) \in Nat /\ NewId(present, 0, f) # 0
               /\ Cardinality({g \in present : Rank[g] <= Rank[f]}) \in Nat
    <3>1. present \in SUBSET Folders
      BY DEF Init
    <3>2. IsFiniteSet(present) /\ Cardinality(present) \in Nat
      BY <3>1, FoldersListed
    <3>3. NewId(present, 0, f) \in 0 + 1 .. 0 + Cardinality(present)
      BY <3>1, NewIdsDiffer
    <3>4. {g \in present : Rank[g] <= Rank[f]} \in SUBSET Folders
      BY <3>1
    <3>5. Cardinality({g \in present : Rank[g] <= Rank[f]}) \in Nat
      BY <3>4, FoldersListed
    <3> QED BY <3>1, <3>2, <3>3, <3>5
  <2>3. \A f \in present : Cardinality({g \in present : Rank[g] <= Rank[f]}) # 0
    BY <2>2 DEF NewId
  <2> QED BY <2>1, <2>3
<1>2. present = Known
  BY <1>1 DEF Known, Used, Init
<1>4. ~wired /\ running /\ ~begun /\ scan.op = "Verify"
  BY DEF Init
<1> QED BY <1>2, <1>4 DEF LibraryRight, AddComing, RemovalComing

\* The devices change; the folders that are gone are to be removed.
LEMMA LibraryDirectory ==
    ASSUME TypeInv, LibraryInv, OnDirectoryChanged
    PROVE  LibraryInv'
<1>1. PICK gone \in SUBSET Missing, extra \in Seq(Scan) :
            LET removed == {deviceMap[f] : f \in gone} IN
            /\ Missing # {} => gone # {}
            /\ deviceMap' = [f \in Folders |->
                              IF f \in gone THEN 0
                              ELSE IF f \in Added THEN NewId(Added, devices, f)
                                                  ELSE deviceMap[f]]
            /\ devices' = devices + Cardinality(Added)
            /\ rows' = [m \in Models |->
                          IF m \in attached
                          THEN Without(rows[m], removed) \o Values(AddedMap) ELSE rows[m]]
            /\ deleted' = IF attached # {} THEN deleted \cup removed ELSE deleted
            /\ timers' = timers \o InOrder(Added, Rank)
            /\ ScanNext(folderQueue \o extra)
            /\ off \subseteq off'
            /\ "dangling" \in off' \/ extra = Scans("Remove", gone)
  BY DirectoryChange
<1>2. UNCHANGED <<present, wired, library, counts>>
  BY DEF OnDirectoryChanged
<1> SUFFICES ASSUME AllSeen', counts.failures = 0 PROVE LibraryRight'
  BY <1>2 DEF LibraryInv
<1>3. LibraryRight /\ extra = Scans("Remove", gone)
  BY <1>1 DEF LibraryInv, AllSeen
<1>4. Missing = Known \ present /\ Added = present \ Known /\ present \subseteq Folders
  BY DEF Missing, Added, Known, Used, TypeInv, TypeOK
<1>5. gone \subseteq Folders /\ gone \subseteq Known \ present
  BY <1>1, <1>4 DEF Missing
<1>6. Known' = (Known \ gone) \cup Added
  <2>1. \A f \in Added : NewId(Added, devices, f) # 0
    <3>1. /\ devices \in Nat /\ Cardinality(Added) \in Nat
          /\ \A f \in Added : NewId(Added, devices, f)
                                \in devices + 1 .. devices + Cardinality(Added)
      BY AddedTyped DEF TypeInv
    <3> QED BY <3>1
  <2>2. \A f \in Folders :
            deviceMap'[f] = IF f \in gone THEN 0
                            ELSE IF f \in Added THEN NewId(Added, devices, f)
                                                ELSE deviceMap[f]
    BY <1>1
  <2>3. \A f \in Folders : deviceMap'[f] # 0 <=> f \in (Known \ gone) \cup Added
    BY <1>4, <1>5, <2>1, <2>2 DEF Known, Used
  <2> QED BY <1>4, <2>3 DEF Known, Used
<1>8. /\ \A n \in DOMAIN extra : \E f \in gone : extra[n] = [op |-> "Remove", folder |-> f]
      /\ \A f \in gone : \E n \in DOMAIN extra : extra[n] = [op |-> "Remove", folder |-> f]
  BY <1>3, <1>5, ScansListed
<1>9. \A f \in Folders : Has(extra, RemoveOf(f)) <=> f \in gone
  <2>1. ASSUME NEW f \in Folders, NEW g \in gone, RemoveOf(f) = RemoveOf(g) PROVE f = g
    BY <2>1 DEF RemoveOf
  <2>2. ASSUME NEW f \in Folders, Has(extra, RemoveOf(f)) PROVE f \in gone
    <3>1. PICK n \in DOMAIN extra : extra[n] = RemoveOf(f)
      BY <2>2 DEF Has
    <3>2. PICK g \in gone : extra[n] = RemoveOf(g)
      BY <1>8 DEF RemoveOf
    <3> QED BY <2>1, <3>1, <3>2
  <2>3. ASSUME NEW f \in gone PROVE Has(extra, RemoveOf(f))
    BY <1>8 DEF Has, RemoveOf
  <2> QED BY <2>2, <2>3
<1>10. Moves(folderQueue \o extra)
  BY <1>1, ScanNextMoves
<1>11. ASSUME NEW f \in Folders
       PROVE  /\ f \notin gone /\ AddLast(folderQueue, f) => AddComing(f)'
              /\ f \notin gone /\ running /\ scan = AddOf(f)
                /\ ~Has(folderQueue, RemoveOf(f))
                /\ (begun => Files[f] \subseteq library \cup pending) => AddComing(f)'
              /\ f \notin gone /\ InLibrary(f) => InLibrary(f)'
              /\ f \in gone \/ RemovalComing(f) => RemovalComing(f)'
              /\ Absent(f) => Absent(f)'
  BY <1>2, <1>9, <1>10, GrowthKeeps
<1>12. ASSUME NEW f PROVE Has(timers, f) \/ f \in Added => Has(timers, f)'
  <2>1. timers \in Seq(Folders) /\ InOrder(Added, Rank) \in Seq(Folders)
    BY AddedTyped, FoldersListed, SeqWider DEF TypeInv, TypeOK
  <2>2. Has(timers \o InOrder(Added, Rank), f)
            <=> Has(timers, f) \/ Has(InOrder(Added, Rank), f)
    BY <2>1, HasJoined
  <2>3. f \in Added => Has(InOrder(Added, Rank), f)
    <3>1. /\ Cardinality(Added) \in Nat
          /\ InOrder(Added, Rank) \in Seq(Added)
          /\ Len(InOrder(Added, Rank)) = Cardinality(Added)
          /\ \A g \in Added : \E n \in 1 .. Cardinality(Added) : InOrder(Added, Rank)[n] = g
      BY AddedTyped, FoldersListed
    <3>2. DOMAIN InOrder(Added, Rank) = 1 .. Cardinality(Added)
      BY <3>1
    <3> QED BY <3>1, <3>2 DEF Has
  <2>4. timers' = timers \o InOrder(Added, Rank)
    BY <1>1
  <2> QED BY <2>2, <2>3, <2>4 DEF Has
<1>13. ASSUME NEW f \in Known' \cap present', Alone(f) PROVE AddComing(f)' \/ InLibrary(f)'
  <2>1. f \in present /\ f \in Folders /\ f \notin gone
    BY <1>2, <1>4, <1>5, <1>13
  <2>2. CASE f \in Added
    BY <1>12, <2>2 DEF AddComing
  <2>3. CASE f \notin Added
    <3>1. AddComing(f) \/ InLibrary(f)
      BY <1>3, <1>4, <1>13, <2>1, <2>3 DEF LibraryRight
    <3>2. ~wired \/ Has(timers, f) => AddComing(f)'
      BY <1>2, <1>12 DEF AddComing
    <3> QED BY <1>11, <2>1, <3>1, <3>2 DEF AddComing
  <2> QED BY <2>2, <2>3
<1>14. ASSUME NEW f \in Folders, f \notin Known', f \notin present'
       PROVE  RemovalComing(f)' \/ Absent(f)'
  <2>1. f \notin present
    BY <1>2, <1>14
  <2>2. CASE f \in Known
    BY <1>6, <1>11, <1>14, <2>2
  <2>3. CASE f \notin Known
    <3>1. RemovalComing(f) \/ Absent(f)
      BY <1>3, <2>1, <2>3 DEF LibraryRight
    <3> QED BY <1>11, <3>1
  <2> QED BY <2>2, <2>3
<1> QED BY <1>13, <1>14 DEF LibraryRight

\* A step that only adds scans of folders, or starts the next operation.
LEMMA LibraryGrows ==
    ASSUME TypeInv, LibraryInv, NEW extra \in Seq(Scan), Moves(folderQueue \o extra),
           \A f \in Folders : ~Has(extra, RemoveOf(f)),
           \A f \in Known : ~wired \/ Has(timers, f) =>
                ~wired' \/ Has(timers, f)' \/ Has(extra, AddOf(f)),
           UNCHANGED <<library, deviceMap, present>>,
           off \subseteq off', counts'.failures = counts.failures
    PROVE  LibraryInv'
<1> SUFFICES ASSUME AllSeen', counts'.failures = 0 PROVE LibraryRight'
  BY DEF LibraryInv
<1>1. LibraryRight
  BY DEF LibraryInv, AllSeen
<1>2. Known' = Known /\ Known \subseteq Folders
  BY DEF Known, Used
<1>3. ASSUME NEW f \in Folders
      PROVE  /\ AddLast(folderQueue, f) \/ Has(extra, AddOf(f)) => AddComing(f)'
             /\ running /\ scan = AddOf(f) /\ ~Has(folderQueue, RemoveOf(f))
                  /\ (begun => Files[f] \subseteq library \cup pending) => AddComing(f)'
             /\ InLibrary(f) => InLibrary(f)'
             /\ RemovalComing(f) => RemovalComing(f)'
             /\ Absent(f) => Absent(f)'
  BY GrowthKeeps
<1>4. ASSUME NEW f \in Known' \cap present', Alone(f) PROVE AddComing(f)' \/ InLibrary(f)'
  <2>1. f \in Known /\ f \in present /\ f \in Folders
    BY <1>2, <1>4
  <2>2. AddComing(f) \/ InLibrary(f)
    BY <1>1, <1>4, <2>1 DEF LibraryRight
  <2>3. ~wired' \/ Has(timers, f)' => AddComing(f)'
    BY DEF AddComing
  <2>4. ~wired \/ Has(timers, f) => AddComing(f)'
    BY <1>3, <2>1, <2>3
  <2> QED BY <1>3, <2>1, <2>2, <2>4 DEF AddComing
<1>5. ASSUME NEW f \in Folders \ (Known' \cup present')
      PROVE  RemovalComing(f)' \/ Absent(f)'
  <2>1. RemovalComing(f) \/ Absent(f)
    BY <1>1, <1>2, <1>5 DEF LibraryRight
  <2> QED BY <1>3, <1>5, <2>1
<1> QED BY <1>4, <1>5 DEF LibraryRight

\* Two seconds later the scan of the device is added.
LEMMA LibraryAdded ==
    ASSUME TypeInv, LibraryInv, MediaDirectoryAdded
    PROVE  LibraryInv'
<1>1. /\ timers # <<>> /\ timers' = Tail(timers) /\ timers \in Seq(Folders)
      /\ UNCHANGED <<library, deviceMap, present, wired, off, counts>>
      /\ ScanNext(Append(folderQueue, AddOf(Head(timers))))
  BY DEF MediaDirectoryAdded, TypeInv, TypeOK, diskVars, deviceVars, playerVars, AddOf
<1> DEFINE x == AddOf(Head(timers))
           extra == <<x>>
<1>2. Head(timers) \in Folders
  BY <1>1
<1>3. x \in Scan /\ extra \in Seq(Scan) /\ folderQueue \in Seq(Scan)
  BY <1>2 DEF AddOf, Scan, TypeInv, TypeOK
<1>4. Append(folderQueue, x) = folderQueue \o extra
  <2> HIDE DEF x
  <2> QED BY <1>3
<1>5. Has(extra, x)
  BY DEF Has
<1>6. \A f : ~Has(extra, RemoveOf(f))
  BY DEF Has, AddOf, RemoveOf
<1>7. \A f : Has(timers, f) => Has(timers, f)' \/ Has(extra, AddOf(f))
  <2> TAKE f
  <2>1. Has(timers, f) <=> Head(timers) = f \/ Has(Tail(timers), f)
    BY <1>1, HasRest
  <2>2. Has(timers, f)' <=> Has(Tail(timers), f)
    BY <1>1 DEF Has
  <2> QED BY <1>5, <2>1, <2>2
<1>8. Moves(folderQueue \o extra)
  BY <1>1, <1>4, ScanNextMoves
<1> HIDE DEF extra, x
<1> QED BY <1>1, <1>3, <1>6, <1>7, <1>8, LibraryGrows

\* The plugin is ready: every folder with a device is scanned.
LEMMA LibraryWire ==
    ASSUME TypeInv, LibraryInv, Wire
    PROVE  LibraryInv'
<1> DEFINE extra == Scans("Add", Known)
<1>1. /\ UNCHANGED <<library, deviceMap, present, timers, off, counts>>
      /\ ScanNext(folderQueue \o extra)
  BY DEF Wire, diskVars, deviceVars, playerVars, Known, Used
<1>2. /\ extra \in Seq(Scan)
      /\ \A n \in DOMAIN extra : \E f \in Known : extra[n] = [op |-> "Add", folder |-> f]
      /\ \A f \in Known : \E n \in DOMAIN extra : extra[n] = [op |-> "Add", folder |-> f]
  <2>1. Known \in SUBSET Folders
    BY DEF Known, Used
  <2> QED BY <2>1, ScansListed
<1> HIDE DEF extra
<1>3. \A f \in Known : Has(extra, AddOf(f))
  BY <1>2 DEF Has, AddOf
<1>4. \A f \in Folders : ~Has(extra, RemoveOf(f))
  <2>1. \A f, g : AddOf(f) # RemoveOf(g)
    BY DEF AddOf, RemoveOf
  <2> QED BY <1>2, <2>1 DEF Has, AddOf
<1>5. Moves(folderQueue \o extra)
  BY <1>1, ScanNextMoves
<1> QED BY <1>1, <1>2, <1>3, <1>4, <1>5, LibraryGrows

\* What neither adds operations nor touches the library; and finished().
LEMMA LibraryFrame ==
    ASSUME TypeInv, LibraryInv, Moves(folderQueue),
           UNCHANGED <<library, deviceMap, present, wired, timers>>,
           off \subseteq off', counts'.failures = counts.failures
    PROVE  LibraryInv'
<1>1. <<>> \in Seq(Scan) /\ folderQueue \o <<>> = folderQueue
  BY DEF TypeInv, TypeOK
<1>2. Moves(folderQueue \o <<>>)
  BY <1>1
<1>3. \A x : ~Has(<<>>, x)
  BY DEF Has
<1>4. \A f : Has(timers, f)' <=> Has(timers, f)
  BY DEF Has
<1>5. \A f \in Known : ~wired \/ Has(timers, f) =>
            ~wired' \/ Has(timers, f)' \/ Has(<<>>, AddOf(f))
  BY <1>4
<1> QED BY <1>1, <1>2, <1>3, <1>5, LibraryGrows

LEMMA LibraryFinished ==
    ASSUME TypeInv, ServeInv, LibraryInv, OnScanFinished
    PROVE  LibraryInv'
<1>1. ~running
  <2>1. events # <<>> /\ events \in Seq(Event) /\ Head(events).kind = "finished"
    BY DEF OnScanFinished, Received, TypeInv, TypeOK
  <2>2. 1 \in DOMAIN events /\ events[1] = Head(events)
    BY <2>1
  <2> QED BY <2>1, <2>2 DEF ServeInv, FinishedLast
<1>2. Moves(folderQueue)
  BY <1>1 DEF OnScanFinished, Moves
<1> QED BY <1>2, LibraryFrame
        DEF OnScanFinished, diskVars, deviceVars, playerVars

\* A folder's own files are neither found in other folders nor below them.
LEMMA OwnFiles ==
    ASSUME NEW f \in Folders, present \subseteq Folders
    PROVE  /\ f \in present => Files[f] \subseteq FilesPresent
           /\ f \notin present => Files[f] \cap FilesPresent = {}
           /\ Files[f] \subseteq Below(f)
           /\ \A g \in Folders : g # f /\ Alone(f) => Files[f] \cap Below(g) = {}
<1>1. \A g \in Folders : f # g => Files[f] \cap Files[g] = {}
  BY DevicesAssumption
<1>2. f \in present => Files[f] \subseteq FilesPresent
  BY DEF FilesPresent
<1>3. f \notin present => Files[f] \cap FilesPresent = {}
  BY <1>1 DEF FilesPresent
<1>4. Files[f] \subseteq Below(f)
  BY DEF Below
<1>5. ASSUME NEW g \in Folders, g # f, Alone(f) PROVE Files[f] \cap Below(g) = {}
  <2>1. f \notin {h \in Folders : h = g \/ <<g, h>> \in PrefixOf}
    BY <1>5 DEF Alone
  <2> QED BY ZenonT(40), <1>1, <2>1 DEF Below
<1> QED BY <1>2, <1>3, <1>4, <1>5

\* The worker looks for the files it is to remove or to insert.
LEMMA LibraryBegin ==
    ASSUME TypeInv, PathsInv, LibraryInv, BeginScan
    PROVE  LibraryInv'
<1>1. /\ running /\ ~begun /\ begun' = TRUE /\ pending' = Found
      /\ UNCHANGED <<present, deviceMap, timers, wired, folderQueue, scan,
                     running, library, counts>>
      /\ off \subseteq off'
  BY DEF BeginScan, diskVars, deviceVars
<1> SUFFICES ASSUME AllSeen', counts'.failures = 0 PROVE LibraryRight'
  BY DEF LibraryInv
<1>2. LibraryRight /\ present \subseteq Folders /\ scan \in Scan
  BY <1>1 DEF LibraryInv, AllSeen, TypeInv, TypeOK
<1>3. Known' = Known /\ Known \subseteq Folders
  BY <1>1 DEF Known, Used
<1>4. \/ scan.op = "Verify" /\ Found = library \ FilesPresent
      \/ /\ scan.op = "Remove" /\ scan = RemoveOf(scan.folder) /\ scan.folder \in Folders
         /\ Found = library \cap Below(scan.folder)
      \/ /\ scan.op = "Add" /\ scan = AddOf(scan.folder) /\ scan.folder \in Folders
         /\ Found = Files[scan.folder] \cap FilesPresent
  <2>1. scan.op = "Remove" => scan.folder \in Folders
    BY <1>1 DEF PathsInv, PathsRight, OfFolder, AllSeen
  <2>2. \/ scan.op = "Verify"
        \/ scan.op = "Remove" /\ scan = RemoveOf(scan.folder)
        \/ scan.op = "Add" /\ scan = AddOf(scan.folder) /\ scan.folder \in Folders
    BY <1>2 DEF Scan, RemoveOf, AddOf
  <2> QED BY <2>1, <2>2 DEF Found
<1>5. ASSUME NEW f \in Known' \cap present', Alone(f) PROVE AddComing(f)' \/ InLibrary(f)'
  <2>1. f \in Known /\ f \in present /\ f \in Folders
    BY <1>1, <1>3, <1>5
  <2>2. AddComing(f) \/ InLibrary(f)
    BY <1>2, <1>5, <2>1 DEF LibraryRight
  <2>3. ~wired \/ Has(timers, f) \/ AddLast(folderQueue, f) => AddComing(f)'
    BY <1>1 DEF AddComing, Has, AddLast
  <2>4. scan = AddOf(f) => Files[f] \subseteq pending'
    <3>1. scan = AddOf(f) => scan.op = "Add" /\ scan.folder = f
      BY DEF AddOf
    <3> QED BY <1>1, <1>2, <1>4, <2>1, <3>1, OwnFiles
  <2>5. scan = AddOf(f) /\ ~Has(folderQueue, RemoveOf(f)) => AddComing(f)'
    BY <1>1, <2>4 DEF AddComing, Has
  <2>6. InLibrary(f) /\ scan.op # "Add" => pending' \cap Files[f] = {}
    <3>1. InLibrary(f) => scan # RemoveOf(f)
      BY <1>1 DEF InLibrary
    <3> QED BY <1>1, <1>2, <1>4, <1>5, <2>1, <3>1, OwnFiles
  <2>7. InLibrary(f) => InLibrary(f)'
    BY <1>1, <2>6 DEF InLibrary, Has
  <2> QED BY <2>2, <2>3, <2>5, <2>7 DEF AddComing
<1>6. ASSUME NEW f \in Folders \ (Known' \cup present')
      PROVE  RemovalComing(f)' \/ Absent(f)'
  <2>1. f \notin present /\ (RemovalComing(f) \/ Absent(f))
    BY <1>1, <1>2, <1>3, <1>6 DEF LibraryRight
  <2>2. Has(folderQueue, RemoveOf(f)) => RemovalComing(f)'
    BY <1>1 DEF RemovalComing, Has
  <2>3. scan = RemoveOf(f) => scan.op = "Remove" /\ scan.folder = f
    BY DEF RemoveOf
  <2>4. scan = RemoveOf(f) \/ scan.op = "Verify" => Files[f] \cap library \subseteq pending'
    BY <1>1, <1>2, <1>4, <2>1, <2>3, OwnFiles
  <2>5. scan = RemoveOf(f) \/ scan.op = "Verify" => RemovalComing(f)'
    BY <1>1, <2>4 DEF RemovalComing
  <2>6. scan.op = "Add" => Files[f] \cap pending' = {}
    BY <1>1, <1>2, <1>4, <2>1, OwnFiles
  <2>7. Absent(f) => Absent(f)'
    BY <1>1, <2>6 DEF Absent
  <2> QED BY <2>1, <2>2, <2>5, <2>7 DEF RemovalComing
<1> QED BY <1>5, <1>6 DEF LibraryRight

\* The worker deletes, inserts, and comes to an end.
LEMMA LibraryWork ==
    ASSUME TypeInv, ServeInv, LibraryInv,
           DeleteFound \/ InsertFile \/ AllInserted \/ FailScan
    PROVE  LibraryInv'
<1>1. CASE FailScan
  <2>1. counts' = [counts EXCEPT !.failures = counts.failures + 1]
        /\ counts.failures \in Nat /\ DOMAIN counts =
                {"changes", "edits", "failures", "control", "models"}
    BY <1>1 DEF FailScan, ServeInv, CountsTyped
  <2>2. counts'.failures # 0
    BY <2>1
  <2> QED BY <2>2 DEF LibraryInv
<1>2. ASSUME ~FailScan PROVE LibraryInv'
  <2>1. UNCHANGED <<present, deviceMap, timers, wired, folderQueue, off, counts>>
        /\ begun
    BY <1>2 DEF DeleteFound, InsertFile, AllInserted, diskVars, deviceVars, playerVars
  <2> SUFFICES ASSUME AllSeen', counts.failures = 0 PROVE LibraryRight'
    BY <2>1 DEF LibraryInv
  <2>2. LibraryRight /\ Known' = Known /\ Known \subseteq Folders
    BY <2>1 DEF LibraryInv, AllSeen, Known, Used
  <2>3. ASSUME NEW f
        PROVE  /\ AddOf(f).op = "Add" /\ RemoveOf(f).op = "Remove"
               /\ ~wired \/ Has(timers, f) \/ AddLast(folderQueue, f) => AddComing(f)'
               /\ Has(folderQueue, RemoveOf(f)) => RemovalComing(f)'
               /\ Has(folderQueue, RemoveOf(f))' <=> Has(folderQueue, RemoveOf(f))
    BY <2>1 DEF AddOf, RemoveOf, AddComing, RemovalComing, Has, AddLast
  <2>4. ASSUME NEW f
        PROVE  /\ AddComing(f) => AddComing(f)' \/ InLibrary(f)'
               /\ InLibrary(f) => InLibrary(f)'
               /\ RemovalComing(f) => RemovalComing(f)' \/ Absent(f)'
               /\ Absent(f) => Absent(f)'
    <3>1. CASE DeleteFound
      <4>1. /\ scan.op # "Add" /\ library' = library \ pending
            /\ running' = FALSE /\ begun' = FALSE
        BY <3>1 DEF DeleteFound, EndScan
      <4>2. InLibrary(f) => InLibrary(f)'
        BY <2>1, <2>3, <4>1 DEF InLibrary
      <4>3. RemovalComing(f) => RemovalComing(f)' \/ Absent(f)'
        BY <2>1, <2>3, <4>1 DEF RemovalComing, Absent
      <4>4. AddComing(f) => AddComing(f)'
        BY <2>3, <4>1 DEF AddComing
      <4>5. Absent(f) => Absent(f)'
        BY <4>1 DEF Absent
      <4> QED BY <4>2, <4>3, <4>4, <4>5
    <3>2. CASE InsertFile
      <4>1. PICK t \in pending : pending' = pending \ {t} /\ library' = library \cup {t}
        BY <3>2 DEF InsertFile
      <4>2. scan.op = "Add" /\ UNCHANGED <<scan, begun, running>>
        BY <3>2 DEF InsertFile
      <4>3. AddComing(f) => AddComing(f)'
        BY <2>1, <2>3, <4>1, <4>2 DEF AddComing
      <4>4. InLibrary(f) => InLibrary(f)'
        BY <2>3, <4>1, <4>2 DEF InLibrary
      <4>5. RemovalComing(f) => RemovalComing(f)'
        BY <2>3, <4>2 DEF RemovalComing
      <4>6. Absent(f) => Absent(f)'
        BY <2>1, <4>1, <4>2 DEF Absent
      <4> QED BY <4>3, <4>4, <4>5, <4>6
    <3>3. CASE AllInserted
      <4>1. /\ scan.op = "Add" /\ pending = {} /\ library' = library
            /\ running' = FALSE /\ begun' = FALSE
        BY <3>3 DEF AllInserted, EndScan
      <4>2. AddComing(f) => AddComing(f)' \/ InLibrary(f)'
        BY <2>1, <2>3, <4>1 DEF AddComing, InLibrary
      <4>3. InLibrary(f) => InLibrary(f)'
        BY <2>3, <4>1 DEF InLibrary
      <4>4. RemovalComing(f) => RemovalComing(f)'
        BY <2>3, <4>1 DEF RemovalComing
      <4>5. Absent(f) => Absent(f)'
        BY <4>1 DEF Absent
      <4> QED BY <4>2, <4>3, <4>4, <4>5
    <3> QED BY <1>2, <3>1, <3>2, <3>3
  <2>5. ASSUME NEW f \in Known' \cap present', Alone(f)
        PROVE  AddComing(f)' \/ InLibrary(f)'
    BY <2>1, <2>2, <2>4, <2>5 DEF LibraryRight
  <2>6. ASSUME NEW f \in Folders \ (Known' \cup present')
        PROVE  RemovalComing(f)' \/ Absent(f)'
    BY <2>1, <2>2, <2>4, <2>6 DEF LibraryRight
  <2> QED BY <2>5, <2>6 DEF LibraryRight
<1> QED BY <1>1, <1>2

\* A device is plugged in or pulled out: there is nothing to keep of it then.
LEMMA LibraryChange ==
    ASSUME TypeInv, LibraryInv, NEW f \in Folders, ChangeDisk(f)
    PROVE  LibraryInv'
<1>1. /\ counts' = [counts EXCEPT !.changes = counts.changes + 1]
      /\ present' = IF f \in present THEN present \ {f} ELSE present \cup {f}
      /\ off' = IF (deviceMap[f] # 0) = (f \in present') THEN off \cup {"unseen"} ELSE off
      /\ UNCHANGED <<deviceMap, timers, wired, folderQueue, scan, begun, pending,
                     running, library>>
  BY DEF ChangeDisk, deviceVars, indexerVars
<1>2. counts'.failures = counts.failures
  BY <1>1
<1> SUFFICES ASSUME AllSeen', counts'.failures = 0 PROVE LibraryRight'
  BY DEF LibraryInv
<1>3. off' = off /\ ((deviceMap[f] # 0) # (f \in present'))
  BY <1>1 DEF AllSeen
<1>4. LibraryRight /\ Known' = Known /\ (f \in Known <=> f \notin present')
  BY <1>1, <1>2, <1>3 DEF LibraryInv, AllSeen, Known, Used
<1>5. \A g : g # f => (g \in present' <=> g \in present)
  BY <1>1
<1>7. \A g : /\ AddComing(g) => AddComing(g)'
             /\ InLibrary(g) => InLibrary(g)'
             /\ RemovalComing(g) => RemovalComing(g)'
             /\ Absent(g) => Absent(g)'
  BY <1>1 DEF AddComing, InLibrary, RemovalComing, Absent, Has, AddLast
<1>8. \A g \in Known' \cap present' : Alone(g) => AddComing(g)' \/ InLibrary(g)'
  BY <1>4, <1>5, <1>7 DEF LibraryRight
<1>9. \A g \in Folders \ (Known' \cup present') : RemovalComing(g)' \/ Absent(g)'
  BY <1>4, <1>5, <1>7 DEF LibraryRight
<1> QED BY <1>8, <1>9 DEF LibraryRight

LEMMA LibraryKept ==
    TypeInv /\ ServeInv /\ PathsInv /\ LibraryInv /\ [Next]_vars => LibraryInv'
<1> SUFFICES ASSUME TypeInv, ServeInv, PathsInv, LibraryInv, [Next]_vars PROVE LibraryInv'
  OBVIOUS
<1>1. ASSUME UNCHANGED <<indexerVars, library, deviceMap, present, wired, timers>>,
             off \subseteq off', counts'.failures = counts.failures
      PROVE  LibraryInv'
  BY <1>1, LibraryFrame DEF Moves, indexerVars
<1>2. DOMAIN counts = {"changes", "edits", "failures", "control", "models"}
  BY DEF ServeInv, CountsTyped
<1>3. ASSUME NEW m \in Models, AttachModel(m) PROVE LibraryInv'
  BY <1>1, <1>2, <1>3 DEF AttachModel, diskVars, playerVars
<1>4. ASSUME NEW m \in Models, DetachModel(m) PROVE LibraryInv'
  BY <1>1, <1>4 DEF DetachModel, diskVars, playerVars
<1>5. CASE OnStateChanged \/ OnRemoveFromQueue
  BY <1>1, <1>5 DEF OnStateChanged, OnRemoveFromQueue, diskVars, deviceVars, playerVars
<1>6. CASE PlayerRemoves
  BY <1>1, <1>6 DEF PlayerRemoves, diskVars, deviceVars
<1>7. ASSUME NEW t \in Track, UserRemoves(t) PROVE LibraryInv'
  BY <1>1, <1>2, <1>7 DEF UserRemoves, diskVars, deviceVars
<1>8. CASE ConnectControl \/ DisconnectControl
  BY <1>1, <1>2, <1>8 DEF ConnectControl, DisconnectControl, diskVars, deviceVars, playerVars
<1>9. CASE UNCHANGED vars
  BY <1>1, <1>9 DEF vars, diskVars, deviceVars, playerVars
<1> QED BY <1>3, <1>4, <1>5, <1>6, <1>7, <1>8, <1>9, LibraryWire, LibraryChange,
           LibraryDirectory, LibraryAdded, LibraryBegin, LibraryWork, LibraryFinished
        DEF Next, Work, Deliver

(* When all is quiet the library holds the files of the folders that are     *)
(* plugged in and of no others, and the play queue the tracks no one meant   *)
(* to go: for any folders, paths, tracks and queues, and whatever order      *)
(* folders come, go, are scanned and are removed in.                         *)
THEOREM TracksFollowAlways == Spec => []TracksFollowDevices
<1>1. ASSUME TypeInv, LibraryInv PROVE LibraryMatches
  <2> SUFFICES ASSUME Settled, AllSeen, counts.failures = 0,
                      present = {f \in Folders : deviceMap[f] # 0}, NEW f \in Folders
               PROVE  /\ f \notin present => Files[f] \cap library = {}
                      /\ f \in present /\ (\A g \in Folders : <<g, f>> \notin PrefixOf)
                            => Files[f] \subseteq library
    BY DEF LibraryMatches, AllSeen
  <2>1. LibraryRight /\ present = Known
    BY <1>1 DEF LibraryInv, Known, Used
  <2>2. ~running /\ wired
    BY DEF Settled
  <2>3. \A x : ~Has(folderQueue, x) /\ ~Has(timers, x)
    BY DEF Settled, Has
  <2>4. \A x : ~AddLast(folderQueue, x)
    BY DEF Settled, AddLast
  <2>5. ~AddComing(f) /\ ~RemovalComing(f)
    BY <2>2, <2>3, <2>4 DEF AddComing, RemovalComing
  <2>6. f \notin present => Absent(f)
    BY <2>1, <2>5 DEF LibraryRight
  <2>7. f \in present /\ Alone(f) => InLibrary(f)
    BY <2>1, <2>5 DEF LibraryRight
  <2> QED BY <2>6, <2>7 DEF Absent, InLibrary, Alone
<1>2. TypeInv /\ LibraryInv => LibraryMatches
  BY <1>1
<1>3. Spec => []LibraryMatches
  BY <1>2, InitTyped, NextTyped, ServeInit, ServeKept, PathsInit, PathsKept,
     LibraryInit, LibraryKept, PTL
     DEF Spec
<1>4. LibraryMatches /\ QueueKept => TracksFollowDevices
  BY DEF TracksFollowDevices
<1> QED BY <1>3, <1>4, QueueKeptAlways, PTL
==============================================================================
