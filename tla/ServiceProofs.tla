---------------------------- MODULE ServiceProofs ----------------------------
(***************************************************************************)
(* Theorems about what stands between a feature and its backend: the       *)
(* service manager, for any plugins in any order, and the synchronisation  *)
(* of zoned features with their server, for any features, zones,           *)
(* properties and values and any number of losses, changes and calls.      *)
(* Their definitions are named apart, so both are extended here.           *)
(***************************************************************************)
EXTENDS ServiceManager, ZonedSync, FiniteSetTheorems, SequenceTheorems, TLAPS

(***************************************************************************)
(* The service manager.                                                    *)
(***************************************************************************)

\* Those objects a search makes get the numbers after the last one, each another
\* one, and no number is left out.
LEMMA Numbering ==
    ASSUME NEW m \in Nat, NEW new \in SUBSET Nat, IsFiniteSet(new)
    PROVE  LET Number(i) == m + Cardinality({j \in new : j <= i}) IN
           /\ \A i \in new : Number(i) \in m + 1 .. m + Cardinality(new)
           /\ \A i, j \in new : Number(i) = Number(j) => i = j
           /\ \A k \in m + 1 .. m + Cardinality(new) : \E i \in new : Number(i) = k
<1> DEFINE UpTo(i) == {j \in new : j <= i}
           Target == m + 1 .. m + Cardinality(new)
           number == [i \in new |-> m + Cardinality(UpTo(i))]
<1>1. Cardinality(new) \in Nat
    BY FS_CardinalityType
<1>2. ASSUME NEW i \in new
      PROVE  /\ UpTo(i) \in SUBSET new /\ IsFiniteSet(UpTo(i)) /\ i \in UpTo(i)
             /\ Cardinality(UpTo(i)) \in 1 .. Cardinality(new)
  <2>1. UpTo(i) \in SUBSET new /\ i \in UpTo(i) /\ UpTo(i) # {}
    OBVIOUS
  <2> HIDE DEF UpTo
  <2>2. IsFiniteSet(UpTo(i)) /\ Cardinality(UpTo(i)) <= Cardinality(new)
    BY <2>1, FS_Subset
  <2>3. Cardinality(UpTo(i)) \in Nat
    BY <2>2, FS_CardinalityType
  <2>4. Cardinality(UpTo(i)) # 0
    BY <2>1, <2>2, FS_EmptySet
  <2> QED BY <1>1, <2>1, <2>2, <2>3, <2>4
<1>3. ASSUME NEW i \in new, NEW j \in new, i < j
      PROVE  Cardinality(UpTo(i)) # Cardinality(UpTo(j))
  <2>1. UpTo(i) \in SUBSET UpTo(j) /\ j \notin UpTo(i)
    <3>1. i \in Nat /\ j \in Nat /\ \A k \in new : k \in Nat
      OBVIOUS
    <3>2. ASSUME NEW k \in new, k <= i PROVE k <= j
      BY <1>3, <3>1, <3>2
    <3>3. ~(j <= i)
      BY <1>3, <3>1
    <3> QED BY <3>2, <3>3
  <2>2. IsFiniteSet(UpTo(j)) /\ j \in UpTo(j)
    BY <1>2
  <2> HIDE DEF UpTo
  <2> QED BY <2>1, <2>2, FS_Subset
<1>4. \A i, j \in new : Cardinality(UpTo(i)) = Cardinality(UpTo(j)) => i = j
  <2> SUFFICES ASSUME NEW i \in new, NEW j \in new,
                      Cardinality(UpTo(i)) = Cardinality(UpTo(j)), i # j
               PROVE  FALSE
    OBVIOUS
  <2>1. i \in Nat /\ j \in Nat
    OBVIOUS
  <2>2. i < j \/ j < i
    BY <2>1
  <2> HIDE DEF UpTo
  <2> QED BY <1>3, <2>2
<1> HIDE DEF UpTo
<1>5. \A i \in new : m + Cardinality(UpTo(i)) \in Target
    BY <1>1, <1>2
<1>6. \A i, j \in new : m + Cardinality(UpTo(i)) = m + Cardinality(UpTo(j)) => i = j
  <2> SUFFICES ASSUME NEW i \in new, NEW j \in new,
                      m + Cardinality(UpTo(i)) = m + Cardinality(UpTo(j))
               PROVE  i = j
    OBVIOUS
  <2>1. Cardinality(UpTo(i)) \in Nat /\ Cardinality(UpTo(j)) \in Nat
    BY <1>1, <1>2
  <2>2. Cardinality(UpTo(i)) = Cardinality(UpTo(j))
    BY <2>1
  <2> QED BY <1>4, <2>2
<1>7. number \in Injection(new, Target)
    BY <1>5, <1>6 DEF Injection, IsInjective
<1>8. IsFiniteSet(Target) /\ Cardinality(Target) = Cardinality(new)
  <2>1. ASSUME NEW a \in Int, NEW b \in Int, b >= a - 1
        PROVE  IsFiniteSet(a .. b) /\ Cardinality(a .. b) = b - a + 1
    <3>1. /\ IsFiniteSet(a .. b)
          /\ Cardinality(a .. b) = IF a > b THEN 0 ELSE b - a + 1
      BY FS_Interval
    <3> QED BY <2>1, <3>1
  <2>2. m + 1 \in Int /\ m + Cardinality(new) \in Int
        /\ m + Cardinality(new) >= m + 1 - 1
    BY <1>1
  <2> DEFINE first == m + 1
             last == m + Cardinality(new)
  <2>3. first \in Int /\ last \in Int /\ last >= first - 1
    BY <2>2
  <2>4. last - first + 1 = Cardinality(new)
    BY <1>1
  <2> HIDE DEF first, last
  <2>5. IsFiniteSet(first .. last) /\ Cardinality(first .. last) = last - first + 1
    BY <2>1, <2>3
  <2>6. Target = first .. last
    BY DEF first, last
  <2> HIDE DEF Target
  <2> QED BY <2>4, <2>5, <2>6
<1>9. number \in Surjection(new, Target)
    BY <1>7, <1>8, FS_Injection
<1>10. \A k \in Target : \E i \in new : m + Cardinality(UpTo(i)) = k
    BY <1>9 DEF Surjection
<1> QED BY <1>5, <1>6, <1>10 DEF UpTo

------------------------------------------------------------------------------
\* Types.  The new objects of a search are numbered after those made before.
LEMMA NumbersTyped ==
    ASSUME ManagerTypeOK, NEW rows, rows \subseteq DOMAIN backends, CreateServiceObjects(rows)
    PROVE  /\ made' \in Nat /\ made <= made' /\ alive' \subseteq 1 .. made'
           /\ backends' \in Seq(Entry')
           /\ DOMAIN backends' = DOMAIN backends
           /\ \A i \in DOMAIN backends : backends'[i].source = backends[i].source
<1> DEFINE new == {i \in rows : Makes(i)}
           UpTo(i) == {j \in new : j <= i}
<1>1. DOMAIN backends = 1 .. Len(backends) /\ Len(backends) \in Nat
      /\ \A i \in DOMAIN backends : backends[i] \in Entry
    BY DEF ManagerTypeOK
<1>2. IsFiniteSet(DOMAIN backends)
    BY <1>1, FS_Interval
<1>3. IsFiniteSet(new) /\ Cardinality(new) \in Nat
    BY <1>2, FS_Subset, FS_CardinalityType
<1>4. ASSUME NEW i \in new
      PROVE  made + Cardinality(UpTo(i)) \in 1 .. made + Cardinality(new)
  <2>1. new \in SUBSET Nat /\ made \in Nat
    BY <1>1 DEF ManagerTypeOK
  <2> HIDE DEF new
  <2>2. made + Cardinality(UpTo(i)) \in made + 1 .. made + Cardinality(new)
    BY <1>3, <2>1, Numbering
  <2> HIDE DEF UpTo
  <2> QED BY <1>3, <2>1, <2>2
<1>5. /\ made' = made + Cardinality(new)
      /\ alive' = alive \cup (made + 1 .. made')
      /\ backends' = [i \in DOMAIN backends |->
                        IF i \in new
                        THEN [backends[i] EXCEPT !.object = made + Cardinality(UpTo(i))]
                        ELSE backends[i]]
    BY DEF CreateServiceObjects
<1> HIDE DEF new, UpTo
<1>6. made' \in Nat /\ made <= made' /\ alive' \subseteq 1 .. made'
    BY <1>3, <1>5 DEF ManagerTypeOK
<1>7. ASSUME NEW i \in DOMAIN backends
      PROVE  backends'[i] \in Entry' /\ backends'[i].source = backends[i].source
  <2>1. backends[i].source \in Source /\ backends[i].object \in 1 .. made \cup {None}
        /\ backends[i] = [source |-> backends[i].source, object |-> backends[i].object]
    BY <1>1 DEF Entry
  <2>2. 1 .. made \subseteq 1 .. made'
    BY <1>6 DEF ManagerTypeOK
  <2>3. CASE i \in new
    <3>1. backends'[i] = [source |-> backends[i].source,
                          object |-> made + Cardinality(UpTo(i))]
      BY <1>5, <2>1, <2>3
    <3>2. made + Cardinality(UpTo(i)) \in 1 .. made'
      BY <1>4, <1>5, <2>3
    <3> QED BY <2>1, <3>1, <3>2 DEF Entry
  <2>4. CASE i \notin new
    BY <1>5, <2>1, <2>2, <2>4 DEF Entry
  <2> QED BY <2>3, <2>4
<1>8. backends' \in Seq(Entry') /\ DOMAIN backends' = DOMAIN backends
  <2>1. backends' = [i \in 1 .. Len(backends) |-> backends'[i]]
    BY <1>1, <1>5
  <2> QED BY <1>1, <1>7, <2>1
<1> QED BY <1>6, <1>7, <1>8

LEMMA InitTyped == ManagerInit => ManagerTypeOK
<1> SUFFICES ASSUME ManagerInit PROVE ManagerTypeOK
    OBVIOUS
<1>1. todo \in Seq(Plugin)
    BY ManagerAssumption DEF ManagerInit, Files
<1>2. unloads \in 0 .. MaxUnloads /\ statics \in Seq(Static)
    BY ManagerAssumption DEF ManagerInit
<1>3. made \in Nat /\ alive \subseteq 1 .. made /\ backends \in Seq(Entry)
    BY DEF ManagerInit
<1>4. /\ interfaceNames \subseteq Interface /\ deleted \subseteq Object
      /\ seen \subseteq Plugin
    BY DEF ManagerInit
<1> QED BY <1>1, <1>2, <1>3, <1>4 DEF ManagerTypeOK

\* A backend that is listed has no object yet.
LEMMA UnloadedTyped ==
    ASSUME NEW s \in Source PROVE Unloaded(s) \in Entry
    BY DEF Unloaded, Entry

LEMMA RegisterTyped ==
    ASSUME ManagerTypeOK, NEW f \in Plugin, Register(f)
    PROVE  backends' \in Seq(Entry) /\ interfaceNames' \subseteq Interface
<1>1. f \in Source /\ Interfaces[f] \subseteq Interface /\ Unloaded(f) \in Entry
    BY ManagerAssumption, UnloadedTyped DEF Source
<1>2. CASE UNCHANGED <<backends, interfaceNames>>
    BY <1>2 DEF ManagerTypeOK
<1>3. CASE backends' = Listed(f) /\ interfaceNames' = interfaceNames \cup Interfaces[f]
    BY <1>1, <1>3 DEF Listed, ManagerTypeOK
<1>4. ASSUME NEW i \in RowsOf(f), backends' = [backends EXCEPT ![i] = Unloaded(f)],
             interfaceNames' = interfaceNames \cup Interfaces[f]
      PROVE  backends' \in Seq(Entry) /\ interfaceNames' \subseteq Interface
  <2>1. i \in DOMAIN backends /\ backends \in Seq(Entry)
    BY DEF RowsOf, ManagerTypeOK
  <2>2. [backends EXCEPT ![i] = Unloaded(f)] \in Seq(Entry)
    BY <1>1, <2>1
  <2> QED BY <1>1, <1>4, <2>2 DEF ManagerTypeOK
<1> QED BY <1>2, <1>3, <1>4 DEF Register

LEMMA NextTyped == ManagerTypeOK /\ [ManagerNext]_managerVars => ManagerTypeOK'
<1> SUFFICES ASSUME ManagerTypeOK, [ManagerNext]_managerVars PROVE ManagerTypeOK'
    OBVIOUS
<1>1. CASE SearchFile
  <2>1. Head(todo) \in Plugin /\ Tail(todo) \in Seq(Plugin)
    BY <1>1 DEF SearchFile, ManagerTypeOK
  <2>2. backends' \in Seq(Entry) /\ interfaceNames' \subseteq Interface
    BY <1>1, <2>1, RegisterTyped DEF SearchFile
  <2>3. /\ UNCHANGED <<statics, alive, made, deleted, unloads>>
        /\ seen' \subseteq Plugin /\ todo' \in Seq(Plugin)
    BY <1>1, <2>1 DEF SearchFile, ManagerTypeOK
  <2> QED BY <2>2, <2>3 DEF ManagerTypeOK, Entry
<1>2. CASE SearchStatic
  <2>1. Head(statics) \in Static /\ Tail(statics) \in Seq(Static)
    BY <1>2 DEF SearchStatic, ManagerTypeOK
  <2>2. Head(statics) \in Source /\ Interfaces[Head(statics)] \subseteq Interface
    BY <2>1, ManagerAssumption DEF Source
  <2>3. backends' \in Seq(Entry) /\ interfaceNames' \subseteq Interface
    <3>1. Unloaded(Head(statics)) \in Entry
      BY <2>2, UnloadedTyped
    <3>2. \/ UNCHANGED <<backends, interfaceNames>>
          \/ /\ backends' = Append(backends, Unloaded(Head(statics)))
             /\ interfaceNames' = interfaceNames \cup Interfaces[Head(statics)]
      BY <1>2 DEF SearchStatic, Listed
    <3>3. backends \in Seq(Entry) /\ interfaceNames \subseteq Interface
      BY DEF ManagerTypeOK
    <3>4. Append(backends, Unloaded(Head(statics))) \in Seq(Entry)
      BY <3>1, <3>3
    <3> QED BY <2>2, <3>2, <3>3, <3>4
  <2> QED BY <1>2, <2>1, <2>3 DEF SearchStatic, ManagerTypeOK, Entry
<1>3. ASSUME NEW o \in Object, RegisterService(o) PROVE ManagerTypeOK'
  <2>1. o \in Source /\ Interfaces[o] \subseteq Interface
    BY ManagerAssumption DEF Source
  <2>2. backends' \in Seq(Entry) /\ interfaceNames' \subseteq Interface
    BY <1>3, <2>1, UnloadedTyped DEF RegisterService, Listed, ManagerTypeOK
  <2> QED BY <1>3, <2>2 DEF RegisterService, ManagerTypeOK, Entry
<1>4. ASSUME NEW rows, rows \subseteq DOMAIN backends, CreateServiceObjects(rows)
      PROVE  ManagerTypeOK'
  <2>1. UNCHANGED <<todo, statics, interfaceNames, deleted, seen, unloads>>
    BY <1>4 DEF CreateServiceObjects
  <2> QED BY <1>4, <2>1, NumbersTyped DEF ManagerTypeOK
<1>5. CASE UnloadAllBackends
  <2>1. alive' \subseteq alive /\ deleted' \subseteq Object /\ made' = made
    BY <1>5 DEF UnloadAllBackends, Remaining, ManagerTypeOK
  <2>2. unloads' \in 0 .. MaxUnloads
    BY <1>5, ManagerAssumption DEF UnloadAllBackends, ManagerTypeOK
  <2>3. /\ backends' \in Seq(Entry') /\ interfaceNames' \subseteq Interface
        /\ seen' \subseteq Plugin /\ UNCHANGED <<todo, statics>>
    BY <1>5 DEF UnloadAllBackends
  <2> QED BY <2>1, <2>2, <2>3 DEF ManagerTypeOK
<1>6. CASE SearchPlugins
  <2>1. todo' \in Seq(Plugin) /\ statics' \in Seq(Static)
    BY <1>6, ManagerAssumption DEF SearchPlugins, Files
  <2> QED BY <1>6, <2>1 DEF SearchPlugins, ManagerTypeOK, Entry
<1>7. CASE UNCHANGED managerVars
    BY <1>7 DEF managerVars, ManagerTypeOK, Entry
<1>8. ASSUME NEW interface \in Interface, NEW flags \in Flags,
             FindServiceByInterface(interface, flags)
      PROVE  ManagerTypeOK'
    BY <1>4, <1>8 DEF FindServiceByInterface
<1>9. ASSUME NEW row \in DOMAIN backends, Data(row) PROVE ManagerTypeOK'
    BY <1>4, <1>9 DEF Data
<1> QED BY <1>1, <1>2, <1>3, <1>5, <1>6, <1>7, <1>8, <1>9 DEF ManagerNext

\* Every variable keeps its type: objects are numbered as they are made.
THEOREM ManagerTyped == ManagerSpec => []ManagerTypeOK
    BY InitTyped, NextTyped, PTL DEF ManagerSpec

------------------------------------------------------------------------------
(* Listing.                                                                   *)
Offered(list) == UNION {Interfaces[list[i].source] : i \in DOMAIN list}

\* The rows of a list that hold a build of the plugin f.
RowsIn(list, f) == {i \in DOMAIN list : /\ list[i].source \in Plugin
                                        /\ SamePlugin(f, list[i].source)}

\* One row for f, with a build that fits if one is among the files.
ListedOnce(list, files, f) ==
    \E i \in RowsIn(list, f) :
        /\ RowsIn(list, f) = {i}
        /\ (\E g \in files : SamePlugin(f, g) /\ Fits(g)) => Fits(list[i].source)

\* What is listed of a plugin was registered, with interfaces.
ListedInv ==
    /\ \A f \in seen : ListedOnce(backends, seen, f)
    /\ interfaceNames = Offered(backends)
    /\ \A i \in DOMAIN backends : backends[i].source \in Plugin => backends[i].source \in seen
    /\ \A f \in seen : Interfaces[f] # {}

\* An entry at the end offers its interfaces, too.
LEMMA AppendedOffers ==
    ASSUME ManagerTypeOK, NEW s \in Source
    PROVE  /\ Offered(Append(backends, Unloaded(s))) = Offered(backends) \cup Interfaces[s]
           /\ DOMAIN Append(backends, Unloaded(s)) = 1 .. Len(backends) + 1
           /\ \A i \in 1 .. Len(backends) : Append(backends, Unloaded(s))[i] = backends[i]
           /\ Append(backends, Unloaded(s))[Len(backends) + 1].source = s
<1> DEFINE list == Append(backends, Unloaded(s))
<1>1. /\ DOMAIN backends = 1 .. Len(backends) /\ Len(backends) \in Nat
      /\ DOMAIN list = 1 .. Len(backends) + 1
      /\ \A i \in 1 .. Len(backends) : list[i] = backends[i]
      /\ list[Len(backends) + 1] = Unloaded(s)
    BY DEF ManagerTypeOK
<1>2. list[Len(backends) + 1].source = s
    BY <1>1 DEF Unloaded
<1> HIDE DEF list
<1>3. DOMAIN list = DOMAIN backends \cup {Len(backends) + 1}
    BY <1>1
<1>4. Offered(list) = Offered(backends) \cup Interfaces[s]
  <2>1. ASSUME NEW x PROVE x \in Offered(list) <=> x \in Offered(backends) \cup Interfaces[s]
    <3>1. x \in Offered(list) <=> \E i \in DOMAIN list : x \in Interfaces[list[i].source]
      BY DEF Offered
    <3>2. x \in Offered(backends)
            <=> \E i \in DOMAIN backends : x \in Interfaces[backends[i].source]
      BY DEF Offered
    <3> QED BY <1>1, <1>2, <1>3, <3>1, <3>2
  <2> QED BY <2>1
<1> QED BY <1>1, <1>2, <1>4 DEF list

\* A new entry changes nothing for the plugins it is no build of.
LEMMA AppendedKeepsRows ==
    ASSUME ManagerTypeOK, NEW s \in Source, NEW f,
           ~(s \in Plugin /\ SamePlugin(f, s))
    PROVE  RowsIn(Append(backends, Unloaded(s)), f) = RowsOf(f)
<1>1. DOMAIN backends = 1 .. Len(backends) /\ Len(backends) \in Nat
    BY DEF ManagerTypeOK
<1> HIDE DEF SamePlugin
<1>2. 1 .. Len(backends) + 1 = (1 .. Len(backends)) \cup {Len(backends) + 1}
    BY <1>1
<1> QED BY <1>1, <1>2, AppendedOffers DEF RowsIn, RowsOf

\* A backend that is no plugin is appended.
LEMMA OtherAppended ==
    ASSUME ManagerTypeOK, ListedInv, NEW s \in Source \ Plugin, backends' = Listed(s),
           interfaceNames' = interfaceNames \cup Interfaces[s], seen' = seen
    PROVE  ListedInv'
<1> DEFINE list == Append(backends, Unloaded(s))
<1>1. backends' = list
    BY DEF Listed
<1>2. \A f \in seen : RowsIn(list, f) = RowsIn(backends, f)
    BY AppendedKeepsRows DEF RowsOf, RowsIn
<1>3. /\ DOMAIN backends = 1 .. Len(backends) /\ Len(backends) \in Nat
      /\ DOMAIN list = 1 .. Len(backends) + 1
      /\ \A i \in 1 .. Len(backends) : list[i] = backends[i]
      /\ list[Len(backends) + 1].source = s
      /\ Offered(list) = Offered(backends) \cup Interfaces[s]
    BY AppendedOffers DEF ManagerTypeOK
<1> HIDE DEF list
<1>4. \A f \in seen : ListedOnce(list, seen, f)
  <2> TAKE f \in seen
  <2>1. PICK i \in RowsIn(backends, f) :
            /\ RowsIn(backends, f) = {i}
            /\ (\E g \in seen : SamePlugin(f, g) /\ Fits(g)) => Fits(backends[i].source)
    BY DEF ListedInv, ListedOnce
  <2>2. list[i] = backends[i]
    BY <1>3, <2>1 DEF RowsIn
  <2> QED BY <1>2, <2>1, <2>2 DEF ListedOnce
<1>5. \A i \in DOMAIN list : list[i].source \in Plugin => list[i].source \in seen
  <2> TAKE i \in DOMAIN list
  <2>1. i \in DOMAIN backends \/ i = Len(backends) + 1
    BY <1>3
  <2> QED BY <1>3, <2>1 DEF ListedInv
<1>6. interfaceNames' = Offered(list)
    BY <1>3 DEF ListedInv
<1>7. \A f \in seen : Interfaces[f] # {}
    BY DEF ListedInv
<1> QED BY <1>1, <1>4, <1>5, <1>6, <1>7 DEF ListedInv

\* The first build of a plugin is appended.
LEMMA FirstBuild ==
    ASSUME ManagerTypeOK, ListedInv, NEW f \in Plugin, Interfaces[f] # {}, RowsOf(f) = {},
           backends' = Listed(f), interfaceNames' = interfaceNames \cup Interfaces[f],
           seen' = seen \cup {f}
    PROVE  ListedInv'
<1> DEFINE list == Append(backends, Unloaded(f))
<1>1. backends' = list /\ f \in Source
    BY DEF Listed, Source
<1>2. /\ DOMAIN backends = 1 .. Len(backends) /\ Len(backends) \in Nat
      /\ DOMAIN list = 1 .. Len(backends) + 1
      /\ \A i \in 1 .. Len(backends) : list[i] = backends[i]
      /\ list[Len(backends) + 1].source = f
      /\ Offered(list) = Offered(backends) \cup Interfaces[f]
    BY <1>1, AppendedOffers DEF ManagerTypeOK
<1>3. \A g \in seen : ~SamePlugin(f, g)
  <2> SUFFICES ASSUME NEW g \in seen, SamePlugin(f, g) PROVE FALSE
    OBVIOUS
  <2>1. PICK i : i \in RowsIn(backends, g)
    BY DEF ListedInv, ListedOnce
  <2>2. i \in RowsOf(f)
    BY <2>1 DEF RowsIn, RowsOf, SamePlugin
  <2> QED BY <2>2
<1>4. \A g \in seen : ~SamePlugin(g, f) /\ RowsIn(list, g) = RowsIn(backends, g)
    BY <1>1, <1>3, AppendedKeepsRows DEF RowsIn, RowsOf, SamePlugin
<1> HIDE DEF list
<1>5. \A g \in seen : ListedOnce(list, seen', g)
  <2> TAKE g \in seen
  <2>1. PICK i \in RowsIn(backends, g) :
            /\ RowsIn(backends, g) = {i}
            /\ (\E h \in seen : SamePlugin(g, h) /\ Fits(h)) => Fits(backends[i].source)
    BY DEF ListedInv, ListedOnce
  <2>2. list[i] = backends[i]
    BY <1>2, <2>1 DEF RowsIn
  <2> QED BY <1>4, <2>1, <2>2 DEF ListedOnce
<1>6. ListedOnce(list, seen', f)
  <2>1. RowsIn(list, f) = {Len(backends) + 1}
    <3>1. Len(backends) + 1 \in RowsIn(list, f)
      BY <1>2 DEF RowsIn, SamePlugin
    <3>2. ASSUME NEW i \in RowsIn(list, f) PROVE i = Len(backends) + 1
      <4>1. CASE i \in DOMAIN backends
        BY <1>2, <3>2, <4>1 DEF RowsIn, RowsOf
      <4> QED BY <1>2, <4>1 DEF RowsIn
    <3> QED BY <3>1, <3>2
  <2>2. (\E g \in seen' : SamePlugin(f, g) /\ Fits(g)) => Fits(f)
    BY <1>3
  <2> QED BY <1>2, <2>1, <2>2 DEF ListedOnce
<1>7. \A i \in DOMAIN list : list[i].source \in Plugin => list[i].source \in seen'
  <2> TAKE i \in DOMAIN list
  <2>1. i \in DOMAIN backends \/ i = Len(backends) + 1
    BY <1>2
  <2> QED BY <1>2, <2>1 DEF ListedInv
<1>8. interfaceNames' = Offered(list) /\ \A g \in seen' : Interfaces[g] # {}
    BY <1>2 DEF ListedInv
<1> QED BY <1>1, <1>5, <1>6, <1>7, <1>8 DEF ListedInv

\* Another build, or the same again: the one that fits is or gets listed.
LEMMA AnotherBuild ==
    ASSUME ManagerTypeOK, ListedInv, NEW f \in Plugin, Interfaces[f] # {}, NEW i \in RowsOf(f),
           IF backends[i].source # f /\ WrongBuild(backends[i].source)
           THEN /\ backends' = [backends EXCEPT ![i] = Unloaded(f)]
                /\ interfaceNames' = interfaceNames \cup Interfaces[f]
           ELSE UNCHANGED <<backends, interfaceNames>>,
           seen' = seen \cup {f}
    PROVE  ListedInv'
<1> DEFINE old == backends[i].source
<1>1. i \in DOMAIN backends /\ old \in Plugin /\ old \in seen /\ SamePlugin(f, old)
    BY DEF ListedInv, RowsOf
<1>2. \A g : SamePlugin(g, f) <=> SamePlugin(g, old)
    BY <1>1 DEF SamePlugin
<1>3. Interfaces[old] = Interfaces[f]
    BY <1>1, ManagerAssumption
<1>4. \A g : RowsIn(backends', g) = RowsIn(backends, g)
  <2> TAKE g
  <2>1. CASE backends' = [backends EXCEPT ![i] = Unloaded(f)]
    <3>1. /\ DOMAIN backends' = DOMAIN backends /\ backends'[i].source = f
          /\ \A j \in DOMAIN backends : j # i => backends'[j] = backends[j]
      BY <1>1, <2>1 DEF Unloaded
    <3> HIDE DEF SamePlugin
    <3> QED BY <1>1, <1>2, <3>1 DEF RowsIn
  <2>2. CASE backends' = backends
    BY <2>2
  <2> QED BY <2>1, <2>2
<1>5. \A j \in DOMAIN backends : j # i => backends'[j] = backends[j]
    BY <1>1
<1>6. DOMAIN backends' = DOMAIN backends
    BY <1>1
<1>7. \/ backends'[i].source = f /\ ~Fits(old)
      \/ backends' = backends /\ (old = f \/ Fits(old))
    BY <1>1 DEF WrongBuild, Unloaded
<1>8. ASSUME NEW g \in seen' PROVE ListedOnce(backends', seen', g)
  <2>1. CASE SamePlugin(g, f)
    <3>1. RowsIn(backends, g) = RowsIn(backends, old) /\ i \in RowsIn(backends, g)
      BY <1>1, <1>2, <2>1 DEF RowsIn, SamePlugin
    <3>2. RowsIn(backends, g) = {i}
      BY <1>1, <3>1 DEF ListedInv, ListedOnce
    <3>3. (\E h \in seen : SamePlugin(old, h) /\ Fits(h)) => Fits(old)
      BY <1>1, <3>1, <3>2 DEF ListedInv, ListedOnce
    <3>4. (\E h \in seen' : SamePlugin(g, h) /\ Fits(h)) => Fits(backends'[i].source)
      <4> SUFFICES ASSUME NEW h \in seen', SamePlugin(g, h), Fits(h)
                   PROVE  Fits(backends'[i].source)
        OBVIOUS
      <4>1. SamePlugin(old, h)
        BY <1>1, <2>1 DEF SamePlugin
      <4>2. h \in seen => Fits(old)
        BY <3>3, <4>1
      <4> QED BY <1>7, <4>2
    <3> QED BY <1>4, <3>1, <3>2, <3>4 DEF ListedOnce
  <2>2. CASE ~SamePlugin(g, f)
    <3>1. g \in seen
      BY <2>2 DEF SamePlugin
    <3>2. PICK j \in RowsIn(backends, g) :
            /\ RowsIn(backends, g) = {j}
            /\ (\E h \in seen : SamePlugin(g, h) /\ Fits(h)) => Fits(backends[j].source)
      BY <3>1 DEF ListedInv, ListedOnce
    <3>3. j # i /\ j \in DOMAIN backends
      BY <1>2, <2>2, <3>2 DEF RowsIn
    <3>4. backends'[j] = backends[j]
      BY <1>5, <3>3
    <3>5. \A h \in seen' : SamePlugin(g, h) => h \in seen
      BY <2>2
    <3> QED BY <1>4, <3>2, <3>4, <3>5 DEF ListedOnce
  <2> QED BY <2>1, <2>2
<1>9. \A j \in DOMAIN backends' : backends'[j].source \in Plugin => backends'[j].source \in seen'
    BY <1>5, <1>6, <1>7 DEF ListedInv
<1>10. Offered(backends') = Offered(backends) /\ interfaceNames' = interfaceNames
  <2>1. Interfaces[f] \subseteq Offered(backends)
    BY <1>1, <1>3 DEF Offered
  <2>2. interfaceNames' = interfaceNames
    BY <2>1 DEF ListedInv
  <2>3. \A j \in DOMAIN backends : Interfaces[backends'[j].source] = Interfaces[backends[j].source]
    BY <1>3, <1>5, <1>7
  <2>4. ASSUME NEW x PROVE x \in Offered(backends') <=> x \in Offered(backends)
    <3>1. x \in Offered(backends')
            <=> \E j \in DOMAIN backends' : x \in Interfaces[backends'[j].source]
      BY DEF Offered
    <3>2. x \in Offered(backends)
            <=> \E j \in DOMAIN backends : x \in Interfaces[backends[j].source]
      BY DEF Offered
    <3> QED BY <1>6, <2>3, <3>1, <3>2
  <2> QED BY <2>2, <2>4
<1>11. \A g \in seen' : Interfaces[g] # {}
    BY DEF ListedInv
<1> QED BY <1>8, <1>9, <1>10, <1>11 DEF ListedInv

\* Making objects leaves the list of sources as it is.
LEMMA MakingKeepsListed ==
    ASSUME ManagerTypeOK, ListedInv, NEW rows, rows \subseteq DOMAIN backends,
           CreateServiceObjects(rows)
    PROVE  ListedInv'
<1>1. /\ DOMAIN backends' = DOMAIN backends
      /\ \A i \in DOMAIN backends : backends'[i].source = backends[i].source
      /\ UNCHANGED <<interfaceNames, seen>>
    BY NumbersTyped DEF CreateServiceObjects
<1>2. \A f : RowsIn(backends', f) = RowsIn(backends, f)
    BY <1>1 DEF RowsIn
<1>3. \A f \in seen : ListedOnce(backends', seen, f)
  <2> TAKE f \in seen
  <2>1. PICK i \in RowsIn(backends, f) :
            /\ RowsIn(backends, f) = {i}
            /\ (\E g \in seen : SamePlugin(f, g) /\ Fits(g)) => Fits(backends[i].source)
    BY DEF ListedInv, ListedOnce
  <2>2. backends'[i].source = backends[i].source
    BY <1>1, <2>1 DEF RowsIn
  <2> QED BY <1>2, <2>1, <2>2 DEF ListedOnce
<1>4. Offered(backends') = Offered(backends)
  <2>1. ASSUME NEW x PROVE x \in Offered(backends') <=> x \in Offered(backends)
    <3>1. x \in Offered(backends')
            <=> \E j \in DOMAIN backends' : x \in Interfaces[backends'[j].source]
      BY DEF Offered
    <3>2. x \in Offered(backends)
            <=> \E j \in DOMAIN backends : x \in Interfaces[backends[j].source]
      BY DEF Offered
    <3> QED BY <1>1, <3>1, <3>2
  <2> QED BY <2>1
<1> QED BY <1>1, <1>3, <1>4 DEF ListedInv

LEMMA ListedStep ==
    ASSUME ManagerTypeOK, ListedInv, [ManagerNext]_managerVars
    PROVE  ListedInv'
<1>1. CASE SearchFile
  <2> DEFINE f == Head(todo)
  <2>1. f \in Plugin /\ Register(f)
        /\ seen' = IF Interfaces[f] = {} THEN seen ELSE seen \cup {f}
    BY <1>1 DEF SearchFile, ManagerTypeOK
  <2> HIDE DEF f
  <2>2. CASE Interfaces[f] = {}
    <3>1. UNCHANGED <<backends, interfaceNames, seen>>
      BY <2>1, <2>2 DEF Register
    <3> QED BY <3>1 DEF ListedInv
  <2>3. CASE Interfaces[f] # {}
    BY <2>1, <2>3, FirstBuild, AnotherBuild DEF Register
  <2> QED BY <2>2, <2>3
<1>2. CASE SearchStatic
  <2> DEFINE s == Head(statics)
  <2>1. s \in Source \ Plugin
    BY <1>2, ManagerAssumption DEF SearchStatic, ManagerTypeOK, Source
  <2>2. /\ seen' = seen
        /\ IF Interfaces[s] = {} THEN UNCHANGED <<backends, interfaceNames>>
           ELSE backends' = Listed(s) /\ interfaceNames' = interfaceNames \cup Interfaces[s]
    BY <1>2 DEF SearchStatic
  <2> HIDE DEF s
  <2>3. CASE Interfaces[s] = {}
    <3>1. UNCHANGED <<backends, interfaceNames, seen>>
      BY <2>2, <2>3
    <3> QED BY <3>1 DEF ListedInv
  <2>4. CASE Interfaces[s] # {}
    BY <2>1, <2>2, <2>4, OtherAppended
  <2> QED BY <2>3, <2>4
<1>3. ASSUME NEW o \in Object, RegisterService(o) PROVE ListedInv'
  <2>1. o \in Source \ Plugin
    BY ManagerAssumption DEF Source
  <2> QED BY <1>3, <2>1, OtherAppended DEF RegisterService
<1>4. CASE UnloadAllBackends
  <2>1. backends' = <<>> /\ interfaceNames' = {} /\ seen' = {}
    BY <1>4 DEF UnloadAllBackends
  <2>2. Offered(<<>>) = {}
    BY DEF Offered
  <2> QED BY <2>1, <2>2 DEF ListedInv
<1>5. ASSUME NEW interface \in Interface, NEW flags \in Flags,
             FindServiceByInterface(interface, flags)
      PROVE  ListedInv'
    BY <1>5, MakingKeepsListed DEF FindServiceByInterface
<1>6. ASSUME NEW row \in DOMAIN backends, Data(row) PROVE ListedInv'
    BY <1>6, MakingKeepsListed DEF Data
<1>7. CASE UNCHANGED <<backends, interfaceNames, seen>>
    BY <1>7 DEF ListedInv
<1> QED BY <1>1, <1>2, <1>3, <1>4, <1>5, <1>6, <1>7 DEF ManagerNext, SearchPlugins, managerVars

(* Whatever files the plugin directories hold and in whatever order they     *)
(* are listed, searched again or loaded: no plugin is listed twice, and one  *)
(* that has a build that fits QtIviCore is listed in such a build.           *)
THEOREM RightBuilds == ManagerSpec => []RightBuildListed
<1>1. ManagerInit => ListedInv
    BY DEF ManagerInit, ListedInv, Offered
<1>2. ManagerTypeOK /\ ListedInv => RightBuildListed
  <2> SUFFICES ASSUME ManagerTypeOK, ListedInv PROVE RightBuildListed
      OBVIOUS
  <2>1. interfaceNames = UNION {Interfaces[backends[i].source] : i \in DOMAIN backends}
      BY DEF ListedInv, Offered
  <2>2. ASSUME NEW f \in seen
        PROVE  /\ \A i, j \in RowsOf(f) : i = j
               /\ Fits(f) => \E i \in RowsOf(f) : Fits(backends[i].source)
    <3>1. RowsOf(f) = RowsIn(backends, f)
        BY DEF RowsOf, RowsIn
    <3>2. PICK i \in RowsIn(backends, f) :
              /\ RowsIn(backends, f) = {i}
              /\ (\E g \in seen : SamePlugin(f, g) /\ Fits(g)) => Fits(backends[i].source)
        BY DEF ListedInv, ListedOnce
    <3>3. SamePlugin(f, f)
        BY DEF SamePlugin
    <3> QED BY <3>1, <3>2, <3>3
  <2> QED BY <2>1, <2>2 DEF RightBuildListed
<1> QED BY <1>1, <1>2, ListedStep, ManagerTyped, PTL DEF ManagerSpec

------------------------------------------------------------------------------
\* Objects.  Until the search is over, when nobody can ask for one, there are none.
NoneMade == \A i \in DOMAIN backends : backends[i].object = None

ObjectsInv == OneObjectEach /\ (~Searched => NoneMade)

\* A list that grows by, or has an entry replaced by, an unloaded backend
LEMMA StillNone ==
    ASSUME ManagerTypeOK, NoneMade, NEW f \in Source,
           \/ backends' = Listed(f)
           \/ \E i \in DOMAIN backends : backends' = [backends EXCEPT ![i] = Unloaded(f)]
           \/ UNCHANGED backends
    PROVE  NoneMade'
<1>1. backends \in Seq(Entry) /\ Unloaded(f).object = None
    BY DEF ManagerTypeOK, Unloaded
<1>2. CASE backends' = Listed(f)
  <2>1. DOMAIN backends' = 1 .. Len(backends) + 1
        /\ \A i \in DOMAIN backends' :
              backends'[i] = IF i = Len(backends) + 1 THEN Unloaded(f) ELSE backends[i]
    BY <1>1, <1>2, UnloadedTyped DEF Listed
  <2> QED BY <1>1, <2>1 DEF NoneMade
<1>3. ASSUME NEW i \in DOMAIN backends, backends' = [backends EXCEPT ![i] = Unloaded(f)]
      PROVE  NoneMade'
  <2>1. DOMAIN backends' = DOMAIN backends
        /\ \A j \in DOMAIN backends' :
              backends'[j] = IF j = i THEN Unloaded(f) ELSE backends[j]
    BY <1>1, <1>3
  <2> QED BY <1>1, <2>1 DEF NoneMade
<1> QED BY <1>2, <1>3 DEF NoneMade

LEMMA NoneMadeNoneAlive ==
    OneObjectEach /\ NoneMade => alive = {}
    BY DEF OneObjectEach, NoneMade

LEMMA NoneAliveNoneMade ==
    alive = {} /\ NoneMade => OneObjectEach
    BY DEF OneObjectEach, NoneMade

\* The objects of a search go to the rows that had none, one to each.
LEMMA MakingKeepsOneEach ==
    ASSUME ManagerTypeOK, OneObjectEach, NEW rows, rows \subseteq DOMAIN backends,
           CreateServiceObjects(rows)
    PROVE  OneObjectEach'
<1> DEFINE new == {i \in rows : Makes(i)}
           Number(i) == made + Cardinality({j \in new : j <= i})
<1>1. DOMAIN backends = 1 .. Len(backends) /\ Len(backends) \in Nat
      /\ \A i \in DOMAIN backends : backends[i] \in Entry
    BY DEF ManagerTypeOK
<1>2. IsFiniteSet(DOMAIN backends) /\ new \in SUBSET DOMAIN backends
    BY <1>1, FS_Interval
<1>3. \A i \in new : backends[i].object = None
    BY DEF Makes
<1>4. /\ made' = made + Cardinality(new)
      /\ alive' = alive \cup (made + 1 .. made')
      /\ backends' = [i \in DOMAIN backends |->
                        IF i \in new THEN [backends[i] EXCEPT !.object = Number(i)]
                                     ELSE backends[i]]
    BY DEF CreateServiceObjects
<1>5. new \in SUBSET Nat /\ made \in Nat
    BY <1>1, <1>2 DEF ManagerTypeOK
<1> HIDE DEF new
<1>6. IsFiniteSet(new) /\ Cardinality(new) \in Nat
    BY <1>2, FS_Subset, FS_CardinalityType
<1>7. /\ \A i \in new : Number(i) \in made + 1 .. made'
      /\ \A i, j \in new : Number(i) = Number(j) => i = j
      /\ \A k \in made + 1 .. made' : \E i \in new : Number(i) = k
    BY <1>4, <1>5, <1>6, Numbering
<1> HIDE DEF Number
<1>8. /\ DOMAIN backends' = DOMAIN backends
      /\ \A i \in new : backends'[i].object = Number(i)
      /\ \A i \in DOMAIN backends \ new : backends'[i].object = backends[i].object
  <2>1. \A i \in DOMAIN backends :
            backends[i] = [source |-> backends[i].source, object |-> backends[i].object]
    BY <1>1 DEF Entry
  <2> QED BY <1>2, <1>4, <2>1
<1>9. \A i \in DOMAIN backends : backends[i].object \in 1 .. made \cup {None}
    BY <1>1 DEF Entry
<1>10. None \notin made + 1 .. made' /\ (1 .. made) \cap (made + 1 .. made') = {}
    BY <1>4, <1>5, <1>6, ManagerAssumption
<1>11. alive' = {backends'[i].object : i \in DOMAIN backends'} \ {None}
  <2>1. ASSUME NEW k \in alive'
        PROVE  \E i \in DOMAIN backends' : backends'[i].object = k /\ k # None
    <3>1. CASE k \in alive
      <4>1. PICK i \in DOMAIN backends : backends[i].object = k /\ k # None
        BY <3>1 DEF OneObjectEach
      <4> QED BY <1>3, <1>8, <4>1
    <3>2. CASE k \in made + 1 .. made'
      <4>1. PICK i \in new : Number(i) = k
        BY <1>7, <3>2
      <4> QED BY <1>2, <1>8, <1>10, <3>2, <4>1
    <3> QED BY <1>4, <3>1, <3>2
  <2>2. ASSUME NEW i \in DOMAIN backends', backends'[i].object # None
        PROVE  backends'[i].object \in alive'
    <3>1. CASE i \in new
      <4>1. backends'[i].object = Number(i) /\ Number(i) \in made + 1 .. made'
        BY <1>7, <1>8, <3>1
      <4> QED BY <1>4, <4>1
    <3>2. CASE i \notin new
      <4>1. i \in DOMAIN backends /\ backends'[i].object = backends[i].object
        BY <1>8, <3>2
      <4>2. backends[i].object \in alive
        BY <2>2, <4>1 DEF OneObjectEach
      <4> QED BY <1>4, <4>1, <4>2
    <3> QED BY <3>1, <3>2
  <2> QED BY <2>1, <2>2
<1>12. ASSUME NEW i \in DOMAIN backends', NEW j \in DOMAIN backends',
              backends'[i].object # None, backends'[i].object = backends'[j].object
       PROVE  i = j
  <2>1. CASE i \in new /\ j \in new
    BY <1>7, <1>8, <1>12, <2>1
  <2>2. CASE i \notin new /\ j \notin new
    BY <1>8, <1>12, <2>2 DEF OneObjectEach
  <2>3. ASSUME NEW a \in new, NEW b \in DOMAIN backends \ new
        PROVE  backends'[a].object # backends'[b].object
    <3>1. backends'[a].object \in made + 1 .. made'
      BY <1>7, <1>8
    <3>2. backends'[b].object \in 1 .. made \cup {None}
      BY <1>8, <1>9
    <3> QED BY <1>10, <3>1, <3>2
  <2> QED BY <1>8, <1>12, <2>1, <2>2, <2>3
<1> QED BY <1>11, <1>12 DEF OneObjectEach

LEMMA ObjectsStep ==
    ASSUME ManagerTypeOK, ObjectsInv, [ManagerNext]_managerVars
    PROVE  ObjectsInv'
<1> USE DEF ObjectsInv
<1>1. CASE SearchFile
  <2>1. NoneMade /\ alive = {} /\ alive' = alive
    BY <1>1, NoneMadeNoneAlive DEF SearchFile, Searched
  <2>2. Head(todo) \in Source
    BY <1>1 DEF SearchFile, ManagerTypeOK, Source
  <2>3. \/ backends' = Listed(Head(todo))
        \/ \E i \in DOMAIN backends :
              backends' = [backends EXCEPT ![i] = Unloaded(Head(todo))]
        \/ UNCHANGED backends
    BY <1>1 DEF SearchFile, Register, RowsOf
  <2>4. NoneMade'
    BY <2>1, <2>2, <2>3, StillNone
  <2> QED BY <2>1, <2>4, NoneAliveNoneMade DEF OneObjectEach, NoneMade
<1>2. CASE SearchStatic
  <2>1. NoneMade /\ alive = {} /\ alive' = alive
    BY <1>2, NoneMadeNoneAlive DEF SearchStatic, Searched
  <2>2. Head(statics) \in Source
    BY <1>2 DEF SearchStatic, ManagerTypeOK, Source
  <2>3. backends' = Listed(Head(statics)) \/ UNCHANGED backends
    BY <1>2 DEF SearchStatic
  <2>4. NoneMade'
    BY <2>1, <2>2, <2>3, StillNone
  <2> QED BY <2>1, <2>4, NoneAliveNoneMade DEF OneObjectEach, NoneMade
<1>3. CASE SearchPlugins
  <2>1. backends' = <<>> /\ alive' = alive /\ NoneMade
    BY <1>3 DEF SearchPlugins, NoneMade
  <2> QED BY <2>1, NoneMadeNoneAlive DEF OneObjectEach, NoneMade
<1>4. ASSUME NEW o \in Object, RegisterService(o)
      PROVE  ObjectsInv'
  <2>1. /\ backends' = Listed(o) /\ alive' = alive /\ Searched /\ Searched'
        /\ o \in Source
    BY <1>4 DEF RegisterService, Searched, Source
  <2>2. /\ DOMAIN backends = 1 .. Len(backends) /\ Len(backends) \in Nat
        /\ DOMAIN backends' = 1 .. Len(backends) + 1
        /\ \A i \in DOMAIN backends : backends'[i] = backends[i]
        /\ backends'[Len(backends) + 1].object = None
    BY <2>1, UnloadedTyped DEF Listed, ManagerTypeOK, Unloaded
  <2>3. \A i \in DOMAIN backends' : i \in DOMAIN backends \/ i = Len(backends) + 1
    BY <2>2
  <2>4. DOMAIN backends \subseteq DOMAIN backends'
    BY <2>2
  <2>5. {backends'[i].object : i \in DOMAIN backends'} \ {None}
            = {backends[i].object : i \in DOMAIN backends} \ {None}
    BY <2>2, <2>3, <2>4
  <2> QED BY <2>1, <2>2, <2>3, <2>5 DEF OneObjectEach
<1>5. ASSUME NEW interface \in Interface, NEW flags \in Flags,
             FindServiceByInterface(interface, flags)
      PROVE  ObjectsInv'
  <2>1. Searched /\ Searched'
    BY <1>5 DEF FindServiceByInterface, CreateServiceObjects, Searched
  <2> QED BY <1>5, <2>1, MakingKeepsOneEach DEF FindServiceByInterface
<1>6. ASSUME NEW row \in DOMAIN backends, Data(row)
      PROVE  ObjectsInv'
  <2>1. Searched /\ Searched'
    BY <1>6 DEF Data, CreateServiceObjects, Searched
  <2> QED BY <1>6, <2>1, MakingKeepsOneEach DEF Data
<1>7. CASE UnloadAllBackends
    BY <1>7 DEF UnloadAllBackends, Remaining, OneObjectEach, NoneMade
<1>8. CASE UNCHANGED managerVars
    BY <1>8 DEF managerVars, OneObjectEach, NoneMade, Searched
<1> QED BY <1>1, <1>2, <1>3, <1>4, <1>5, <1>6, <1>7, <1>8 DEF ManagerNext

(* The service objects that exist are those of the listed backends, one for  *)
(* each, however searches, registrations and unloadAllBackends() follow each *)
(* other: replacing a build (addBackend()) leaks none, since it happens only *)
(* before the first object is made.                                          *)
THEOREM OneObjectForEach == ManagerSpec => []OneObjectEach
<1>1. ManagerInit => ObjectsInv
    BY DEF ManagerInit, ObjectsInv, OneObjectEach, NoneMade
<1>2. ManagerTypeOK /\ ObjectsInv /\ [ManagerNext]_managerVars => ObjectsInv'
    BY ObjectsStep
<1>3. ObjectsInv => OneObjectEach
    BY DEF ObjectsInv
<1> QED BY <1>1, <1>2, <1>3, ManagerTyped, PTL DEF ManagerSpec

------------------------------------------------------------------------------
(***************************************************************************)
(* Zoned features.                                                         *)
(***************************************************************************)

\* A getter call on its way to the server, and its answer on the way back.
Asked(z, p) == Get(<<z, p>>) \in Range(requests)

\* What the server sent and the client has not handled.
Coming == Range(finished) \cup Range(replies)

Answered(z, p) ==
    \E r \in Coming : r.signal = "value" /\ r.zone = z /\ r.property = p

OnTheWay(z, p) == Asked(z, p) \/ Answered(z, p)

ZonesUnderWay ==
    \/ \E r \in Range(requests) : r.call = "zones"
    \/ \E r \in Coming : r.signal = "zones"

\* The zone objects have been asked to synchronise.
Started == synced \/ \E z \in AllZones, p \in Property : OnTheWay(z, p)

(* Without a connection nothing is on it, and who is synchronised has become *)
(* so by an answer of the last one.                                          *)
Offline ==
    /\ link # "Valid" => requests = <<>> /\ replies = <<>>
    /\ link # "Valid" /\ synced => lateSync
    /\ lateSync => synced

\* While the connection is up the synchronisation is under way or complete.
Going == link = "Valid" => ZonesUnderWay \/ Started

\* The backend and its features know the zones the backend was told of.
ZonesKnown ==
    /\ General \in zoneMap /\ zones \subseteq zoneMap
    /\ \A f \in attached : ZoneOf[f] = General => zones \subseteq children[f]
    /\ link = "Valid" => \A r \in Coming : r.signal = "zones" => r.zones = serverZones
    /\ Started /\ link = "Valid" /\ ~lateSync => zones = serverZones

(* A property a zone object still misses is asked for or answered while the  *)
(* connection is up, and one it has came from the server.                    *)
SyncComes ==
    Started =>
        \A z \in zoneMap, p \in Property :
            /\ link = "Valid" /\ p \in toSync[z] => OnTheWay(z, p)
            /\ p \notin toSync[z] => cached[z][p] # Default

NothingMissing == synced => \A z \in zoneMap : toSync[z] = {}

SyncedShown ==
    synced => \A f \in attached :
        /\ f \in initialized
        /\ \A z \in Views(f, children) \cap zoneMap, p \in Property :
                shown[f][z][p] = cached[z][p]

SyncInv == Offline /\ Going /\ ZonesKnown /\ SyncComes /\ NothingMissing /\ SyncedShown

\* A reply that will change what the client holds of a property.
About(r, z, p) == r.signal \in {"value", "changed"} /\ r.zone = z /\ r.property = p

\* The last reply about a property tells what the server has.
Tell(rs, values) ==
    \A z \in AllZones, p \in Property, i \in DOMAIN rs :
        About(rs[i], z, p) =>
            \/ rs[i].value = values[z][p]
            \/ \E j \in DOMAIN rs : j > i /\ About(rs[j], z, p)

LastTells == Tell(replies, value)

(* What the client takes for a property's value is going to be corrected, or *)
(* is one of the excepted.                                                   *)
Corrected(z, p) ==
    \/ Asked(z, p)
    \/ <<z, p>> \in crossed
    \/ \E r \in Range(replies) : About(r, z, p)

\* The last answer that waits tells what the server has, or is corrected.
FinishedTells ==
    link = "Valid" =>
        \A z \in zoneMap, p \in Property, i \in DOMAIN finished :
            About(finished[i], z, p) =>
                \/ finished[i].value = value[z][p]
                \/ \E j \in DOMAIN finished : j > i /\ About(finished[j], z, p)
                \/ Corrected(z, p)

\* What no answer that waits is going to change is right, or is corrected.
NothingStale ==
    Started /\ link = "Valid" /\ ~lateSync =>
        \A z \in zoneMap, p \in Property :
            \/ cached[z][p] = value[z][p]
            \/ \E r \in Range(finished) : About(r, z, p)
            \/ Corrected(z, p)

MirrorInv == LastTells /\ FinishedTells /\ NothingStale

------------------------------------------------------------------------------
(* What is in a queue after a step.                                          *)

\* What is in a queue without its head.
LEMMA TailAt ==
    ASSUME NEW S, NEW s \in Seq(S), s # <<>>
    PROVE  /\ 1 \in DOMAIN s /\ Head(s) = s[1] /\ Head(s) \in S
           /\ Tail(s) \in Seq(S)
           /\ \A i \in DOMAIN Tail(s) :
                 i \in Nat /\ i > 0 /\ i + 1 \in DOMAIN s /\ Tail(s)[i] = s[i + 1]
           /\ \A i \in DOMAIN s :
                 /\ i \in Nat /\ i > 0
                 /\ i = 1 \/ (i - 1 \in DOMAIN Tail(s) /\ Tail(s)[i - 1] = s[i])
<1>1. /\ Len(s) \in Nat \ {0} /\ DOMAIN s = 1..Len(s) /\ Head(s) = s[1]
      /\ Tail(s) \in Seq(S) /\ Len(Tail(s)) = Len(s) - 1
      /\ \A i \in 1..Len(Tail(s)) : Tail(s)[i] = s[i + 1]
    BY EmptySeq, LenProperties, HeadTailProperties
<1>2. DOMAIN Tail(s) = 1..Len(s) - 1
    BY <1>1, LenProperties
<1>3. s[1] \in S
    BY <1>1, ElementOfSeq
<1> QED BY <1>1, <1>2, <1>3

\* What is in a queue with one more entry.
LEMMA AppendAt ==
    ASSUME NEW S, NEW s \in Seq(S), NEW e \in S
    PROVE  /\ Append(s, e) \in Seq(S)
           /\ \A i \in DOMAIN s : i \in Nat /\ i < Len(s) + 1
                 /\ i \in DOMAIN Append(s, e) /\ Append(s, e)[i] = s[i]
           /\ \A i \in DOMAIN Append(s, e) :
                 \/ i \in DOMAIN s /\ Append(s, e)[i] = s[i]
                 \/ i = Len(s) + 1 /\ Append(s, e)[i] = e
           /\ Len(s) + 1 \in DOMAIN Append(s, e) /\ Append(s, e)[Len(s) + 1] = e
<1>1. /\ Len(s) \in Nat /\ DOMAIN s = 1..Len(s)
    BY LenProperties
<1>2. /\ Append(s, e) \in Seq(S) /\ Len(Append(s, e)) = Len(s) + 1
      /\ \A i \in 1..Len(s) : Append(s, e)[i] = s[i]
      /\ Append(s, e)[Len(s) + 1] = e
    BY AppendProperties
<1>3. DOMAIN Append(s, e) = 1..Len(s) + 1
    BY <1>2, LenProperties
<1> QED BY <1>1, <1>2, <1>3

\* What is in a queue that another one is added to.
LEMMA ConcatAt ==
    ASSUME NEW S, NEW s \in Seq(S), NEW t \in Seq(S)
    PROVE  /\ s \o t \in Seq(S)
           /\ \A i \in DOMAIN s : i \in DOMAIN (s \o t) /\ (s \o t)[i] = s[i]
           /\ \A i \in DOMAIN t : \E j \in DOMAIN (s \o t) : (s \o t)[j] = t[i]
           /\ \A i \in DOMAIN (s \o t) :
                 \/ i \in DOMAIN s /\ (s \o t)[i] = s[i]
                 \/ \E j \in DOMAIN t : (s \o t)[i] = t[j]
<1>1. /\ Len(s) \in Nat /\ DOMAIN s = 1..Len(s)
      /\ Len(t) \in Nat /\ DOMAIN t = 1..Len(t)
    BY LenProperties
<1>2. /\ s \o t \in Seq(S) /\ Len(s \o t) = Len(s) + Len(t)
      /\ \A i \in 1..Len(s) + Len(t) :
            (s \o t)[i] = IF i <= Len(s) THEN s[i] ELSE t[i - Len(s)]
    BY ConcatProperties
<1>3. DOMAIN (s \o t) = 1..Len(s) + Len(t)
    BY <1>2, LenProperties
<1>4. ASSUME NEW i \in DOMAIN t
      PROVE  \E j \in DOMAIN (s \o t) : (s \o t)[j] = t[i]
  <2>1. /\ i + Len(s) \in 1..Len(s) + Len(t) /\ ~(i + Len(s) <= Len(s))
        /\ (i + Len(s)) - Len(s) = i
      BY <1>1
  <2> QED BY <1>2, <1>3, <2>1
<1>5. ASSUME NEW i \in DOMAIN (s \o t), i \notin DOMAIN s
      PROVE  \E j \in DOMAIN t : (s \o t)[i] = t[j]
  <2>1. i - Len(s) \in DOMAIN t /\ ~(i <= Len(s))
      BY <1>1, <1>3, <1>5
  <2> QED BY <1>2, <1>3, <2>1
<1> QED BY <1>1, <1>2, <1>3, <1>4, <1>5

------------------------------------------------------------------------------
(* Types.                                                                    *)

\* The fields of the calls and of the signals.
LEMMA CallFields ==
    ASSUME NEW r \in Call
    PROVE  /\ r.call \in {"zones", "get", "set"}
           /\ r.call \in {"get", "set"} => r.zone \in AllZones /\ r.property \in Property
           /\ r.call = "set" => r.value \in Values
    BY DEF Call

LEMMA SignalFields ==
    ASSUME NEW r \in Signal
    PROVE  /\ r.signal \in {"zones", "value", "changed"}
           /\ r.signal = "zones" => r.zones \in SUBSET Zone
           /\ r.signal \in {"value", "changed"} =>
                 r.zone \in AllZones /\ r.property \in Property /\ r.value \in Values
    BY DEF Signal, Answer

\* The getter calls of sync() are calls, one for every property of every zone.
LEMMA GettersTyped ==
    ASSUME NEW known \in SUBSET AllZones
    PROVE  LET calls == GettersOf(known)
               gets == [i \in DOMAIN calls |-> Get(calls[i])]
           IN  /\ gets \in Seq(Call)
               /\ \A i \in DOMAIN gets : gets[i].call = "get"
               /\ \A z \in known, p \in Property :
                     \E i \in DOMAIN gets : gets[i] = Get(<<z, p>>)
<1> DEFINE calls == Getters[known]
           gets == [i \in DOMAIN calls |-> Get(calls[i])]
<1>1. calls \in Seq(AllZones \X Property)
    BY ZonedAssumption
<1>2. Len(calls) \in Nat /\ DOMAIN calls = 1..Len(calls)
    BY <1>1, LenProperties
<1>3. \A g \in AllZones \X Property : Get(g) \in Call
    BY DEF Get, Call
<1>4. \A i \in DOMAIN calls : calls[i] \in AllZones \X Property
    BY <1>1, ElementOfSeq, <1>2
<1>5. gets \in [1..Len(calls) -> Call]
    BY <1>2, <1>3, <1>4
<1>6. gets \in Seq(Call)
    BY <1>2, <1>5, SeqDef
<1>7. ASSUME NEW z \in known, NEW p \in Property
      PROVE  \E i \in DOMAIN gets : gets[i] = Get(<<z, p>>)
  <2>1. <<z, p>> \in AllZones \X Property /\ <<z, p>>[1] = z
      OBVIOUS
  <2>2. PICK i \in DOMAIN calls : calls[i] = <<z, p>>
      BY <2>1, ZonedAssumption
  <2> QED BY <2>2
<1>8. \A i \in DOMAIN gets : gets[i].call = "get"
    BY DEF Get
<1> HIDE DEF gets
<1>9. gets = [i \in DOMAIN GettersOf(known) |-> Get(GettersOf(known)[i])]
    BY DEF gets, GettersOf
<1> QED BY <1>6, <1>7, <1>8, <1>9

\* The types hold at the start.
LEMMA TypeInit == Init => TypeOK
<1> SUFFICES ASSUME Init PROVE TypeOK
    OBVIOUS
<1>1. <<>> \in Seq(Call) /\ <<>> \in Seq(Signal) /\ <<>> \in Seq(Answer)
    BY EmptySeq
<1>2. Initial \in Values /\ Default \in Known /\ General \in AllZones
    BY ZonedAssumption DEF Known, AllZones
<1>3. 0 \in 0 .. MaxEvents
    BY ZonedAssumption
<1> QED BY <1>1, <1>2, <1>3 DEF Init, TypeOK

\* What the server has is typed, whoever asks it for its zones.
LEMMA RecreatedTyped ==
    ASSUME TypeOK
    PROVE  Recreated \in [AllZones -> [Property -> Values]]
<1>1. Initial \in Values /\ General \in AllZones
    BY ZonedAssumption DEF AllZones
<1>2. NewZones \in [AllZones -> [Property -> Values]]
    BY <1>1 DEF NewZones
<1> QED BY <1>1, <1>2 DEF Recreated, TypeOK

\* What the features show after an announcement comes from the zone objects.
LEMMA AnnounceTyped ==
    ASSUME NEW fs \in SUBSET Feature, NEW kids, NEW known,
           NEW c \in [AllZones -> [Property -> Known]],
           shown \in [Feature -> [AllZones -> [Property -> Known]]],
           Announce(fs, kids, c, known)
    PROVE  /\ shown' \in [Feature -> [AllZones -> [Property -> Known]]]
           /\ initialized' = fs
    BY DEF Announce

\* The zone features are of zones that exist.
LEMMA WithZonesTyped ==
    ASSUME TypeOK, NEW f \in Feature, NEW zs \in SUBSET Zone
    PROVE  /\ WithZones(f, zs) \in SUBSET Zone
           /\ ZoneOf[f] = General => zs \subseteq WithZones(f, zs)
    BY DEF TypeOK, WithZones

\* What a step takes from a queue.
LEMMA RequestTaken ==
    ASSUME TypeOK, NEW call, Requested(call)
    PROVE  /\ Head(requests) \in Call /\ Head(requests).call = call
           /\ requests' \in Seq(Call)
    BY TailAt DEF TypeOK, Requested

LEMMA ReplyTaken ==
    ASSUME TypeOK, replies # <<>>
    PROVE  Head(replies) \in Signal /\ Tail(replies) \in Seq(Signal)
    BY TailAt DEF TypeOK

LEMMA AnswerTaken ==
    ASSUME TypeOK, NEW signal, Finished(signal)
    PROVE  /\ Head(finished) \in Signal /\ Head(finished).signal = signal
           /\ finished' \in Seq(Answer)
<1>1. Head(finished) \in Answer /\ finished' \in Seq(Answer)
    BY TailAt DEF TypeOK, Finished
<1> QED BY <1>1 DEF Finished, Signal

\* An event is counted within the bound.
LEMMA CountTyped ==
    ASSUME TypeOK, Counted
    PROVE  events' \in 0 .. MaxEvents
    BY ZonedAssumption DEF TypeOK, Counted

LEMMA SentTyped ==
    ASSUME TypeOK, NEW z \in AllZones, NEW p \in Property, NEW v \in Values
    PROVE  /\ Changed(z, p, v) \in Signal
           /\ Append(replies, Changed(z, p, v)) \in Seq(Signal)
           /\ Sent(Changed(z, p, v)) \in Seq(Signal)
<1>1. Changed(z, p, v) \in Signal
    BY DEF Changed, Signal
<1> QED BY <1>1, AppendAt DEF TypeOK, Sent

\* Every step keeps the types.
LEMMA TypeNext == TypeOK /\ [Next]_vars => TypeOK'
<1> SUFFICES ASSUME TypeOK, [Next]_vars PROVE TypeOK'
    OBVIOUS
<1> USE DEF serverVars, linkVars, backendVars, featureVars, history
<1>1. ASSUME NEW f \in Feature, Attach(f) PROVE TypeOK'
  <2>1. /\ attached' \in SUBSET Feature
        /\ children' \in [Feature -> SUBSET Zone]
        /\ link' \in {"None", "Suspect", "Valid"}
      BY <1>1, WithZonesTyped DEF TypeOK, Attach
  <2>2. CASE synced
    <3>1. Announce(attached', children', cached, zoneMap)
        BY <1>1, <2>2 DEF Attach, AnswersAtOnce
    <3>2. /\ shown' \in [Feature -> [AllZones -> [Property -> Known]]]
          /\ initialized' \subseteq attached'
        BY <2>1, <3>1, AnnounceTyped DEF TypeOK
    <3> QED BY <1>1, <2>1, <3>2 DEF TypeOK, Attach
  <2>3. CASE ~synced
    <3>1. shown' = shown /\ initialized' = initialized /\ attached \subseteq attached'
        BY <1>1, <2>3 DEF Attach, AnswersAtOnce
    <3> QED BY <1>1, <2>1, <3>1 DEF TypeOK, Attach
  <2> QED BY <2>2, <2>3
<1>2. ASSUME NEW f \in Feature, Detach(f) PROVE TypeOK'
  <2>1. Cleared(f) \in [AllZones -> [Property -> Known]]
      BY DEF Cleared, Known, TypeOK
  <2>2. shown' \in [Feature -> [AllZones -> [Property -> Known]]]
      BY <1>2, <2>1 DEF Detach, TypeOK
  <2>3. initialized' \subseteq attached' /\ attached' \subseteq Feature
      BY <1>2 DEF Detach, InitializedWithout, TypeOK
  <2> QED BY <1>2, <2>2, <2>3 DEF TypeOK, Detach
<1>3. ASSUME NEW f \in Feature, NEW z \in AllZones, NEW p \in Property,
             NEW v \in Values, Set(f, z, p, v)
      PROVE  TypeOK'
  <2>1. [call |-> "set", zone |-> z, property |-> p, value |-> v] \in Call
      BY DEF Call
  <2>2. requests' \in Seq(Call)
      BY <1>3, <2>1, AppendAt DEF Set, TypeOK
  <2>3. events' \in 0 .. MaxEvents
      BY <1>3, CountTyped DEF Set
  <2> QED BY <1>3, <2>2, <2>3 DEF Set, TypeOK
<1>4. ASSUME NEW z \in AllZones, NEW p \in Property, NEW v \in Values,
             ServerChange(z, p, v)
      PROVE  TypeOK'
  <2>1. replies' \in Seq(Signal)
      BY <1>4, SentTyped DEF ServerChange
  <2>2. events' \in 0 .. MaxEvents
      BY <1>4, CountTyped DEF ServerChange
  <2>3. value' \in [AllZones -> [Property -> Values]]
      BY <1>4 DEF ServerChange, TypeOK
  <2> QED BY <1>4, <2>1, <2>2, <2>3 DEF ServerChange, TypeOK
<1>5. CASE AnotherClientAsks
  <2>1. events' \in 0 .. MaxEvents
      BY <1>5, CountTyped DEF AnotherClientAsks
  <2> QED BY <1>5, <2>1, RecreatedTyped DEF AnotherClientAsks, TypeOK
<1>6. CASE ServeZones
  <2>1. [signal |-> "zones", zones |-> serverZones] \in Signal
      BY DEF TypeOK, Signal, Answer
  <2>2. replies' \in Seq(Signal)
      BY <1>6, <2>1, AppendAt DEF ServeZones, TypeOK
  <2>3. requests' \in Seq(Call)
      BY <1>6, RequestTaken DEF ServeZones
  <2> QED BY <1>6, <2>2, <2>3, RecreatedTyped DEF ServeZones, TypeOK
<1>7. CASE ServeGet
  <2> DEFINE r == Head(requests)
  <2>1. r \in Call /\ r.call = "get" /\ requests' \in Seq(Call)
      BY <1>7, RequestTaken DEF ServeGet
  <2>2. r.zone \in AllZones /\ r.property \in Property
      BY <2>1, CallFields
  <2>3. [signal |-> "value", zone |-> r.zone, property |-> r.property,
         value |-> value[r.zone][r.property]] \in Signal
      BY <2>2 DEF TypeOK, Signal, Answer
  <2>4. replies' \in Seq(Signal)
      BY <1>7, <2>3, AppendAt DEF ServeGet, TypeOK
  <2> QED BY <1>7, <2>1, <2>4 DEF ServeGet, TypeOK
<1>8. CASE ServeSet
  <2> DEFINE r == Head(requests)
  <2>1. r \in Call /\ r.call = "set" /\ requests' \in Seq(Call)
      BY <1>8, RequestTaken DEF ServeSet
  <2>2. r.zone \in AllZones /\ r.property \in Property /\ r.value \in Values
      BY <2>1, CallFields
  <2>3. CASE r.zone \in serverZones \cup {General} /\ value[r.zone][r.property] # r.value
    <3>1. /\ value' = [value EXCEPT ![r.zone][r.property] = r.value]
          /\ replies' = Append(replies, Changed(r.zone, r.property, r.value))
        BY <1>8, <2>3 DEF ServeSet
    <3>2. replies' \in Seq(Signal)
        BY <2>2, <3>1, SentTyped
    <3>3. value' \in [AllZones -> [Property -> Values]]
        BY <2>2, <3>1 DEF TypeOK
    <3> QED BY <1>8, <2>1, <3>2, <3>3 DEF ServeSet, TypeOK
  <2>4. CASE ~(r.zone \in serverZones \cup {General} /\ value[r.zone][r.property] # r.value)
    <3>1. value' = value /\ replies' = replies
        BY <1>8, <2>4 DEF ServeSet
    <3> QED BY <1>8, <2>1, <3>1 DEF ServeSet, TypeOK
  <2> QED BY <2>3, <2>4
<1>9. CASE LinkUp
  <2>1. [call |-> "zones"] \in Call
      BY DEF Call
  <2>2. <<[call |-> "zones"]>> \in Seq(Call)
      BY <2>1
  <2> QED BY <1>9, <2>2 DEF LinkUp, TypeOK
<1>10. CASE LinkDown
  <2>1. NewZones \in [AllZones -> [Property -> Values]]
      BY ZonedAssumption DEF NewZones
  <2>2. events' \in 0 .. MaxEvents
      BY <1>10, CountTyped DEF LinkDown
  <2>3. requests' \in Seq(Call) /\ replies' \in Seq(Signal)
      BY <1>10, EmptySeq DEF LinkDown
  <2> QED BY <1>10, <2>1, <2>2, <2>3 DEF LinkDown, TypeOK
<1>11. CASE OnZones
  <2> DEFINE r == Head(finished)
             known == zoneMap \cup r.zones
             calls == GettersOf(known)
             gets == [i \in DOMAIN calls |-> Get(calls[i])]
  <2>1. r \in Signal /\ r.signal = "zones" /\ finished' \in Seq(Answer)
      BY <1>11, AnswerTaken DEF OnZones
  <2>2. r.zones \in SUBSET Zone /\ known \in SUBSET AllZones
      BY <2>1, SignalFields DEF TypeOK, AllZones
  <2>3. CASE synced
    <3>1. Announce(attached, children, cached, zoneMap)
        BY <1>11, <2>3 DEF OnZones
    <3>2. /\ shown' \in [Feature -> [AllZones -> [Property -> Known]]]
          /\ initialized' = attached
        BY <3>1, AnnounceTyped DEF TypeOK
    <3> QED BY <1>11, <2>1, <2>3, <3>2 DEF OnZones, TypeOK
  <2>4. CASE ~synced
    <3>1. /\ zones' = r.zones /\ zoneMap' = known /\ crossed' = {}
          /\ requests' = IF link = "Valid" THEN requests \o gets ELSE requests
          /\ toSync' = [z \in AllZones |-> IF z \in known THEN Property ELSE toSync[z]]
          /\ children' = [f \in Feature |-> IF f \in attached
                             THEN WithZones(f, r.zones) ELSE children[f]]
        BY <1>11, <2>4 DEF OnZones, Called
    <3>2. gets \in Seq(Call)
        BY <2>2, GettersTyped
    <3>3. requests' \in Seq(Call)
      <4> HIDE DEF gets
      <4> QED BY <3>1, <3>2, ConcatAt DEF TypeOK
    <3>4. children' \in [Feature -> SUBSET Zone]
        BY <2>2, <3>1, WithZonesTyped DEF TypeOK
    <3>5. toSync' \in [AllZones -> SUBSET Property]
        BY <3>1 DEF TypeOK
    <3>6. zones' \subseteq Zone /\ zoneMap' \subseteq AllZones
        BY <2>2, <3>1
    <3> HIDE DEF gets, calls, known, r
    <3> QED BY <1>11, <2>1, <2>4, <3>3, <3>4, <3>5, <3>6 DEF OnZones, TypeOK
  <2> QED BY <2>3, <2>4
<1>12. CASE OnValue
  <2> DEFINE r == Head(finished)
  <2>1. r \in Signal /\ r.signal = "value" /\ finished' \in Seq(Answer)
      BY <1>12, AnswerTaken DEF OnValue
  <2>2. r.zone \in AllZones /\ r.property \in Property /\ r.value \in Known
      BY <2>1, SignalFields DEF Known
  <2>3. cached' \in [AllZones -> [Property -> Known]]
      BY <1>12, <2>2 DEF OnValue, TypeOK
  <2>4. toSync' \in [AllZones -> SUBSET Property]
      BY <1>12, <2>2 DEF OnValue, TypeOK
  <2>5. CASE Done(toSync')
    <3>1. synced' = TRUE /\ Announce(attached, children, cached', zoneMap)
        BY <1>12, <2>5 DEF OnValue
    <3>2. /\ shown' \in [Feature -> [AllZones -> [Property -> Known]]]
          /\ initialized' = attached
        BY <2>3, <3>1, AnnounceTyped DEF TypeOK
    <3> QED BY <1>12, <2>1, <2>3, <2>4, <3>1, <3>2 DEF OnValue, TypeOK
  <2>6. CASE ~Done(toSync')
      BY <1>12, <2>1, <2>3, <2>4, <2>6 DEF OnValue, TypeOK
  <2> QED BY <2>5, <2>6
<1>13. CASE OnChanged
  <2> DEFINE r == Head(replies)
  <2>1. r \in Signal /\ r.signal = "changed" /\ replies' \in Seq(Signal)
      BY <1>13, ReplyTaken DEF OnChanged
  <2>2. r.zone \in AllZones /\ r.property \in Property /\ r.value \in Known
      BY <2>1, SignalFields DEF Known
  <2>5. crossed' \subseteq AllZones \X Property
      BY <1>13, <2>2 DEF OnChanged, TypeOK
  <2>3. CASE r.zone \in zoneMap
    <3>1. /\ cached' = [cached EXCEPT ![r.zone][r.property] = r.value]
          /\ shown' = [f \in Feature |->
                          IF f \in attached /\ r.zone \in Views(f, children)
                          THEN [shown[f] EXCEPT ![r.zone][r.property] = r.value]
                          ELSE shown[f]]
        BY <1>13, <2>3 DEF OnChanged
    <3>2. cached' \in [AllZones -> [Property -> Known]]
        BY <2>2, <3>1 DEF TypeOK
    <3>3. \A f \in Feature : [shown[f] EXCEPT ![r.zone][r.property] = r.value]
                                 \in [AllZones -> [Property -> Known]]
        BY <2>2 DEF TypeOK
    <3>4. shown' \in [Feature -> [AllZones -> [Property -> Known]]]
        BY <3>1, <3>3 DEF TypeOK
    <3> QED BY <1>13, <2>1, <2>5, <3>2, <3>4 DEF OnChanged, TypeOK
  <2>4. CASE r.zone \notin zoneMap
    <3>1. cached' = cached /\ shown' = shown
        BY <1>13, <2>4 DEF OnChanged
    <3> QED BY <1>13, <2>1, <2>5, <3>1 DEF OnChanged, TypeOK
  <2> QED BY <2>3, <2>4
<1>14. CASE Arrive
  <2>1. Head(replies) \in Answer /\ replies' \in Seq(Signal)
      BY <1>14, ReplyTaken DEF Arrive
  <2>2. finished' \in Seq(Answer)
      BY <1>14, <2>1, AppendAt DEF Arrive, TypeOK
  <2> QED BY <1>14, <2>1, <2>2 DEF Arrive, TypeOK
<1>15. CASE UNCHANGED vars
    BY <1>15 DEF vars, TypeOK
<1> QED BY <1>1, <1>2, <1>3, <1>4, <1>5, <1>6, <1>7, <1>8, <1>9, <1>10, <1>11,
           <1>12, <1>13, <1>14, <1>15 DEF Next, Serve, Read, Deliver

(* In every state the queues hold well formed calls and signals of known     *)
(* zones and properties, and only connected features are initialized.        *)
THEOREM TypeCorrect == Spec => []TypeOK
<1> QED BY TypeInit, TypeNext, PTL DEF Spec

------------------------------------------------------------------------------
(* What is on its way after a step.                                          *)

\* The entries of a queue that one is added to, or one is taken from.
LEMMA AppendRange ==
    ASSUME NEW S, NEW s \in Seq(S), NEW e \in S
    PROVE  Range(Append(s, e)) = Range(s) \cup {e}
    BY AppendAt DEF Range

LEMMA TailRange ==
    ASSUME NEW S, NEW s \in Seq(S), s # <<>>
    PROVE  Range(s) = Range(Tail(s)) \cup {Head(s)}
<1>1. /\ 1 \in DOMAIN s /\ Head(s) = s[1]
      /\ \A i \in DOMAIN Tail(s) : i + 1 \in DOMAIN s /\ Tail(s)[i] = s[i + 1]
      /\ \A i \in DOMAIN s :
            i = 1 \/ (i - 1 \in DOMAIN Tail(s) /\ Tail(s)[i - 1] = s[i])
    BY TailAt
<1> QED BY <1>1 DEF Range

LEMMA RequestRange ==
    ASSUME TypeOK, NEW call, Requested(call)
    PROVE  /\ Range(requests) = Range(requests)' \cup {Head(requests)}
           /\ Head(requests).call = call
    BY TailRange DEF TypeOK, Requested

LEMMA ReplyRange ==
    ASSUME TypeOK, replies # <<>>, replies' = Tail(replies)
    PROVE  Range(replies) = Range(replies)' \cup {Head(replies)}
    BY TailRange DEF TypeOK

LEMMA FinishedRange ==
    ASSUME TypeOK, NEW signal, Finished(signal)
    PROVE  /\ Range(finished) = Range(finished)' \cup {Head(finished)}
           /\ Head(finished).signal = signal
    BY TailRange DEF TypeOK, Finished

LEMMA EmptyRange == Range(<<>>) = {}
    BY DEF Range

LEMMA RangeTyped ==
    ASSUME TypeOK
    PROVE  /\ \A r \in Range(requests) : r \in Call
           /\ \A r \in Range(replies) : r \in Signal
           /\ \A r \in Range(finished) : r \in Answer
    BY RangeOfSeq DEF TypeOK

\* A getter call is determined by its zone and property.
LEMMA GetIs ==
    ASSUME NEW r \in Call, r.call = "get"
    PROVE  r = Get(<<r.zone, r.property>>)
    BY DEF Call, Get

\* Neither side of the synchronisation moves.
Still ==
    /\ UNCHANGED <<serverZones, link, finished, zones, zoneMap, toSync, cached, synced>>
    /\ UNCHANGED <<featureVars, crossed, lateSync>>

(* What the steps of the server and the calls of the features leave to come  *)
(* for the client.                                                           *)
Carried ==
    /\ Still
    /\ \A z \in AllZones, p \in Property : OnTheWay(z, p)' <=> OnTheWay(z, p)
    /\ ZonesUnderWay' <=> ZonesUnderWay
    /\ ZonesKnown /\ link = "Valid" =>
          \A r \in Coming' : r.signal = "zones" => r.zones = serverZones
    /\ Offline => Offline'

ServerSteps ==
    \/ \E f \in Feature, z \in AllZones, p \in Property, v \in Values : Set(f, z, p, v)
    \/ \E z \in AllZones, p \in Property, v \in Values : ServerChange(z, p, v)
    \/ AnotherClientAsks
    \/ Serve

LEMMA ServerCarries == TypeOK /\ ServerSteps => Carried
<1> SUFFICES ASSUME TypeOK, ServerSteps PROVE Carried
    OBVIOUS
<1> USE DEF serverVars, linkVars, backendVars, history
<1>1. ASSUME NEW f \in Feature, NEW z \in AllZones, NEW p \in Property,
             NEW v \in Values, Set(f, z, p, v)
      PROVE  Carried
  <2> DEFINE c == [call |-> "set", zone |-> z, property |-> p, value |-> v]
  <2>1. c \in Call /\ c.call = "set"
      BY DEF Call
  <2>2. requests \in Seq(Call) /\ requests' = Append(requests, c)
      BY <1>1 DEF Set, TypeOK
  <2> HIDE DEF c
  <2>3. Range(requests)' = Range(requests) \cup {c}
      BY <2>1, <2>2, AppendRange
  <2>4. \A y \in AllZones, q \in Property : Get(<<y, q>>) # c
      BY <2>1 DEF Get
  <2>5. replies' = replies /\ link = "Valid" /\ Still
      BY <1>1 DEF Set, Still
  <2> QED BY <2>1, <2>3, <2>4, <2>5
          DEF Carried, OnTheWay, Asked, Answered, Coming,
              ZonesUnderWay, ZonesKnown, Offline, Still
<1>2. ASSUME NEW z \in AllZones, NEW p \in Property, NEW v \in Values,
             requests' = requests, Still, replies' = Append(replies, Changed(z, p, v)),
             link = "Valid"
      PROVE  Carried
  <2>1. Changed(z, p, v) \in Signal /\ Changed(z, p, v).signal = "changed"
      BY SentTyped DEF Changed
  <2>2. Range(replies)' = Range(replies) \cup {Changed(z, p, v)}
      BY <1>2, <2>1, AppendRange DEF TypeOK
  <2> QED BY <1>2, <2>1, <2>2
          DEF Carried, OnTheWay, Asked, Answered, Coming,
              ZonesUnderWay, ZonesKnown, Offline, Still
<1>3. CASE requests' = requests /\ replies' = replies /\ Still
    BY <1>3 DEF Carried, OnTheWay, Asked, Answered, Coming, ZonesUnderWay, ZonesKnown, Offline, Still
<1>4. ASSUME NEW z \in AllZones, NEW p \in Property, NEW v \in Values,
             ServerChange(z, p, v)
      PROVE  Carried
  <2>1. requests' = requests /\ Still
      BY <1>4 DEF ServerChange, Still
  <2>2. CASE link = "Valid"
      BY <1>2, <1>4, <2>1, <2>2 DEF ServerChange, Sent
  <2>3. CASE link # "Valid"
      BY <1>3, <1>4, <2>1, <2>3 DEF ServerChange, Sent
  <2> QED BY <2>2, <2>3
<1>5. CASE AnotherClientAsks
    BY <1>3, <1>5 DEF AnotherClientAsks, Still
<1>6. CASE ServeZones
  <2> DEFINE r == [signal |-> "zones", zones |-> serverZones]
  <2>1. r \in Signal /\ r.signal = "zones" /\ r.zones = serverZones
      BY DEF TypeOK, Signal, Answer
  <2>2. replies' = Append(replies, r) /\ Still /\ requests # <<>>
      BY <1>6 DEF ServeZones, Still, Requested
  <2>3. /\ Range(requests) = Range(requests)' \cup {Head(requests)}
        /\ Head(requests).call = "zones"
      BY <1>6, RequestRange DEF ServeZones
  <2> HIDE DEF r
  <2>4. Range(replies)' = Range(replies) \cup {r}
      BY <2>1, <2>2, AppendRange DEF TypeOK
  <2>5. \A z \in AllZones, p \in Property : Asked(z, p)' <=> Asked(z, p)
      BY <2>3 DEF Asked, Get
  <2>6. \A z \in AllZones, p \in Property : Answered(z, p)' <=> Answered(z, p)
      BY <2>1, <2>2, <2>4 DEF Answered, Coming, Still
  <2>7. ZonesUnderWay' /\ ZonesUnderWay
      BY <2>1, <2>3, <2>4 DEF ZonesUnderWay, Coming
  <2>8. Offline => link = "Valid" /\ link' = "Valid"
      BY <2>2 DEF Offline, Still
  <2> QED BY <2>1, <2>2, <2>4, <2>5, <2>6, <2>7, <2>8
          DEF Carried, OnTheWay, ZonesKnown, Coming, Offline, Still
<1>7. CASE ServeGet
  <2> DEFINE c == Head(requests)
             r == [signal |-> "value", zone |-> c.zone, property |-> c.property,
                   value |-> value[c.zone][c.property]]
  <2>1. c \in Call /\ c.call = "get"
      BY <1>7, RequestTaken DEF ServeGet
  <2>2. c.zone \in AllZones /\ c.property \in Property /\ c = Get(<<c.zone, c.property>>)
      BY <2>1, CallFields, GetIs
  <2>3. r \in Signal
      BY <2>2 DEF TypeOK, Signal, Answer
  <2>4. r.signal = "value" /\ r.zone = c.zone /\ r.property = c.property
      OBVIOUS
  <2>5. replies' = Append(replies, r) /\ Still /\ requests # <<>>
      BY <1>7 DEF ServeGet, Still, Requested
  <2>6. Range(requests) = Range(requests)' \cup {c}
      BY <1>7, RequestRange DEF ServeGet
  <2> HIDE DEF r, c
  <2>7. Range(replies)' = Range(replies) \cup {r}
      BY <2>3, <2>5, AppendRange DEF TypeOK
  <2>8. ASSUME NEW z \in AllZones, NEW p \in Property
        PROVE  OnTheWay(z, p)' <=> OnTheWay(z, p)
    <3>1. CASE z = c.zone /\ p = c.property
        BY <2>2, <2>4, <2>6, <2>7, <3>1 DEF OnTheWay, Asked, Answered, Coming
    <3>2. CASE ~(z = c.zone /\ p = c.property)
      <4>1. Get(<<z, p>>).zone = z /\ Get(<<z, p>>).property = p
          BY DEF Get
      <4>2. Get(<<z, p>>) # c
          BY <3>2, <4>1
      <4>3. Asked(z, p)' <=> Asked(z, p)
          BY <2>6, <4>2 DEF Asked
      <4>4. Answered(z, p)' <=> Answered(z, p)
          BY <2>4, <2>5, <2>7, <3>2 DEF Answered, Coming, Still
      <4> QED BY <4>3, <4>4 DEF OnTheWay
    <3> QED BY <3>1, <3>2
  <2>9. ZonesUnderWay' <=> ZonesUnderWay
      BY <2>1, <2>4, <2>5, <2>6, <2>7 DEF ZonesUnderWay, Coming, Still
  <2>10. Offline => link = "Valid" /\ link' = "Valid"
      BY <2>5 DEF Offline, Still
  <2> QED BY <2>4, <2>5, <2>7, <2>8, <2>9, <2>10
          DEF Carried, ZonesKnown, Coming, Offline, Still
<1>8. CASE ServeSet
  <2> DEFINE c == Head(requests)
  <2>1. c \in Call /\ c.call = "set"
      BY <1>8, RequestTaken DEF ServeSet
  <2>2. c.zone \in AllZones /\ c.property \in Property /\ c.value \in Values
      BY <2>1, CallFields
  <2>3. Range(requests) = Range(requests)' \cup {c}
      BY <1>8, RequestRange DEF ServeSet
  <2>4. Still /\ requests # <<>>
      BY <1>8 DEF ServeSet, Still, Requested
  <2> DEFINE told == Changed(c.zone, c.property, c.value)
  <2>5. \/ replies' = replies
        \/ replies' = Append(replies, told)
      BY <1>8 DEF ServeSet
  <2>6. told \in Signal /\ told.signal = "changed"
      BY <2>2, SentTyped DEF Changed
  <2> HIDE DEF c, told
  <2>7. \/ Range(replies)' = Range(replies)
        \/ Range(replies)' = Range(replies) \cup {told}
    <3>1. Range(Append(replies, told)) = Range(replies) \cup {told}
        BY <2>6, AppendRange DEF TypeOK
    <3>2. CASE replies' = replies
        BY <3>2
    <3>3. CASE replies' = Append(replies, told)
        BY <3>1, <3>3
    <3> QED BY <2>5, <3>2, <3>3
  <2>8. \A z \in AllZones, p \in Property : Asked(z, p)' <=> Asked(z, p)
      BY <2>1, <2>3 DEF Asked, Get
  <2>9. \A z \in AllZones, p \in Property : Answered(z, p)' <=> Answered(z, p)
      BY <2>4, <2>6, <2>7 DEF Answered, Coming, Still
  <2>10. ZonesUnderWay' <=> ZonesUnderWay
      BY <2>1, <2>3, <2>4, <2>6, <2>7 DEF ZonesUnderWay, Coming, Still
  <2>11. Offline => link = "Valid" /\ link' = "Valid"
      BY <2>4 DEF Offline, Still
  <2> QED BY <2>4, <2>6, <2>7, <2>8, <2>9, <2>10, <2>11
          DEF Carried, OnTheWay, ZonesKnown, Coming, Offline, Still
<1> QED BY <1>1, <1>4, <1>5, <1>6, <1>7, <1>8 DEF ServerSteps, Serve

------------------------------------------------------------------------------
(* Synchronised means complete.                                              *)

LEMMA SyncInit == Init => SyncInv
<1> SUFFICES ASSUME Init PROVE SyncInv
    OBVIOUS
<1>1. Range(requests) = {} /\ Coming = {}
    BY EmptyRange DEF Init, Coming
<1>2. ~Started
    BY <1>1 DEF Init, Started, OnTheWay, Asked, Answered
<1> QED BY <1>1, <1>2 DEF Init, SyncInv, Offline, Going, ZonesKnown, SyncComes,
                        NothingMissing, SyncedShown

\* An announcement makes the features show what the zone objects hold.
LEMMA AnnounceShows ==
    ASSUME NEW fs \in SUBSET Feature, NEW kids, NEW c, NEW known \in SUBSET AllZones,
           Announce(fs, kids, c, known)
    PROVE  /\ initialized' = fs
           /\ \A f \in fs : \A z \in Views(f, kids) \cap known : shown'[f][z] = c[z]
    BY DEF Announce

LEMMA SyncServer == TypeOK /\ SyncInv /\ ServerSteps => SyncInv'
<1> SUFFICES ASSUME TypeOK, SyncInv, ServerSteps PROVE SyncInv'
    OBVIOUS
<1>1. Carried /\ Still
    BY ServerCarries DEF Carried
<1>2. Started' <=> Started
    BY <1>1 DEF Carried, Still, Started
<1>3. Offline' /\ Going'
    BY <1>1, <1>2 DEF Carried, Still, SyncInv, Going
<1>4. ZonesKnown'
    BY <1>1, <1>2 DEF Carried, Still, featureVars, SyncInv, ZonesKnown
<1>5. SyncComes'
  <2> SUFFICES ASSUME Started', NEW z \in zoneMap', NEW p \in Property
               PROVE  /\ link' = "Valid" /\ p \in toSync'[z] => OnTheWay(z, p)'
                      /\ p \notin toSync'[z] => cached'[z][p] # Default
      BY DEF SyncComes
  <2>1. /\ z \in AllZones /\ z \in zoneMap /\ link' = link
        /\ toSync' = toSync /\ cached' = cached
      BY <1>1 DEF Still, TypeOK
  <2> QED BY <1>1, <1>2, <2>1 DEF Carried, SyncInv, SyncComes
<1>6. NothingMissing' /\ SyncedShown'
    BY <1>1 DEF Still, featureVars, SyncInv, NothingMissing, SyncedShown, Views
<1> QED BY <1>3, <1>4, <1>5, <1>6 DEF SyncInv

LEMMA SyncFeatures ==
    ASSUME TypeOK, SyncInv, NEW f \in Feature, Attach(f) \/ Detach(f)
    PROVE  SyncInv'
<1> USE DEF serverVars, linkVars, backendVars, featureVars, history
<1>1. /\ requests' = requests /\ replies' = replies /\ finished' = finished
      /\ lateSync' = lateSync /\ zones' = zones /\ zoneMap' = zoneMap /\ cached' = cached /\ toSync' = toSync
      /\ synced' = synced /\ serverZones' = serverZones
      /\ link' = link \/ (link = "None" /\ link' = "Suspect")
    BY DEF Attach, Detach
<1>2. Started' <=> Started
    BY <1>1 DEF Started, OnTheWay, Asked, Answered, Coming
<1>3. Offline' /\ Going'
    BY <1>1, <1>2 DEF SyncInv, Offline, Going, ZonesUnderWay, Coming
<1>4. SyncComes' /\ NothingMissing'
    BY <1>1, <1>2 DEF SyncInv, SyncComes, OnTheWay, Asked, Answered, Coming, NothingMissing
<1>5. ASSUME Attach(f) PROVE ZonesKnown' /\ SyncedShown'
  <2> DEFINE fs == attached \cup {f}
  <2>1. /\ attached' = fs /\ fs \in SUBSET Feature
        /\ children' = [children EXCEPT ![f] = WithZones(f, zones)]
      BY <1>5 DEF Attach, TypeOK
  <2>2. /\ children'[f] = WithZones(f, zones)
        /\ \A g \in attached : g # f => children'[g] = children[g]
      BY <2>1 DEF TypeOK
  <2>3. ZoneOf[f] = General => zones \subseteq children'[f]
    <3>1. zones \in SUBSET Zone
        BY DEF TypeOK
    <3>2. ZoneOf[f] = General => zones \subseteq WithZones(f, zones)
        BY <3>1, WithZonesTyped
    <3> QED BY <2>2, <3>2
  <2>4. \A g \in attached' : ZoneOf[g] = General => zones \subseteq children'[g]
      BY <2>1, <2>2, <2>3 DEF SyncInv, ZonesKnown
  <2>5. ZonesKnown'
      BY <1>1, <1>2, <2>4 DEF SyncInv, ZonesKnown, Coming
  <2>6. SyncedShown'
    <3> SUFFICES ASSUME synced' PROVE SyncedShown'
        BY DEF SyncedShown
    <3>1. Announce(fs, children', cached, zoneMap)
        BY <1>1, <1>5 DEF Attach, AnswersAtOnce
    <3>2. zoneMap \in SUBSET AllZones
        BY DEF TypeOK
    <3> HIDE DEF fs
    <3>3. /\ initialized' = fs
          /\ \A g \in fs : \A z \in Views(g, children') \cap zoneMap :
                shown'[g][z] = cached[z]
        BY <2>1, <3>1, <3>2, AnnounceShows
    <3> QED BY <1>1, <2>1, <3>3 DEF SyncedShown, Views
  <2> QED BY <2>5, <2>6
<1>6. ASSUME Detach(f) PROVE ZonesKnown' /\ SyncedShown'
  <2>1. /\ attached' = attached \ {f} /\ initialized' = initialized \ {f}
        /\ children' = [children EXCEPT ![f] = {}]
        /\ shown' = [shown EXCEPT ![f] = Cleared(f)]
      BY <1>6 DEF Detach, InitializedWithout
  <2>2. \A g \in attached' : /\ g \in attached /\ g # f
                             /\ children'[g] = children[g] /\ shown'[g] = shown[g]
      BY <2>1 DEF TypeOK
  <2>3. ZonesKnown'
      BY <1>1, <1>2, <2>2 DEF SyncInv, ZonesKnown, Coming
  <2>4. SyncedShown'
      BY <1>1, <2>1, <2>2 DEF SyncInv, SyncedShown, Views
  <2> QED BY <2>3, <2>4
<1> QED BY <1>3, <1>4, <1>5, <1>6 DEF SyncInv

\* A connection starts with the call for the zones, and nothing else: what it
\* finds synchronised was so by an answer of the last one.
LEMMA LinkStarts ==
    ASSUME TypeOK, SyncInv, LinkUp
    PROVE  /\ link' = "Valid" /\ Coming' = {} /\ replies' = <<>> /\ finished' = <<>>
           /\ Range(requests)' = {[call |-> "zones"]}
           /\ Started' => synced /\ lateSync
           /\ UNCHANGED <<zones, zoneMap, toSync, cached, synced, lateSync>>
           /\ UNCHANGED featureVars
<1>1. /\ link' = "Valid" /\ requests' = <<[call |-> "zones"]>>
      /\ replies' = <<>> /\ finished' = <<>>
      /\ UNCHANGED <<zones, zoneMap, toSync, cached, synced, lateSync>>
      /\ UNCHANGED featureVars
    BY DEF LinkUp, SyncInv, Offline, backendVars, history
<1>2. Range(<<[call |-> "zones"]>>) = {[call |-> "zones"]}
    BY DEF Range
<1>3. Coming' = {}
    BY <1>1, EmptyRange DEF Coming
<1>4. Started' => synced /\ lateSync
  <2>1. \A z \in AllZones, p \in Property : ~Asked(z, p)' /\ ~Answered(z, p)'
      BY <1>1, <1>2, <1>3 DEF Asked, Answered, Get
  <2> QED BY <1>1, <2>1 DEF Started, OnTheWay, LinkUp, SyncInv, Offline
<1> QED BY <1>1, <1>2, <1>3, <1>4

LEMMA SyncLinkUp == TypeOK /\ SyncInv /\ LinkUp => SyncInv'
<1> SUFFICES ASSUME TypeOK, SyncInv, LinkUp PROVE SyncInv'
    OBVIOUS
<1>1. /\ link' = "Valid" /\ Coming' = {}
      /\ Range(requests)' = {[call |-> "zones"]}
      /\ Started' => synced /\ lateSync
      /\ UNCHANGED <<zones, zoneMap, toSync, cached, synced, lateSync>>
      /\ UNCHANGED featureVars
    BY LinkStarts
<1>2. Offline' /\ Going' /\ NothingMissing'
    BY <1>1 DEF SyncInv, Offline, Going, ZonesUnderWay, NothingMissing
<1>3. ZonesKnown' /\ SyncedShown'
    BY <1>1 DEF featureVars, SyncInv, ZonesKnown, SyncedShown, Views
<1>4. SyncComes'
    BY <1>1 DEF SyncInv, SyncComes, NothingMissing, Started
<1> QED BY <1>2, <1>3, <1>4 DEF SyncInv

LEMMA SyncLinkDown == TypeOK /\ SyncInv /\ LinkDown => SyncInv'
<1> SUFFICES ASSUME TypeOK, SyncInv, LinkDown PROVE SyncInv'
    OBVIOUS
<1>1. /\ link' # "Valid" /\ requests' = <<>> /\ replies' = <<>> /\ ~synced' /\ ~lateSync'
      /\ UNCHANGED <<finished, zones, zoneMap, toSync, cached>>
      /\ UNCHANGED featureVars
    BY DEF LinkDown
<1>2. Range(requests)' = {} /\ Coming' \subseteq Coming
    BY <1>1, EmptyRange DEF Coming
<1>3. Started' => Started
    BY <1>1, <1>2 DEF Started, OnTheWay, Asked, Answered
<1>4. Offline' /\ Going' /\ NothingMissing' /\ SyncedShown'
    BY <1>1 DEF Offline, Going, NothingMissing, SyncedShown
<1>5. ZonesKnown' /\ SyncComes'
    BY <1>1, <1>3 DEF featureVars, SyncInv, ZonesKnown, SyncComes
<1> QED BY <1>4, <1>5 DEF SyncInv

LEMMA SyncOnChanged == TypeOK /\ SyncInv /\ OnChanged => SyncInv'
<1> SUFFICES ASSUME TypeOK, SyncInv, OnChanged PROVE SyncInv'
    OBVIOUS
<1> USE DEF serverVars
<1> DEFINE r == Head(replies)
<1>1. r \in Signal /\ r.signal = "changed"
    BY ReplyTaken DEF OnChanged
<1>2. r.zone \in AllZones /\ r.property \in Property /\ r.value \in Values
    BY <1>1, SignalFields
<1>3. Range(replies) = Range(replies)' \cup {r} /\ replies # <<>>
    BY ReplyRange DEF OnChanged
<1>4. UNCHANGED <<serverVars, link, requests, finished, zones, zoneMap, toSync, synced,
                  attached, initialized, children, lateSync>>
    BY DEF OnChanged
<1>5. \/ /\ r.zone \in zoneMap
         /\ cached' = [cached EXCEPT ![r.zone][r.property] = r.value]
         /\ shown' = [f \in Feature |->
                         IF f \in attached /\ r.zone \in Views(f, children)
                         THEN [shown[f] EXCEPT ![r.zone][r.property] = r.value]
                         ELSE shown[f]]
      \/ cached' = cached /\ shown' = shown
    BY DEF OnChanged
<1> HIDE DEF r
<1>6. \A z \in AllZones, p \in Property : OnTheWay(z, p)' <=> OnTheWay(z, p)
    BY <1>1, <1>3, <1>4 DEF OnTheWay, Asked, Answered, Coming
<1>7. (Started' <=> Started) /\ (ZonesUnderWay' <=> ZonesUnderWay)
    BY <1>1, <1>3, <1>4, <1>6 DEF Started, ZonesUnderWay, Coming
<1>8. Offline' /\ Going' /\ ZonesKnown' /\ NothingMissing'
    BY <1>3, <1>4, <1>7 DEF SyncInv, Offline, Going, ZonesKnown, Coming, NothingMissing
<1>9. ASSUME NEW z \in AllZones, NEW p \in Property
      PROVE  cached'[z][p] = cached[z][p] \/ cached'[z][p] # Default
  <2>1. r.value # Default
      BY <1>2, ZonedAssumption
  <2>2. CASE cached' = cached
      BY <2>2
  <2>3. CASE cached' = [cached EXCEPT ![r.zone][r.property] = r.value]
      BY <1>2, <2>1, <2>3 DEF TypeOK
  <2> QED BY <1>5, <2>2, <2>3
<1>10. SyncComes'
  <2> SUFFICES ASSUME Started', NEW z \in zoneMap', NEW p \in Property
               PROVE  /\ link' = "Valid" /\ p \in toSync'[z] => OnTheWay(z, p)'
                      /\ p \notin toSync'[z] => cached'[z][p] # Default
      BY DEF SyncComes
  <2>1. z \in AllZones /\ z \in zoneMap /\ toSync' = toSync
      BY <1>4 DEF TypeOK
  <2> QED BY <1>4, <1>6, <1>7, <1>9, <2>1 DEF SyncInv, SyncComes
<1>11. SyncedShown'
  <2> SUFFICES ASSUME synced', NEW f \in attached', NEW p \in Property,
                      NEW z \in Views(f, children)' \cap zoneMap'
               PROVE  f \in initialized' /\ shown'[f][z][p] = cached'[z][p]
      BY <1>4, ZonedAssumption DEF SyncedShown, SyncInv
  <2>1. /\ f \in attached /\ f \in Feature /\ z \in AllZones
        /\ z \in Views(f, children) \cap zoneMap
      BY <1>4 DEF TypeOK, Views
  <2>2. f \in initialized /\ shown[f][z][p] = cached[z][p]
      BY <1>4, <2>1 DEF SyncInv, SyncedShown
  <2>3. CASE cached' = cached /\ shown' = shown
      BY <1>4, <2>2, <2>3
  <2>4. CASE /\ cached' = [cached EXCEPT ![r.zone][r.property] = r.value]
             /\ shown' = [g \in Feature |->
                             IF g \in attached /\ r.zone \in Views(g, children)
                             THEN [shown[g] EXCEPT ![r.zone][r.property] = r.value]
                             ELSE shown[g]]
    <3>1. CASE z = r.zone
      <4>1. shown'[f] = [shown[f] EXCEPT ![r.zone][r.property] = r.value]
          BY <2>1, <2>4, <3>1
      <4> QED BY <1>2, <1>4, <2>1, <2>2, <2>4, <4>1 DEF TypeOK
    <3>2. CASE z # r.zone
      <4>1. cached'[z] = cached[z]
          BY <1>2, <2>1, <2>4, <3>2 DEF TypeOK
      <4>2. shown'[f][z] = shown[f][z]
          BY <1>2, <2>1, <2>4, <3>2 DEF TypeOK
      <4> QED BY <1>4, <2>2, <4>1, <4>2
    <3> QED BY <3>1, <3>2
  <2> QED BY <1>5, <2>3, <2>4
<1> QED BY <1>8, <1>10, <1>11 DEF SyncInv

LEMMA SyncArrive == TypeOK /\ SyncInv /\ Arrive => SyncInv'
<1> SUFFICES ASSUME TypeOK, SyncInv, Arrive PROVE SyncInv'
    OBVIOUS
<1>1. /\ UNCHANGED <<serverZones, link, requests, zones, zoneMap, toSync, cached, synced,
                     lateSync>>
      /\ UNCHANGED featureVars
    BY DEF Arrive, serverVars, backendVars, history
<1>2. Coming' = Coming
  <2>1. Range(replies) = Range(replies)' \cup {Head(replies)}
      BY ReplyRange DEF Arrive
  <2>2. Range(finished)' = Range(finished) \cup {Head(replies)}
      BY AppendRange DEF Arrive, TypeOK
  <2> QED BY <2>1, <2>2 DEF Coming
<1>3. replies # <<>>
    BY DEF Arrive
<1>4. \A z \in AllZones, p \in Property : OnTheWay(z, p)' <=> OnTheWay(z, p)
    BY <1>1, <1>2 DEF OnTheWay, Asked, Answered
<1>5. (Started' <=> Started) /\ (ZonesUnderWay' <=> ZonesUnderWay)
    BY <1>1, <1>2, <1>4 DEF Started, ZonesUnderWay
<1>6. Offline' /\ Going' /\ ZonesKnown' /\ NothingMissing' /\ SyncedShown'
    BY <1>1, <1>2, <1>3, <1>5
       DEF featureVars, SyncInv, Offline, Going, ZonesKnown, NothingMissing, SyncedShown, Views
<1>7. SyncComes'
  <2>1. zoneMap \subseteq AllZones
      BY DEF TypeOK
  <2> QED BY <1>1, <1>4, <1>5, <2>1 DEF SyncInv, SyncComes
<1> QED BY <1>6, <1>7 DEF SyncInv

LEMMA SyncOnValue == TypeOK /\ SyncInv /\ OnValue => SyncInv'
<1> SUFFICES ASSUME TypeOK, SyncInv, OnValue PROVE SyncInv'
    OBVIOUS
<1> USE DEF serverVars
<1> DEFINE r == Head(finished)
<1>1. r \in Signal /\ r.signal = "value"
    BY AnswerTaken DEF OnValue
<1>2. r.zone \in AllZones /\ r.property \in Property /\ r.value \in Values
    BY <1>1, SignalFields
<1>3. Coming = Coming' \cup {r}
  <2>1. Range(finished) = Range(finished)' \cup {r} /\ replies' = replies
      BY FinishedRange DEF OnValue
  <2> QED BY <2>1 DEF Coming
<1>4. UNCHANGED <<serverVars, link, requests, replies, zones, zoneMap, attached, children>>
    BY DEF OnValue
<1>5. /\ cached' = [cached EXCEPT ![r.zone][r.property] = r.value]
      /\ toSync' = [toSync EXCEPT ![r.zone] = @ \ {r.property}]
    BY DEF OnValue
<1>6. IF Done(toSync')
      THEN /\ synced' = TRUE /\ Announce(attached, children, cached', zoneMap)
           /\ lateSync' = (lateSync \/ link # "Valid")
      ELSE UNCHANGED <<synced, shown, initialized, lateSync>>
    BY DEF OnValue
<1> HIDE DEF r
<1>7. Started
    BY <1>1, <1>2, <1>3 DEF Started, OnTheWay, Answered
<1>8. link = "Valid" => lateSync' = lateSync
    BY <1>6 DEF SyncInv, Offline, TypeOK
<1>9. ASSUME NEW z \in AllZones, NEW p \in Property, ~(z = r.zone /\ p = r.property)
      PROVE  OnTheWay(z, p) => OnTheWay(z, p)'
    BY <1>3, <1>4, <1>9 DEF OnTheWay, Asked, Answered
<1>10. ASSUME NEW z \in AllZones, NEW p \in Property
       PROVE  /\ p \in toSync'[z] <=> p \in toSync[z] /\ ~(z = r.zone /\ p = r.property)
              /\ cached'[z][p] = IF z = r.zone /\ p = r.property THEN r.value
                                                               ELSE cached[z][p]
    BY <1>2, <1>5 DEF TypeOK
<1>11. ASSUME link = "Valid" PROVE Started'
  <2>1. CASE Done(toSync')
      BY <1>6, <2>1 DEF Started
  <2>2. CASE ~Done(toSync')
    <3>1. PICK z \in zoneMap : toSync'[z] # {}
        BY <2>2 DEF Done
    <3>2. z \in AllZones
        BY DEF TypeOK
    <3>3. toSync'[z] \subseteq Property
        BY <1>2, <1>5, <3>2 DEF TypeOK
    <3>4. PICK p \in Property : p \in toSync'[z]
        BY <3>1, <3>3
    <3>5. p \in toSync[z] /\ ~(z = r.zone /\ p = r.property)
        BY <1>10, <3>2, <3>4
    <3>6. OnTheWay(z, p)
        BY <1>7, <1>11, <3>5 DEF SyncInv, SyncComes
    <3> QED BY <1>9, <3>2, <3>5, <3>6 DEF Started
  <2> QED BY <2>1, <2>2
<1>12. Offline' /\ Going'
  <2>1. Offline'
      BY <1>4, <1>6 DEF SyncInv, Offline, TypeOK
  <2> QED BY <1>4, <1>11, <2>1 DEF Going
<1>13. ZonesKnown'
    BY <1>3, <1>4, <1>7, <1>8 DEF SyncInv, ZonesKnown
<1>14. SyncComes'
  <2> SUFFICES ASSUME NEW z \in zoneMap', NEW p \in Property
               PROVE  /\ link' = "Valid" /\ p \in toSync'[z] => OnTheWay(z, p)'
                      /\ p \notin toSync'[z] => cached'[z][p] # Default
      BY DEF SyncComes
  <2>1. z \in AllZones /\ z \in zoneMap
      BY <1>4 DEF TypeOK
  <2>2. /\ link = "Valid" /\ p \in toSync[z] => OnTheWay(z, p)
        /\ p \notin toSync[z] => cached[z][p] # Default
      BY <1>7, <2>1 DEF SyncInv, SyncComes
  <2>3. r.value # Default
      BY <1>2, ZonedAssumption
  <2> QED BY <1>4, <1>9, <1>10, <2>1, <2>2, <2>3
<1>15. NothingMissing'
  <2>1. CASE Done(toSync')
      BY <1>4, <2>1 DEF Done, NothingMissing
  <2>2. CASE ~Done(toSync')
    <3>1. synced' <=> synced
        BY <1>6, <2>2
    <3>2. ASSUME synced, NEW z \in zoneMap PROVE toSync'[z] = {}
      <4>1. toSync[z] = {} /\ z \in AllZones
          BY <3>2 DEF SyncInv, NothingMissing, TypeOK
      <4> QED BY <1>2, <1>5, <4>1 DEF TypeOK
    <3> QED BY <1>4, <3>1, <3>2 DEF NothingMissing
  <2> QED BY <2>1, <2>2
<1>16. SyncedShown'
  <2>1. CASE Done(toSync')
    <3>1. Announce(attached, children, cached', zoneMap)
        BY <1>6, <2>1
    <3>2. attached \in SUBSET Feature /\ zoneMap \in SUBSET AllZones
        BY DEF TypeOK
    <3>3. /\ initialized' = attached
          /\ \A f \in attached : \A z \in Views(f, children) \cap zoneMap :
                shown'[f][z] = cached'[z]
        BY <3>1, <3>2, AnnounceShows
    <3> QED BY <1>4, <3>3 DEF SyncedShown, Views
  <2>2. CASE ~Done(toSync')
    <3>1. ~synced'
        BY <1>4, <1>15, <2>2 DEF NothingMissing, Done
    <3> QED BY <3>1 DEF SyncedShown
  <2> QED BY <2>1, <2>2
<1> QED BY <1>12, <1>13, <1>14, <1>15, <1>16 DEF SyncInv

\* The zones known, the backend asks for every property of each.
LEMMA AsksForAll ==
    ASSUME TypeOK, OnZones, ~synced, link = "Valid"
    PROVE  \A z \in zoneMap', p \in Property : Asked(z, p)'
<1> DEFINE r == Head(finished)
           known == zoneMap \cup r.zones
           calls == GettersOf(known)
           gets == [i \in DOMAIN calls |-> Get(calls[i])]
<1>1. r \in Signal /\ r.signal = "zones"
    BY AnswerTaken DEF OnZones
<1>2. known \in SUBSET AllZones
    BY <1>1, SignalFields DEF TypeOK, AllZones
<1>3. zoneMap' = known /\ requests' = requests \o gets
    BY DEF OnZones, Called
<1>4. /\ gets \in Seq(Call)
      /\ \A z \in known, p \in Property : \E i \in DOMAIN gets : gets[i] = Get(<<z, p>>)
    BY <1>2, GettersTyped
<1> HIDE DEF gets, calls, known
<1>5. \A i \in DOMAIN gets : gets[i] \in Range(requests \o gets)
  <2>1. requests \in Seq(Call)
      BY DEF TypeOK
  <2>2. \A i \in DOMAIN gets : \E j \in DOMAIN (requests \o gets) :
            (requests \o gets)[j] = gets[i]
      BY <1>4, <2>1, ConcatAt
  <2> QED BY <2>2 DEF Range
<1> QED BY <1>3, <1>4, <1>5 DEF Asked

LEMMA SyncOnZones == TypeOK /\ SyncInv /\ OnZones => SyncInv'
<1> SUFFICES ASSUME TypeOK, SyncInv, OnZones PROVE SyncInv'
    OBVIOUS
<1> USE DEF serverVars
<1> DEFINE r == Head(finished)
           known == zoneMap \cup r.zones
<1>1. r \in Signal /\ r.signal = "zones"
    BY AnswerTaken DEF OnZones
<1>2. r.zones \in SUBSET Zone /\ known \in SUBSET AllZones
    BY <1>1, SignalFields DEF TypeOK, AllZones
<1>3. Coming = Coming' \cup {r} /\ Range(requests) \subseteq Range(requests)'
  <2>1. Range(finished) = Range(finished)' \cup {r} /\ replies' = replies
      BY FinishedRange DEF OnZones
  <2>2. CASE requests' = requests
      BY <2>1, <2>2 DEF Coming
  <2>3. CASE requests' # requests
    <3> DEFINE gets == [i \in DOMAIN GettersOf(known) |-> Get(GettersOf(known)[i])]
    <3>1. requests' = requests \o gets
        BY <2>3 DEF OnZones, Called
    <3>2. gets \in Seq(Call)
        BY <1>2, GettersTyped
    <3> HIDE DEF gets
    <3>3. \A i \in DOMAIN requests : i \in DOMAIN requests' /\ requests'[i] = requests[i]
        BY <3>1, <3>2, ConcatAt DEF TypeOK
    <3> QED BY <2>1, <3>3 DEF Coming, Range
  <2> QED BY <2>2, <2>3
<1>4. UNCHANGED <<serverVars, link, replies, cached, synced, attached, lateSync>>
    BY DEF OnZones
<1>5. link = "Valid" => r.zones = serverZones
    BY <1>1, <1>3 DEF SyncInv, ZonesKnown
<1>6. \A z \in AllZones, p \in Property : OnTheWay(z, p) => OnTheWay(z, p)'
    BY <1>1, <1>3 DEF OnTheWay, Asked, Answered
<1>7. Offline'
  <2>1. link # "Valid" => requests' = requests
      BY DEF OnZones, Called
  <2> QED BY <1>4, <2>1 DEF SyncInv, Offline
<1>8. CASE synced
  <2>1. /\ Announce(attached, children, cached, zoneMap)
        /\ UNCHANGED <<requests, zones, zoneMap, toSync, children>>
      BY <1>8 DEF OnZones
  <2>2. Started' /\ Started
      BY <1>4, <1>8 DEF Started
  <2>3. /\ initialized' = attached
        /\ \A f \in attached : \A z \in Views(f, children) \cap zoneMap :
              shown'[f][z] = cached[z]
    <3>1. attached \in SUBSET Feature /\ zoneMap \in SUBSET AllZones
        BY DEF TypeOK
    <3> QED BY <2>1, <3>1, AnnounceShows
  <2>4. SyncedShown'
      BY <1>4, <2>1, <2>3 DEF SyncedShown, Views
  <2>5. Going'
      BY <2>2 DEF Going
  <2>6. ZonesKnown'
      BY <1>3, <1>4, <2>1, <2>2 DEF SyncInv, ZonesKnown
  <2>7. SyncComes'
    <3>1. zoneMap \subseteq AllZones
        BY DEF TypeOK
    <3> QED BY <1>4, <1>6, <2>1, <2>2, <3>1 DEF SyncInv, SyncComes
  <2>8. NothingMissing'
      BY <1>4, <2>1 DEF SyncInv, NothingMissing
  <2> QED BY <1>7, <2>4, <2>5, <2>6, <2>7, <2>8 DEF SyncInv
<1>9. CASE ~synced
  <2>1. /\ zones' = r.zones /\ zoneMap' = known
        /\ toSync' = [z \in AllZones |-> IF z \in known THEN Property ELSE toSync[z]]
        /\ children' = [f \in Feature |-> IF f \in attached
                           THEN WithZones(f, r.zones) ELSE children[f]]
      BY <1>9 DEF OnZones
  <2>2. link = "Valid" => \A z \in known, p \in Property : Asked(z, p)'
      BY <1>9, <2>1, AsksForAll
  <2>3. General \in known
      BY DEF SyncInv, ZonesKnown
  <2>4. link = "Valid" => Started'
      BY <1>2, <2>2, <2>3, ZonedAssumption DEF Started, OnTheWay
  <2> HIDE DEF r
  <2>5. \A f \in attached : ZoneOf[f] = General => zones' \subseteq children'[f]
      BY <1>2, <2>1, WithZonesTyped DEF TypeOK
  <2>6. ZonesKnown'
      BY <1>3, <1>4, <1>5, <2>1, <2>3, <2>5 DEF SyncInv, ZonesKnown
  <2>7. Going' /\ NothingMissing' /\ SyncedShown'
      BY <1>4, <1>9, <2>4 DEF Going, NothingMissing, SyncedShown
  <2>8. SyncComes'
      BY <1>2, <1>4, <2>1, <2>2 DEF SyncComes, OnTheWay
  <2> QED BY <1>7, <2>6, <2>7, <2>8 DEF SyncInv
<1> QED BY <1>8, <1>9

LEMMA SyncNext == TypeOK /\ SyncInv /\ [Next]_vars => SyncInv'
<1> SUFFICES ASSUME TypeOK, SyncInv, [Next]_vars PROVE SyncInv'
    OBVIOUS
<1>1. CASE UNCHANGED vars
  <2>1. /\ UNCHANGED <<serverZones, link, requests, replies, finished, zones, zoneMap,
                       cached, toSync, synced, lateSync>>
        /\ UNCHANGED featureVars
      BY <1>1 DEF vars, serverVars, linkVars, backendVars, featureVars, history
  <2>2. Started' <=> Started
      BY <2>1 DEF Started, OnTheWay, Asked, Answered, Coming
  <2> QED BY <2>1, <2>2 DEF featureVars, SyncInv, Offline, Going, ZonesUnderWay,
             ZonesKnown, SyncComes, OnTheWay, Asked, Answered, Coming, NothingMissing,
             SyncedShown, Views
<1>2. CASE ServerSteps
    BY <1>2, SyncServer
<1> QED BY <1>1, <1>2, SyncFeatures, SyncLinkUp, SyncLinkDown, SyncOnChanged, SyncArrive,
           SyncOnValue, SyncOnZones
        DEF Next, Read, Deliver, ServerSteps

(* The synchronisation is under way or complete whenever the connection is   *)
(* up, and what it still misses is asked for: SyncInv holds in every state.  *)
THEOREM SyncAlways == Spec => []SyncInv
<1> QED BY TypeCorrect, SyncInit, SyncNext, PTL DEF Spec

(* Once the backend calls itself synchronised, every feature of the process  *)
(* is initialized, has its zone features and shows in every zone what the    *)
(* zone objects hold, none of it a client's default: whatever features come  *)
(* and go, links are lost and zones turn up, and whether or not the server   *)
(* makes its zones anew.                                                     *)
THEOREM SyncedAreShown == Spec => []SyncedIsShown
<1>1. SyncInv => SyncedIsShown
  <2> SUFFICES ASSUME SyncInv, synced, NEW f \in attached
               PROVE  /\ f \in initialized
                      /\ ZoneOf[f] = General => zones \subseteq children[f]
                      /\ \A z \in Views(f, children) \cap zoneMap, p \in Property :
                              shown[f][z][p] = cached[z][p] /\ cached[z][p] # Default
      BY DEF SyncedIsShown
  <2>1. Started /\ NothingMissing /\ SyncComes /\ SyncedShown /\ ZonesKnown
      BY DEF Started, SyncInv
  <2> QED BY <2>1 DEF NothingMissing, SyncComes, SyncedShown, ZonesKnown
<1> QED BY <1>1, SyncAlways, PTL

------------------------------------------------------------------------------
(* With nothing on its way the zones show what the server has.               *)

LEMMA TellTail ==
    ASSUME NEW S, NEW s \in Seq(S), s # <<>>, NEW values, Tell(s, values)
    PROVE  Tell(Tail(s), values)
<1> SUFFICES ASSUME NEW z \in AllZones, NEW p \in Property, NEW i \in DOMAIN Tail(s),
                    About(Tail(s)[i], z, p), Tail(s)[i].value # values[z][p]
             PROVE  \E j \in DOMAIN Tail(s) : j > i /\ About(Tail(s)[j], z, p)
    BY DEF Tell
<1>1. i \in Nat /\ i > 0 /\ i + 1 \in DOMAIN s /\ Tail(s)[i] = s[i + 1]
    BY TailAt
<1>2. PICK j \in DOMAIN s : j > i + 1 /\ About(s[j], z, p)
    BY <1>1 DEF Tell
<1>3. j \in Nat /\ j - 1 \in DOMAIN Tail(s) /\ Tail(s)[j - 1] = s[j]
    BY <1>1, <1>2, TailAt
<1>4. j - 1 > i
    BY <1>1, <1>2, <1>3
<1> QED BY <1>2, <1>3, <1>4

\* A value that changes is told in a signal of its own.
News(e, before, after) ==
    /\ \A z \in AllZones, p \in Property : About(e, z, p) => e.value = after[z][p]
    /\ \A z \in AllZones, p \in Property :
          after[z][p] = before[z][p] \/ About(e, z, p)

LEMMA TellAppend ==
    ASSUME NEW S, NEW s \in Seq(S), NEW e \in S, NEW before, NEW after,
           Tell(s, before), News(e, before, after)
    PROVE  Tell(Append(s, e), after)
<1> DEFINE t == Append(s, e)
<1> SUFFICES ASSUME NEW z \in AllZones, NEW p \in Property, NEW i \in DOMAIN t,
                    About(t[i], z, p), t[i].value # after[z][p]
             PROVE  \E j \in DOMAIN t : j > i /\ About(t[j], z, p)
    BY DEF Tell
<1> HIDE DEF t
<1>1. /\ \A j \in DOMAIN s : j \in Nat /\ j < Len(s) + 1 /\ j \in DOMAIN t /\ t[j] = s[j]
      /\ i \in DOMAIN s \/ (i = Len(s) + 1 /\ t[i] = e)
      /\ Len(s) + 1 \in DOMAIN t /\ t[Len(s) + 1] = e
      /\ Len(s) \in Nat
    BY AppendAt, LenProperties DEF t
<1>2. i \in DOMAIN s /\ t[i] = s[i] /\ i < Len(s) + 1
    BY <1>1 DEF News
<1>3. CASE About(e, z, p)
    BY <1>1, <1>2, <1>3
<1>4. CASE ~About(e, z, p)
  <2>1. s[i].value # before[z][p]
      BY <1>2, <1>4 DEF News
  <2>2. PICK j \in DOMAIN s : j > i /\ About(s[j], z, p)
      BY <1>2, <2>1 DEF Tell
  <2> QED BY <1>1, <2>2
<1> QED BY <1>3, <1>4

(* What a step of the server or a call of a feature tells the client: nothing *)
(* new, or the news of one property, or nothing at all while it is offline.   *)
Told ==
    \/ /\ replies' = replies /\ value' = value
       /\ \A z \in AllZones, p \in Property : Asked(z, p) => Asked(z, p)'
    \/ \E e \in Signal :
          /\ replies' = Append(replies, e) /\ News(e, value, value')
          /\ \A z \in AllZones, p \in Property :
                Asked(z, p) => Asked(z, p)' \/ About(e, z, p)
    \/ link # "Valid" /\ replies' = replies

LEMMA ServerTells == TypeOK /\ ~Forgetful /\ ServerSteps => Told
<1> SUFFICES ASSUME TypeOK, ~Forgetful, ServerSteps PROVE Told
    OBVIOUS
<1> USE DEF serverVars, linkVars, backendVars, featureVars, history
<1>1. ASSUME NEW f \in Feature, NEW z \in AllZones, NEW p \in Property,
             NEW v \in Values, Set(f, z, p, v)
      PROVE  Told
  <2>1. [call |-> "set", zone |-> z, property |-> p, value |-> v] \in Call
      BY DEF Call
  <2>2. Range(requests) \subseteq Range(requests)'
      BY <1>1, <2>1, AppendRange DEF Set, TypeOK
  <2> QED BY <1>1, <2>2 DEF Told, Set, Asked
<1>2. ASSUME NEW z \in AllZones, NEW p \in Property, NEW v \in Values,
             value' = [value EXCEPT ![z][p] = v]
      PROVE  News(Changed(z, p, v), value, value') /\ Changed(z, p, v) \in Signal
  <2>1. value'[z][p] = v
      BY <1>2 DEF TypeOK
  <2>2. \A y \in AllZones, q \in Property :
            ~(y = z /\ q = p) => value'[y][q] = value[y][q]
      BY <1>2 DEF TypeOK
  <2> QED BY <2>1, <2>2, SentTyped DEF News, About, Changed
<1>3. ASSUME NEW z \in AllZones, NEW p \in Property, NEW v \in Values,
             ServerChange(z, p, v)
      PROVE  Told
  <2>1. value' = [value EXCEPT ![z][p] = v] /\ replies' = Sent(Changed(z, p, v))
        /\ requests' = requests
      BY <1>3 DEF ServerChange
  <2> QED BY <1>2, <2>1 DEF Told, Sent, Asked
<1>4. CASE AnotherClientAsks
    BY <1>4 DEF AnotherClientAsks, Recreated, Told, Asked
<1>5. CASE ServeZones
  <2> DEFINE r == [signal |-> "zones", zones |-> serverZones]
  <2>1. r \in Signal
      BY DEF TypeOK, Signal, Answer
  <2>2. value' = value /\ replies' = Append(replies, r)
      BY <1>5 DEF ServeZones, Recreated
  <2>3. News(r, value, value')
      BY <2>2 DEF News, About
  <2>4. /\ Range(requests) = Range(requests)' \cup {Head(requests)}
        /\ Head(requests).call = "zones"
      BY <1>5, RequestRange DEF ServeZones
  <2>5. \A z \in AllZones, p \in Property : Asked(z, p) => Asked(z, p)'
      BY <2>4 DEF Asked, Get
  <2> QED BY <2>1, <2>2, <2>3, <2>5 DEF Told
<1>6. CASE ServeGet
  <2> DEFINE c == Head(requests)
             r == [signal |-> "value", zone |-> c.zone, property |-> c.property,
                   value |-> value[c.zone][c.property]]
  <2>1. c \in Call /\ c.call = "get"
      BY <1>6, RequestTaken DEF ServeGet
  <2>2. c.zone \in AllZones /\ c.property \in Property
      BY <2>1, CallFields
  <2>3. r \in Signal
      BY <2>2 DEF TypeOK, Signal, Answer
  <2>4. replies' = Append(replies, r) /\ value' = value
      BY <1>6 DEF ServeGet
  <2>5. News(r, value, value')
      BY <2>2, <2>4 DEF News, About
  <2>6. Range(requests) = Range(requests)' \cup {c}
      BY <1>6, RequestRange DEF ServeGet
  <2>7. ASSUME NEW z \in AllZones, NEW p \in Property, Asked(z, p), ~Asked(z, p)'
        PROVE  About(r, z, p)
    <3>1. Get(<<z, p>>) = c
        BY <2>6, <2>7 DEF Asked
    <3>2. c.zone = z /\ c.property = p
        BY <3>1 DEF Get
    <3> QED BY <3>2 DEF About
  <2> QED BY <2>3, <2>4, <2>5, <2>7 DEF Told
<1>7. CASE ServeSet
  <2> DEFINE c == Head(requests)
  <2>1. c \in Call /\ c.call = "set"
      BY <1>7, RequestTaken DEF ServeSet
  <2>2. c.zone \in AllZones /\ c.property \in Property /\ c.value \in Values
      BY <2>1, CallFields
  <2>3. Range(requests) = Range(requests)' \cup {c}
      BY <1>7, RequestRange DEF ServeSet
  <2>4. \A z \in AllZones, p \in Property : Asked(z, p) => Asked(z, p)'
      BY <2>1, <2>3 DEF Asked, Get
  <2>5. \/ value' = value /\ replies' = replies
        \/ /\ value' = [value EXCEPT ![c.zone][c.property] = c.value]
           /\ replies' = Append(replies, Changed(c.zone, c.property, c.value))
      BY <1>7 DEF ServeSet
  <2> HIDE DEF c
  <2> QED BY <1>2, <2>2, <2>4, <2>5 DEF Told
<1> QED BY <1>1, <1>3, <1>4, <1>5, <1>6, <1>7 DEF ServerSteps, Serve

LEMMA MirrorServer ==
    TypeOK /\ SyncInv /\ MirrorInv /\ ~Forgetful /\ ServerSteps => MirrorInv'
<1> SUFFICES ASSUME TypeOK, SyncInv, MirrorInv, ~Forgetful, ServerSteps
             PROVE  MirrorInv'
    OBVIOUS
<1>1. Told /\ Carried
    BY ServerTells, ServerCarries
<1>2. /\ Started' <=> Started
      /\ UNCHANGED <<link, finished, cached, zoneMap, crossed, lateSync>>
      /\ zoneMap \subseteq AllZones
    BY <1>1 DEF Carried, Still, Started, TypeOK
<1>3. CASE /\ replies' = replies /\ value' = value
           /\ \A z \in AllZones, p \in Property : Asked(z, p) => Asked(z, p)'
  <2>1. \A z \in AllZones, p \in Property : Corrected(z, p) => Corrected(z, p)'
      BY <1>2, <1>3 DEF Corrected
  <2> QED BY <1>2, <1>3, <2>1 DEF MirrorInv, LastTells, FinishedTells, NothingStale
<1>4. ASSUME NEW e \in Signal, replies' = Append(replies, e), News(e, value, value'),
             \A z \in AllZones, p \in Property :
                 Asked(z, p) => Asked(z, p)' \/ About(e, z, p)
      PROVE  MirrorInv'
  <2>1. LastTells'
      BY <1>4, TellAppend DEF MirrorInv, LastTells, TypeOK
  <2>2. Range(replies)' = Range(replies) \cup {e}
      BY <1>4, AppendRange DEF TypeOK
  <2>3. ASSUME NEW z \in zoneMap, NEW p \in Property
        PROVE  /\ Corrected(z, p) => Corrected(z, p)'
               /\ value'[z][p] = value[z][p] \/ Corrected(z, p)'
    <3>1. z \in AllZones
        BY <1>2
    <3> QED BY <1>2, <1>4, <2>2, <3>1 DEF Corrected, News
  <2>4. FinishedTells'
      BY <1>2, <2>3 DEF MirrorInv, FinishedTells
  <2>5. NothingStale'
      BY <1>2, <2>3 DEF MirrorInv, NothingStale
  <2> QED BY <2>1, <2>4, <2>5 DEF MirrorInv
<1>5. CASE link # "Valid" /\ replies' = replies
  <2>1. replies' = <<>>
      BY <1>5 DEF SyncInv, Offline
  <2> QED BY <1>2, <1>5, <2>1 DEF MirrorInv, LastTells, Tell, FinishedTells, NothingStale
<1> QED BY <1>1, <1>3, <1>4, <1>5 DEF Told

LEMMA MirrorInit == Init => MirrorInv
    BY DEF Init, MirrorInv, LastTells, Tell, FinishedTells, NothingStale

\* A connection starts with empty queues, and synchronised only too late.
LEMMA MirrorLink ==
    ASSUME TypeOK, SyncInv, LinkUp \/ LinkDown
    PROVE  MirrorInv'
<1>1. CASE LinkUp
  <2>1. /\ replies' = <<>> /\ finished' = <<>>
        /\ Started' => lateSync /\ lateSync' = lateSync
      BY <1>1, LinkStarts
  <2> QED BY <2>1 DEF MirrorInv, LastTells, Tell, FinishedTells, NothingStale
<1>2. CASE LinkDown
  <2>1. replies' = <<>> /\ link' # "Valid"
      BY <1>2 DEF LinkDown
  <2> QED BY <2>1 DEF MirrorInv, LastTells, Tell, FinishedTells, NothingStale
<1> QED BY <1>1, <1>2

\* A reply that is read is the last about its property, or another one follows it.
LEMMA LastReply ==
    ASSUME TypeOK, LastTells, replies # <<>>, replies' = Tail(replies),
           NEW z \in AllZones, NEW p \in Property, About(Head(replies), z, p)
    PROVE  \/ Head(replies).value = value[z][p]
           \/ \E r \in Range(replies)' : About(r, z, p)
<1>1. replies \in Seq(Signal) /\ 1 \in DOMAIN replies /\ Head(replies) = replies[1]
    BY TailAt DEF TypeOK
<1>2. ASSUME NEW j \in DOMAIN replies, j > 1
      PROVE  replies[j] \in Range(Tail(replies))
  <2>1. j - 1 \in DOMAIN Tail(replies) /\ Tail(replies)[j - 1] = replies[j]
      BY <1>1, <1>2, TailAt
  <2> QED BY <2>1 DEF Range
<1> QED BY <1>1, <1>2 DEF LastTells, Tell

\* An answer that is read waits behind the others.
LEMMA MirrorArrive == TypeOK /\ MirrorInv /\ Arrive => MirrorInv'
<1> SUFFICES ASSUME TypeOK, MirrorInv, Arrive PROVE MirrorInv'
    OBVIOUS
<1> DEFINE e == Head(replies)
<1>1. /\ replies # <<>> /\ replies' = Tail(replies)
      /\ finished' = Append(finished, e) /\ e \in Answer
      /\ UNCHANGED <<value, link, requests, zoneMap, cached, synced, crossed, lateSync>>
    BY DEF Arrive, serverVars, backendVars, history
<1>2. LastTells'
    BY <1>1, TellTail DEF MirrorInv, LastTells, TypeOK
<1>3. Range(replies) = Range(replies)' \cup {e} /\ Range(finished)' = Range(finished) \cup {e}
    BY <1>1, ReplyRange, AppendRange DEF TypeOK
<1>4. ASSUME NEW z \in zoneMap, NEW p \in Property, Corrected(z, p)
      PROVE  Corrected(z, p)' \/ About(e, z, p)
    BY <1>1, <1>3, <1>4 DEF Corrected, Asked
<1>5. Started' => Started
    BY <1>1, <1>3 DEF Started, OnTheWay, Asked, Answered, Coming
<1>6. FinishedTells'
  <2> SUFFICES ASSUME link' = "Valid", NEW z \in zoneMap', NEW p \in Property,
                      NEW i \in DOMAIN finished', About(finished'[i], z, p)
               PROVE  \/ finished'[i].value = value'[z][p]
                      \/ \E j \in DOMAIN finished' : j > i /\ About(finished'[j], z, p)
                      \/ Corrected(z, p)'
      BY DEF FinishedTells
  <2> HIDE DEF e
  <2>1. /\ \A j \in DOMAIN finished : /\ j \in Nat /\ j < Len(finished) + 1
                                      /\ j \in DOMAIN finished' /\ finished'[j] = finished[j]
        /\ \/ i \in DOMAIN finished /\ finished'[i] = finished[i]
           \/ i = Len(finished) + 1 /\ finished'[i] = e
        /\ Len(finished) + 1 \in DOMAIN finished' /\ finished'[Len(finished) + 1] = e
        /\ Len(finished) \in Nat
      BY <1>1, AppendAt, LenProperties DEF TypeOK
  <2>2. z \in zoneMap /\ z \in AllZones
      BY <1>1 DEF TypeOK
  <2>3. CASE i \in DOMAIN finished /\ finished'[i] = finished[i]
    <3>1. \/ finished[i].value = value[z][p]
          \/ \E j \in DOMAIN finished : j > i /\ About(finished[j], z, p)
          \/ Corrected(z, p)
        BY <1>1, <2>2, <2>3 DEF MirrorInv, FinishedTells
    <3>2. CASE \E j \in DOMAIN finished : j > i /\ About(finished[j], z, p)
        BY <2>1, <3>2
    <3>3. CASE Corrected(z, p)
        BY <1>4, <2>1, <2>2, <2>3, <3>3
    <3> QED BY <1>1, <2>3, <3>1, <3>2, <3>3
  <2>4. CASE i = Len(finished) + 1 /\ finished'[i] = e
    <3>1. \/ e.value = value[z][p]
          \/ \E r \in Range(replies)' : About(r, z, p)
        BY <1>1, <2>2, <2>4, LastReply DEF e, MirrorInv
    <3> QED BY <1>1, <2>4, <3>1 DEF Corrected
  <2> QED BY <2>1, <2>3, <2>4
<1>7. NothingStale'
    BY <1>1, <1>3, <1>4, <1>5 DEF MirrorInv, NothingStale
<1> QED BY <1>2, <1>6, <1>7 DEF MirrorInv

\* A change is right, unless another reply follows it or it overtook an answer.
LEMMA MirrorChanged == TypeOK /\ MirrorInv /\ OnChanged => MirrorInv'
<1> SUFFICES ASSUME TypeOK, MirrorInv, OnChanged PROVE MirrorInv'
    OBVIOUS
<1> DEFINE e == Head(replies)
<1>1. /\ replies # <<>> /\ replies' = Tail(replies) /\ e.signal = "changed"
      /\ UNCHANGED <<value, link, requests, finished, zoneMap, synced, lateSync>>
      /\ crossed' = IF Waiting(e.zone, e.property) THEN crossed \cup {<<e.zone, e.property>>}
                                                   ELSE crossed \ {<<e.zone, e.property>>}
      /\ \/ cached' = [cached EXCEPT ![e.zone][e.property] = e.value]
         \/ cached' = cached /\ e.zone \notin zoneMap
    BY DEF OnChanged, serverVars
<1>2. e \in Signal
    BY <1>1, ReplyTaken
<1>3. e.zone \in AllZones /\ e.property \in Property /\ e.value \in Values
    BY <1>1, <1>2, SignalFields
<1>4. LastTells'
    BY <1>1, TellTail DEF MirrorInv, LastTells, TypeOK
<1>5. Range(replies) = Range(replies)' \cup {e}
    BY <1>1, ReplyRange
<1>6. Started' => Started
    BY <1>1, <1>5 DEF Started, OnTheWay, Asked, Answered, Coming
<1>7. ASSUME NEW z \in zoneMap, NEW p \in Property, About(e, z, p)
      PROVE  \/ cached'[z][p] = value[z][p] /\ ~Waiting(z, p)
             \/ Corrected(z, p)'
  <2>1. z \in AllZones /\ z = e.zone /\ p = e.property
      BY <1>7 DEF About, TypeOK
  <2>2. CASE Waiting(z, p)
      BY <1>1, <2>1, <2>2 DEF Corrected
  <2>3. CASE ~Waiting(z, p)
    <3>1. \/ e.value = value[z][p]
          \/ \E r \in Range(replies)' : About(r, z, p)
        BY <1>1, <1>7, <2>1, LastReply DEF MirrorInv
    <3> HIDE DEF e
    <3>2. cached'[z][p] = e.value
        BY <1>1, <1>3, <2>1 DEF TypeOK
    <3> QED BY <2>3, <3>1, <3>2 DEF Corrected
  <2> QED BY <2>2, <2>3
<1> HIDE DEF e
<1>8. ASSUME NEW z \in zoneMap, NEW p \in Property, ~About(e, z, p)
      PROVE  cached'[z][p] = cached[z][p] /\ (Corrected(z, p) => Corrected(z, p)')
  <2>1. z \in AllZones /\ ~(z = e.zone /\ p = e.property)
      BY <1>1, <1>8 DEF About, TypeOK
  <2>2. cached'[z][p] = cached[z][p]
      BY <1>1, <1>3, <2>1 DEF TypeOK
  <2>3. <<z, p>> \in crossed => <<z, p>> \in crossed'
      BY <1>1, <2>1
  <2> QED BY <1>1, <1>5, <1>8, <2>2, <2>3 DEF Corrected, Asked
<1>9. FinishedTells'
  <2> SUFFICES ASSUME link' = "Valid", NEW z \in zoneMap', NEW p \in Property,
                      NEW i \in DOMAIN finished', About(finished'[i], z, p)
               PROVE  \/ finished'[i].value = value'[z][p]
                      \/ \E j \in DOMAIN finished' : j > i /\ About(finished'[j], z, p)
                      \/ Corrected(z, p)'
      BY DEF FinishedTells
  <2>1. Waiting(z, p)
    <3>1. finished[i] \in Answer /\ About(finished[i], z, p)
        BY <1>1, ElementOfSeq, LenProperties DEF TypeOK
    <3> QED BY <1>1, <3>1 DEF Waiting, About, Answer
  <2>2. CASE About(e, z, p)
      BY <1>1, <1>7, <2>1, <2>2
  <2>3. CASE ~About(e, z, p)
      BY <1>1, <1>8, <2>3 DEF MirrorInv, FinishedTells
  <2> QED BY <2>2, <2>3
<1>10. NothingStale'
    BY <1>1, <1>6, <1>7, <1>8 DEF MirrorInv, NothingStale
<1> QED BY <1>4, <1>9, <1>10 DEF MirrorInv

\* What is left of the answers that wait is as right as before.
LEMMA FinishedTail ==
    ASSUME TypeOK, FinishedTells, finished # <<>>, finished' = Tail(finished),
           UNCHANGED <<value, link>>,
           NEW z \in zoneMap, NEW p \in Property, Corrected(z, p) => Corrected(z, p)',
           link = "Valid", NEW i \in DOMAIN finished', About(finished'[i], z, p)
    PROVE  \/ finished'[i].value = value'[z][p]
           \/ \E j \in DOMAIN finished' : j > i /\ About(finished'[j], z, p)
           \/ Corrected(z, p)'
<1>1. /\ finished \in Seq(Answer)
      /\ i \in Nat /\ i > 0 /\ i + 1 \in DOMAIN finished /\ finished'[i] = finished[i + 1]
    BY TailAt DEF TypeOK
<1>2. CASE \E j \in DOMAIN finished : j > i + 1 /\ About(finished[j], z, p)
  <2>1. PICK j \in DOMAIN finished : j > i + 1 /\ About(finished[j], z, p)
      BY <1>2
  <2>2. j \in Nat /\ j - 1 \in DOMAIN finished' /\ finished'[j - 1] = finished[j]
      BY <1>1, <2>1, TailAt
  <2>3. j - 1 > i
      BY <1>1, <2>1, <2>2
  <2> QED BY <2>1, <2>2, <2>3
<1> QED BY <1>1, <1>2 DEF FinishedTells

\* The value of an answer is taken.
LEMMA MirrorValue == TypeOK /\ SyncInv /\ MirrorInv /\ OnValue => MirrorInv'
<1> SUFFICES ASSUME TypeOK, SyncInv, MirrorInv, OnValue PROVE MirrorInv'
    OBVIOUS
<1> DEFINE e == Head(finished)
<1>1. /\ finished # <<>> /\ finished' = Tail(finished) /\ e.signal = "value"
      /\ UNCHANGED <<value, link, requests, replies, zoneMap, crossed>>
      /\ cached' = [cached EXCEPT ![e.zone][e.property] = e.value]
      /\ link = "Valid" => (lateSync' <=> lateSync)
    BY DEF OnValue, Finished, serverVars
<1>2. e \in Signal
    BY AnswerTaken DEF OnValue
<1>3. e.zone \in AllZones /\ e.property \in Property /\ e.value \in Values
    BY <1>1, <1>2, SignalFields
<1>4. 1 \in DOMAIN finished /\ e = finished[1] /\ finished \in Seq(Answer)
    BY <1>1, TailAt DEF TypeOK
<1>5. Range(finished) = Range(finished)' \cup {e}
    BY <1>1, <1>4, TailRange
<1>6. \A z \in zoneMap, p \in Property : Corrected(z, p) => Corrected(z, p)'
    BY <1>1 DEF Corrected, Asked
<1>7. LastTells'
    BY <1>1 DEF MirrorInv, LastTells
<1>8. FinishedTells'
    BY <1>1, <1>6, FinishedTail DEF MirrorInv, FinishedTells
<1>9. Started
    BY <1>1, <1>3, <1>5 DEF Started, OnTheWay, Answered, Coming
<1>10. ASSUME link = "Valid", ~lateSync, NEW z \in zoneMap, NEW p \in Property
       PROVE  \/ cached'[z][p] = value'[z][p]
              \/ \E r \in Range(finished)' : About(r, z, p)
              \/ Corrected(z, p)'
  <2>1. z \in AllZones
      BY DEF TypeOK
  <2>2. CASE About(e, z, p)
    <3>1. \A j \in DOMAIN finished : j > 1 => finished[j] \in Range(finished)'
      <4> SUFFICES ASSUME NEW j \in DOMAIN finished, j > 1
                   PROVE  finished[j] \in Range(Tail(finished))
          BY <1>1
      <4>1. j - 1 \in DOMAIN Tail(finished) /\ Tail(finished)[j - 1] = finished[j]
          BY <1>1, <1>4, TailAt
      <4> QED BY <4>1 DEF Range
    <3> HIDE DEF e
    <3>2. cached'[z][p] = e.value
        BY <1>1, <1>3, <2>1, <2>2 DEF About, TypeOK
    <3> QED BY <1>1, <1>4, <1>6, <1>10, <2>2, <3>1, <3>2 DEF MirrorInv, FinishedTells
  <2>3. CASE ~About(e, z, p)
    <3>1. ~(z = e.zone /\ p = e.property)
        BY <1>1, <2>3 DEF About
    <3> HIDE DEF e
    <3>2. cached'[z][p] = cached[z][p]
        BY <1>1, <1>3, <2>1, <3>1 DEF TypeOK
    <3> QED BY <1>1, <1>5, <1>6, <1>9, <1>10, <2>3, <3>2 DEF MirrorInv, NothingStale
  <2> QED BY <2>2, <2>3
<1>11. NothingStale'
    BY <1>1, <1>9, <1>10 DEF NothingStale
<1> QED BY <1>7, <1>8, <1>11 DEF MirrorInv

\* After the zones are known everything is asked for, or was before.
LEMMA MirrorZones == TypeOK /\ SyncInv /\ MirrorInv /\ OnZones => MirrorInv'
<1> SUFFICES ASSUME TypeOK, SyncInv, MirrorInv, OnZones PROVE MirrorInv'
    OBVIOUS
<1> DEFINE e == Head(finished)
<1>1. /\ finished # <<>> /\ finished' = Tail(finished) /\ e.signal = "zones"
      /\ UNCHANGED <<value, link, replies, cached, synced, lateSync>>
    BY DEF OnZones, Finished, serverVars
<1>2. LastTells'
    BY <1>1 DEF MirrorInv, LastTells
<1>3. CASE link # "Valid"
    BY <1>1, <1>2, <1>3 DEF MirrorInv, FinishedTells, NothingStale
<1>4. CASE link = "Valid" /\ synced
  <2>1. requests' = requests /\ zoneMap' = zoneMap /\ crossed' = crossed /\ Started
      BY <1>4 DEF OnZones, Started
  <2>2. \A z \in zoneMap, p \in Property : Corrected(z, p) => Corrected(z, p)'
      BY <1>1, <2>1 DEF Corrected, Asked
  <2>3. Range(finished) = Range(finished)' \cup {e}
      BY <1>1, TailRange DEF TypeOK
  <2>4. FinishedTells'
      BY <1>1, <2>1, <2>2, FinishedTail DEF MirrorInv, FinishedTells
  <2>5. \A z \in zoneMap, p \in Property : ~About(e, z, p)
      BY <1>1 DEF About
  <2>6. NothingStale'
      BY <1>1, <2>1, <2>2, <2>3, <2>5 DEF MirrorInv, NothingStale
  <2> QED BY <1>2, <2>4, <2>6 DEF MirrorInv
<1>5. CASE link = "Valid" /\ ~synced
  <2>1. \A z \in zoneMap', p \in Property : Corrected(z, p)'
      BY <1>5, AsksForAll DEF Corrected
  <2> QED BY <1>2, <2>1 DEF MirrorInv, FinishedTells, NothingStale
<1> QED BY <1>3, <1>4, <1>5

LEMMA MirrorNext ==
    TypeOK /\ SyncInv /\ MirrorInv /\ ~Forgetful /\ [Next]_vars => MirrorInv'
<1> SUFFICES ASSUME TypeOK, SyncInv, MirrorInv, ~Forgetful, [Next]_vars
             PROVE  MirrorInv'
    OBVIOUS
<1>1. ASSUME UNCHANGED <<value, requests, replies, finished, cached, zoneMap, synced,
                         crossed, lateSync>>,
             link' = "Valid" => link = "Valid"
      PROVE  MirrorInv'
  <2>1. (Started' <=> Started) /\ \A z, p : Corrected(z, p)' <=> Corrected(z, p)
      BY <1>1 DEF Started, OnTheWay, Asked, Answered, Coming, Corrected
  <2> QED BY <1>1, <2>1 DEF MirrorInv, LastTells, FinishedTells, NothingStale
<1>2. CASE LinkUp \/ LinkDown
    BY <1>2, MirrorLink
<1>3. ASSUME NEW f \in Feature, Attach(f) \/ Detach(f) PROVE MirrorInv'
  <2>1. /\ UNCHANGED <<value, requests, replies, finished, cached, zoneMap, synced,
                       crossed, lateSync>>
        /\ link' = "Valid" => link = "Valid"
      BY <1>3 DEF Attach, Detach, serverVars, linkVars, backendVars, history
  <2> QED BY <1>1, <2>1
<1>4. CASE UNCHANGED vars
    BY <1>1, <1>4 DEF vars, serverVars, linkVars, backendVars, history
<1>5. CASE ServerSteps
    BY <1>5, MirrorServer
<1> QED BY <1>2, <1>3, <1>4, <1>5, MirrorArrive, MirrorChanged, MirrorValue, MirrorZones
        DEF Next, ServerSteps, Read, Deliver

(* What the zones show is true: complete whenever the backend calls itself   *)
(* synchronised, and the server's own values whenever nothing is on its way, *)
(* for a server that keeps its zone objects when it is asked for the zones.  *)
(* The exceptions of QuietAgrees are all there are, for any queues: a change *)
(* that overtook an answer about its property, and a connection that found   *)
(* the backend synchronised by an answer of the last one.                    *)
THEOREM ZonesAgreeAlways == ASSUME ~Forgetful PROVE Spec => []ZonesAgree
<1>1. TypeOK /\ SyncInv /\ MirrorInv => QuietAgrees
  <2> SUFFICES ASSUME TypeOK, SyncInv, MirrorInv, link = "Valid", requests = <<>>,
                      replies = <<>>, finished = <<>>, NEW f \in attached
               PROVE  /\ f \in initialized
                      /\ ~lateSync =>
                          /\ ZoneOf[f] = General => serverZones \subseteq children[f]
                          /\ \A z \in Views(f, children) \cap (serverZones \cup {General}),
                                p \in Property :
                                  <<z, p>> \notin crossed => shown[f][z][p] = value[z][p]
      BY DEF QuietAgrees, Quiet
  <2>1. Range(requests) = {} /\ Range(replies) = {} /\ Range(finished) = {} /\ Coming = {}
      BY EmptyRange DEF Coming
  <2>2. synced /\ Started
      BY <2>1 DEF SyncInv, Going, ZonesUnderWay, Started, OnTheWay, Asked, Answered
  <2>3. f \in initialized
      BY <2>2 DEF SyncInv, SyncedShown
  <2>4. ASSUME ~lateSync PROVE zones = serverZones /\ serverZones \cup {General} \subseteq zoneMap
      BY <2>2, <2>4 DEF SyncInv, ZonesKnown
  <2>5. ~lateSync /\ ZoneOf[f] = General => serverZones \subseteq children[f]
      BY <2>4 DEF SyncInv, ZonesKnown
  <2>6. ASSUME ~lateSync, NEW z \in Views(f, children) \cap (serverZones \cup {General}),
               NEW p \in Property, <<z, p>> \notin crossed
        PROVE  shown[f][z][p] = value[z][p]
    <3>1. z \in zoneMap
        BY <2>4, <2>6
    <3>2. shown[f][z][p] = cached[z][p]
        BY <2>2, <2>6, <3>1 DEF SyncInv, SyncedShown
    <3>3. cached[z][p] = value[z][p]
        BY <2>1, <2>2, <2>6, <3>1 DEF MirrorInv, NothingStale, Corrected, Asked
    <3> QED BY <3>2, <3>3
  <2> QED BY <2>3, <2>5, <2>6
<1> QED BY <1>1, TypeCorrect, SyncAlways, SyncedAreShown, MirrorInit, MirrorNext, PTL
        DEF Spec, ZonesAgree
==============================================================================
