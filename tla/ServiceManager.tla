--------------------------- MODULE ServiceManager ---------------------------
(***************************************************************************)
(* QIviServiceManager: the process-wide list of backends.  searchPlugins() *)
(* registers the plugins of all plugin directories by their metadata, in   *)
(* the order the file system lists them, release and debug builds of one   *)
(* plugin among them; the static plugins and the objects an application    *)
(* registers follow.  A plugin is loaded, and its service object made, by  *)
(* the first search that finds it.                                         *)
(***************************************************************************)
EXTENDS Naturals, Sequences, FiniteSets

CONSTANTS
    Plugin,       \* plugin files, by their canonical name
    StaticPlugin, \* the static plugins, in their order
    Object,       \* backend objects an application registers
    Interface,    \* interface names
    Interfaces,   \* the interfaces in each one's metadata
    Name,         \* the class name in a plugin's metadata
    Base,         \* its file without the library and debug suffixes
    Debug,        \* plugins built for debugging
    LoadDebug,    \* whether QtIviCore was
    Simulation,   \* those with the simulation key or file name
    Loads,        \* those that give a QIviServiceInterface when loaded
    None,         \* nullptr
    MaxFiles,     \* bound: files in the plugin directories
    MaxUnloads    \* bound: calls of unloadAllBackends()

Static == {StaticPlugin[i] : i \in DOMAIN StaticPlugin}
Source == Plugin \cup Static \cup Object
Flags == SUBSET {"Production", "Simulation"}

\* Two files are builds of one plugin.
SamePlugin(f, g) == Name[f] = Name[g] /\ Base[f] = Base[g]

(* The builds of one plugin implement the same interfaces: the comparison of *)
(* addBackend() that is meant to see this compares a backend with itself.    *)
ASSUME ManagerAssumption ==
    /\ StaticPlugin \in Seq(Static)
    /\ Plugin \cap (Static \cup Object) = {}
    /\ Interfaces \in [Source -> SUBSET Interface]
    /\ \A f, g \in Plugin : SamePlugin(f, g) => Interfaces[f] = Interfaces[g]
    /\ Debug \subseteq Plugin /\ LoadDebug \in BOOLEAN
    /\ Simulation \subseteq Source /\ Loads \subseteq Source
    /\ MaxFiles \in Nat /\ MaxUnloads \in Nat
    /\ None \notin Nat

VARIABLES
    todo,            \* files searchPlugins() has not come to yet
    statics,         \* static plugins it has not come to yet
    backends,        \* m_backends: source and proxyServiceObject
    interfaceNames,  \* m_interfaceNames
    alive,           \* service objects made and not deleted
    made,            \* number of service objects made
    deleted,         \* application objects that are gone
    seen,            \* files registered since the last unload
    unloads

managerVars ==
    <<todo, statics, backends, interfaceNames, alive, made, deleted, seen, unloads>>

Entry == [source : Source, object : 1 .. made \cup {None}]
Files == UNION {[1 .. n -> Plugin] : n \in 0 .. MaxFiles}

ManagerTypeOK ==
    /\ todo \in Seq(Plugin) /\ statics \in Seq(Static)
    /\ backends \in Seq(Entry)
    /\ interfaceNames \subseteq Interface
    /\ made \in Nat /\ alive \subseteq 1 .. made
    /\ deleted \subseteq Object
    /\ seen \subseteq Plugin
    /\ unloads \in 0 .. MaxUnloads

\* The directories may hold any files, a link and its target too.
ManagerInit ==
    /\ todo \in Files /\ statics = StaticPlugin
    /\ backends = <<>> /\ interfaceNames = {}
    /\ alive = {} /\ made = 0 /\ deleted = {} /\ seen = {} /\ unloads = 0

------------------------------------------------------------------------------
\* A new Backend has no object; 0 stands for what an unset pointer holds.
UnloadedUnset(s) == [source |-> s, object |-> 0]

Unloaded(s) == [source |-> s, object |-> None]

\* addBackend() for a backend that replaces none
Listed(s) == Append(backends, Unloaded(s))

\* The rows of the list that hold a build of the plugin f
RowsOf(f) == {i \in DOMAIN backends : /\ backends[i].source \in Plugin
                                      /\ SamePlugin(f, backends[i].source)}

Fits(f) == (f \in Debug) = LoadDebug

\* The build that is listed has to make way for another one.
WrongBuildNever(f) == FALSE

WrongBuild(f) == ~Fits(f)

\* registerBackend() of a file: without interfaces it is malformed.
Register(f) ==
    \/ /\ Interfaces[f] # {} /\ RowsOf(f) = {}
       /\ backends' = Listed(f)
       /\ interfaceNames' = interfaceNames \cup Interfaces[f]
    \/ \E i \in RowsOf(f) :
          /\ Interfaces[f] # {} /\ \A j \in RowsOf(f) : i <= j
          /\ IF backends[i].source # f /\ WrongBuild(backends[i].source)
             THEN /\ backends' = [backends EXCEPT ![i] = Unloaded(f)]
                  /\ interfaceNames' = interfaceNames \cup Interfaces[f]
             ELSE UNCHANGED <<backends, interfaceNames>>
    \/ Interfaces[f] = {} /\ UNCHANGED <<backends, interfaceNames>>

\* searchPlugins() comes to the next file, or to the next static plugin.
SearchFile ==
    /\ todo # <<>>
    /\ todo' = Tail(todo)
    /\ Register(Head(todo))
    /\ seen' = IF Interfaces[Head(todo)] = {} THEN seen ELSE seen \cup {Head(todo)}
    /\ UNCHANGED <<statics, alive, made, deleted, unloads>>

SearchStatic ==
    /\ todo = <<>> /\ statics # <<>>
    /\ statics' = Tail(statics)
    /\ IF Interfaces[Head(statics)] = {} THEN UNCHANGED <<backends, interfaceNames>>
       ELSE /\ backends' = Listed(Head(statics))
            /\ interfaceNames' = interfaceNames \cup Interfaces[Head(statics)]
    /\ UNCHANGED <<todo, alive, made, deleted, seen, unloads>>

\* The constructor has returned: only then can anybody call the manager.
Searched == todo = <<>> /\ statics = <<>>

(* registerService(): an object that is no QIviServiceInterface, or comes    *)
(* without interfaces, is refused.  Nothing looks whether it is listed.      *)
RegisterService(o) ==
    /\ Searched
    /\ o \notin deleted /\ \A i \in DOMAIN backends : backends[i].source # o
    /\ o \in Loads /\ Interfaces[o] # {}
    /\ backends' = Listed(o)
    /\ interfaceNames' = interfaceNames \cup Interfaces[o]
    /\ UNCHANGED <<todo, statics, alive, made, deleted, seen, unloads>>

------------------------------------------------------------------------------
\* createServiceObject() has to make an object for the row i, and can.
MakesAgain(i) == backends[i].source \in Loads

Makes(i) == backends[i].object = None /\ backends[i].source \in Loads

(* createServiceObject() for the rows asked for, in order: a plugin is       *)
(* loaded and its object made unless that was done before; one that cannot   *)
(* be loaded is tried again each time.                                       *)
CreateServiceObjects(rows) ==
    LET new == {i \in rows : Makes(i)}
        Number(i) == made + Cardinality({j \in new : j <= i})
    IN
    /\ backends' = [i \in DOMAIN backends |->
                       IF i \in new THEN [backends[i] EXCEPT !.object = Number(i)]
                                    ELSE backends[i]]
    /\ made' = made + Cardinality(new)
    /\ alive' = alive \cup (made + 1 .. made')
    /\ UNCHANGED <<todo, statics, interfaceNames, deleted, seen, unloads>>

Kind(s) == IF s \in Simulation THEN "Simulation" ELSE "Production"

FindServiceByInterface(interface, flags) ==
    /\ Searched
    /\ CreateServiceObjects({i \in DOMAIN backends :
           /\ interface \in Interfaces[backends[i].source]
           /\ Kind(backends[i].source) \in flags})

\* data() for the ServiceObjectRole
Data(row) == Searched /\ CreateServiceObjects({row})

\* unloadAllBackends() deletes the service objects and the registered objects.
Remaining == alive \ {backends[i].object : i \in DOMAIN backends}

UnloadAllBackends ==
    /\ Searched
    /\ unloads < MaxUnloads /\ unloads' = unloads + 1
    /\ alive' = Remaining
    /\ deleted' = deleted \cup (Object \cap {backends[i].source : i \in DOMAIN backends})
    /\ backends' = <<>> /\ interfaceNames' = {} /\ seen' = {}
    /\ UNCHANGED <<todo, statics, made>>

\* searchPlugins() again, after everything was unloaded
SearchPlugins ==
    /\ Searched /\ backends = <<>> /\ unloads > 0
    /\ todo' \in Files \ {<<>>} /\ statics' = StaticPlugin
    /\ UNCHANGED <<backends, interfaceNames, alive, made, deleted, seen, unloads>>

ManagerNext ==
    \/ SearchFile \/ SearchStatic \/ SearchPlugins
    \/ \E o \in Object : RegisterService(o)
    \/ \E interface \in Interface, flags \in Flags : FindServiceByInterface(interface, flags)
    \/ \E row \in DOMAIN backends : Data(row)
    \/ UnloadAllBackends

ManagerSpec == ManagerInit /\ [][ManagerNext]_managerVars

------------------------------------------------------------------------------
(* No plugin is listed twice, whatever the order in which its builds turn    *)
(* up, and one that has a build that fits QtIviCore is listed, in such a     *)
(* build; hasInterface() names what some listed backend offers.              *)
RightBuildListed ==
    /\ \A f \in seen :
          /\ \A i, j \in RowsOf(f) : i = j
          /\ Fits(f) => \E i \in RowsOf(f) : Fits(backends[i].source)
    /\ interfaceNames = UNION {Interfaces[backends[i].source] : i \in DOMAIN backends}

(* "A qtivicore release build won't accept plugins from a debug build", nor  *)
(* the other way round (qiviservicemanager.cpp:416).  The code lists a build *)
(* that does not fit as long as no other one has turned up.                  *)
OnlyFittingBuilds ==
    \A i \in DOMAIN backends :
        backends[i].source \in Plugin => Fits(backends[i].source)

(* The service objects that exist are those of the listed backends, one for  *)
(* each: a replaced or unloaded backend leaves none behind, and no search    *)
(* makes a second one while the features use the first.                      *)
OneObjectEach ==
    /\ alive = {backends[i].object : i \in DOMAIN backends} \ {None}
    /\ \A i, j \in DOMAIN backends :
          backends[i].object # None /\ backends[i].object = backends[j].object => i = j
==============================================================================
