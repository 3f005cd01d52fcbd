-------------------------- MODULE MCServiceManager --------------------------
(* Instances of ServiceManager for TLC. *)
EXTENDS ServiceManager

CONSTANTS media, mediaDebug, simulator, broken, malformed, builtin, app, player, tuner

\* media and mediaDebug are two builds of one plugin; broken does not load;
\* malformed names no interface.
MCName == [f \in Plugin |-> IF f = mediaDebug THEN media ELSE f]
MCBase == MCName
MCStatic == <<builtin>>
MCInterfaces == [s \in Source |->
                    CASE s \in {media, mediaDebug} -> {player, tuner}
                      [] s = malformed -> {}
                      [] s = app -> {tuner}
                      [] OTHER -> {player}]
==============================================================================
