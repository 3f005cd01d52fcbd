--------------------------- MODULE MCRemoteReplies ---------------------------
(* Instances of RemoteReplies for TLC. *)
EXTENDS RemoteReplies

CONSTANTS a, b, a1, b1

MCCaller == [c \in Calls |-> IF c = b1 THEN b ELSE a]
BothOrSuccess == {{"success"}, {"success", "failed"}}
==============================================================================
