---------------------------- MODULE MCPendingReply ----------------------------
(* Instances of PendingReply for TLC. *)
EXTENDS PendingReply

OnlySuccessOrBoth == {{"success"}, {"success", "failed"}}
==============================================================================
