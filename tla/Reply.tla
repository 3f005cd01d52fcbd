-------------------------------- MODULE Reply --------------------------------
(***************************************************************************)
(* What a QIviPendingReply promises: "A result for the pending reply can   *)
(* only be set once and it either indicates a failed(setFailed) or a       *)
(* successful(setSuccess) call."  Nobody but its own call decides which    *)
(* value it succeeds with.                                                 *)
(***************************************************************************)
CONSTANTS
    Replies,         \* pending replies
    Open,            \* the outcome of a reply whose result is not set
    Outcomes         \* what each reply may be set to

VARIABLE outcome

Init == outcome = [r \in Replies |-> Open]

Settle(r) ==
    /\ outcome[r] = Open
    /\ \E o \in Outcomes[r] : outcome' = [outcome EXCEPT ![r] = o]

Next == \E r \in Replies : Settle(r)

Spec == Init /\ [][Next]_outcome
==============================================================================
