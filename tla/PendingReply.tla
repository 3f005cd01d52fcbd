----------------------------- MODULE PendingReply -----------------------------
(***************************************************************************)
(* One QIviPendingReply: the copies that share its watcher, the setters,   *)
(* the C++ functors and JavaScript callbacks given to then(), and what the *)
(* slots and functors may do in the middle of the emission.                *)
(***************************************************************************)
EXTENDS Naturals, FiniteSets

CONSTANTS
    Values,          \* results setSuccess() is called with
    Refused,         \* those not convertible to the type of the reply
    Thens,           \* calls of then()
    FunctorSets,     \* the functors a then() may be given
    MaxCopies,       \* bound of this model on the copies of the reply
    NestedJs,        \* slots call the JavaScript then() during the emission
    None

ASSUME PendingReplyAssumption ==
    /\ Refused \subseteq Values /\ None \notin Values /\ None \notin Thens
    /\ FunctorSets \subseteq SUBSET {"success", "failed"}
    /\ MaxCopies \in Nat \ {0} /\ NestedJs \in BOOLEAN

VARIABLES
    copies,          \* copies of the reply
    available,       \* m_resultAvailable
    success,         \* m_success
    data,            \* m_data
    stage,           \* signal being emitted, "quiet" for none
    connected,       \* then() calls connected to replySuccess and replyFailed
    toCall,          \* of those, the ones the emission has not reached yet
    callback,        \* then() call m_successFunctor and m_failedFunctor are of
    made,            \* how a then() was called
    given,           \* the functors it was given
    ran              \* how often its functors were run

resultVars == <<available, success, data>>
thenVars == <<connected, callback, made, given>>
vars == <<copies, resultVars, stage, toCall, thenVars, ran>>

Functor == {"success", "failed"}

TypeOK ==
    /\ copies \in 0 .. MaxCopies
    /\ available \in BOOLEAN /\ success \in BOOLEAN
    /\ data \in (Values \ Refused) \cup {None}
    /\ stage \in {"quiet", "valueChanged", "result"}
    /\ connected \in [Functor -> SUBSET Thens] /\ toCall \in SUBSET Thens
    /\ callback \in Thens \cup {None}
    /\ made \in [Thens -> {"no", "js", "cpp"}]
    /\ given \in [Thens -> SUBSET Functor]
    /\ ran \in [Thens -> [Functor -> Nat]]

Init ==
    /\ copies = 1
    /\ available = FALSE /\ success = FALSE /\ data = None
    /\ stage = "quiet"
    /\ connected = [f \in Functor |-> {}] /\ toCall = {}
    /\ callback = None
    /\ made = [t \in Thens |-> "no"]
    /\ given = [t \in Thens |-> {}]
    /\ ran = [t \in Thens |-> [f \in Functor |-> 0]]

------------------------------------------------------------------------------
\* The functor that fits the result.
Fitting == IF success THEN "success" ELSE "failed"

Run(t, f) == ran' = [ran EXCEPT ![t][f] = @ + 1]

Copy ==
    /\ copies \in 1 .. MaxCopies - 1
    /\ copies' = copies + 1
    /\ UNCHANGED <<resultVars, stage, toCall, thenVars, ran>>

\* The setter of a result holds a copy until the signals are emitted.
Drop ==
    /\ copies > (IF stage = "quiet" THEN 0 ELSE 1)
    /\ copies' = copies - 1
    /\ UNCHANGED <<resultVars, stage, toCall, thenVars, ran>>

------------------------------------------------------------------------------
(* The JavaScript then() overrides the callbacks of the one before and, once *)
(* there is a result, calls the one for it.                                  *)
ThenJs(t, functors) ==
    /\ copies > 0 /\ made[t] = "no" /\ (stage = "quiet" \/ NestedJs)
    /\ made' = [made EXCEPT ![t] = "js"]
    /\ given' = [given EXCEPT ![t] = functors]
    /\ callback' = t
    /\ IF available /\ Fitting \in functors THEN Run(t, Fitting)
                                            ELSE UNCHANGED ran
    /\ UNCHANGED <<copies, resultVars, stage, connected, toCall>>

(* then() of the template: with a result it runs one functor at once, else   *)
(* each is connected to its signal.                                          *)
ChosenBySuccess(functors) ==
    IF success THEN functors \cap {"success"} ELSE functors

Chosen(functors) ==
    IF success /\ "success" \in functors THEN {"success"}
                                         ELSE functors \cap {"failed"}

ThenCpp(t, functors) ==
    /\ copies > 0 /\ made[t] = "no"
    /\ made' = [made EXCEPT ![t] = "cpp"]
    /\ given' = [given EXCEPT ![t] = functors]
    /\ IF available
       THEN /\ ran' = [ran EXCEPT ![t] =
                        [f \in Functor |-> IF f \in Chosen(functors) THEN @[f] + 1
                                                                     ELSE @[f]]]
            /\ UNCHANGED connected
       ELSE /\ connected' = [f \in Functor |->
                                IF f \in functors THEN connected[f] \cup {t}
                                                  ELSE connected[f]]
            /\ UNCHANGED ran
    /\ UNCHANGED <<copies, resultVars, stage, toCall, callback>>

------------------------------------------------------------------------------
\* "Result is already set. Ignoring request"
MaySetAnyTime == TRUE

MaySet == ~available

\* A value has the type of the reply, or can be converted to it.
AcceptedAny(v) == TRUE

Accepted(v) == v \notin Refused

\* setSuccess(): a value the type of the reply refuses is dropped.
SetSuccess(v) ==
    /\ copies > 0 /\ MaySet /\ Accepted(v)
    /\ available' = TRUE /\ success' = TRUE /\ data' = v
    /\ stage' = "valueChanged"
    /\ UNCHANGED <<copies, toCall, thenVars, ran>>

SetFailed ==
    /\ copies > 0 /\ MaySet
    /\ available' = TRUE
    /\ stage' = "valueChanged"
    /\ UNCHANGED <<copies, success, data, toCall, thenVars, ran>>

\* The slots of valueChanged are done: emit replySuccess() or replyFailed().
EmitResult ==
    /\ stage = "valueChanged"
    /\ stage' = "result"
    /\ toCall' = connected[Fitting]
    /\ UNCHANGED <<copies, resultVars, thenVars, ran>>

\* The next functor connected to the signal runs.
CallConnected(t) ==
    /\ stage = "result" /\ t \in toCall
    /\ toCall' = toCall \ {t}
    /\ Run(t, Fitting)
    /\ UNCHANGED <<copies, resultVars, stage, thenVars>>

\* callSuccessCallback(), callFailedCallback()
CallCallback ==
    /\ stage = "result" /\ toCall = {}
    /\ stage' = "quiet"
    /\ IF callback # None /\ Fitting \in given[callback]
       THEN Run(callback, Fitting) ELSE UNCHANGED ran
    /\ UNCHANGED <<copies, resultVars, toCall, thenVars>>

Next ==
    \/ Copy \/ Drop
    \/ \E t \in Thens : \E functors \in FunctorSets :
        ThenJs(t, functors) \/ ThenCpp(t, functors)
    \/ \E v \in Values : SetSuccess(v)
    \/ SetFailed
    \/ EmitResult
    \/ \E t \in Thens : CallConnected(t)
    \/ CallCallback

Spec == Init /\ [][Next]_vars

------------------------------------------------------------------------------
\* A result is set and its emission is over.
Delivered == available /\ stage = "quiet"

\* callbacks a later JavaScript then() has replaced before the result came
Overridden(t) == made[t] = "js" /\ callback # t

(* Each then() has its functor for the outcome run exactly once, and the     *)
(* other one never: whether it was called before the result, after it, or by *)
(* a slot in the middle of the emission.  Only the callbacks of a JavaScript *)
(* then() that a later one has replaced may stay unused.                     *)
FunctorRunsOnce ==
    \A t \in Thens :
        /\ \A f \in Functor :
            /\ ran[t][f] <= 1
            /\ ran[t][f] = 1 => available /\ f = Fitting
        /\ Delivered /\ ~Overridden(t) =>
            (ran[t][Fitting] = 1 <=> Fitting \in given[t])

\* The outcome a copy of the reply shows.
Shown == IF ~available THEN None ELSE IF success THEN data ELSE "failed"

OneOutcome == INSTANCE Reply WITH
    Replies <- {"reply"}, Open <- None,
    Outcomes <- [r \in {"reply"} |-> (Values \ Refused) \cup {"failed"}],
    outcome <- [r \in {"reply"} |-> Shown]

(* The result is set once, whichever copy, functor or callback tries again.  *)
SingleOutcome == OneOutcome!Spec

\* The success functors connected to the watcher hold it, too.
Held == copies > 0 \/ connected["success"] # {}

(* "This data is freed once all copies of the pending replies are deleted."  *)
FreedWhenUnused == copies = 0 => ~Held
==============================================================================
