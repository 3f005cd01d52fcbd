------------------------- MODULE PendingReplyProofs -------------------------
(***************************************************************************)
(* Theorems about PendingReply for any number of copies, then() calls and  *)
(* values: which functors run, how often, and that the reply implements    *)
(* the single assignment of module Reply.                                  *)
(***************************************************************************)
EXTENDS PendingReply, TLAPS

(* Callers give a success functor wherever they give a failed one, and no    *)
(* slot calls the JavaScript then() in the middle of the emission.           *)
Disciplined ==
    /\ ~NestedJs
    /\ \A functors \in FunctorSets : "failed" \in functors => "success" \in functors

\* Where the emission is: nothing happens before there is a result.
EmissionInv ==
    /\ ~available => stage = "quiet" /\ ~success
    /\ stage # "result" => toCall = {}
    /\ toCall \subseteq connected[Fitting]

LEMMA FittingTyped == Fitting \in Functor
    BY DEF Fitting, Functor

------------------------------------------------------------------------------
LEMMA InitTyped == Init => TypeOK
<1> SUFFICES ASSUME Init PROVE TypeOK
    OBVIOUS
<1>1. copies \in 0 .. MaxCopies
    BY PendingReplyAssumption DEF Init
<1>2. ran \in [Thens -> [Functor -> Nat]]
    BY DEF Init
<1> QED BY <1>1, <1>2 DEF Init, TypeOK

\* Counting a run of a functor.
LEMMA RunTyped ==
    ASSUME TypeOK, NEW t \in Thens, NEW f \in Functor, Run(t, f)
    PROVE  /\ ran' \in [Thens -> [Functor -> Nat]]
           /\ ran'[t][f] = ran[t][f] + 1
           /\ \A g \in Functor : g # f => ran'[t][g] = ran[t][g]
           /\ \A u \in Thens : u # t => ran'[u] = ran[u]
    BY DEF TypeOK, Run

LEMMA ThenTyped ==
    ASSUME TypeOK, NEW t \in Thens, NEW functors \in FunctorSets,
           ThenJs(t, functors) \/ ThenCpp(t, functors)
    PROVE  TypeOK'
<1>1. functors \in SUBSET Functor
    BY PendingReplyAssumption DEF Functor
<1>2. CASE ThenJs(t, functors)
  <2>1. ran' \in [Thens -> [Functor -> Nat]]
    BY <1>2, RunTyped, FittingTyped DEF ThenJs, TypeOK
  <2> QED BY <1>1, <1>2, <2>1 DEF ThenJs, TypeOK, resultVars
<1>3. CASE ThenCpp(t, functors)
  <2>1. ran' \in [Thens -> [Functor -> Nat]]
    <3>1. ran[t] \in [Functor -> Nat]
      BY DEF TypeOK
    <3>2. [f \in Functor |-> IF f \in Chosen(functors) THEN ran[t][f] + 1 ELSE ran[t][f]]
            \in [Functor -> Nat]
      BY <3>1
    <3> QED BY <1>3, <3>2 DEF ThenCpp, TypeOK
  <2>2. connected' \in [Functor -> SUBSET Thens]
    BY <1>3 DEF ThenCpp, TypeOK
  <2> QED BY <1>1, <1>3, <2>1, <2>2 DEF ThenCpp, TypeOK, resultVars
<1> QED BY <1>2, <1>3

LEMMA NextTyped == TypeOK /\ [Next]_vars => TypeOK'
<1> SUFFICES ASSUME TypeOK, [Next]_vars PROVE TypeOK'
    OBVIOUS
<1>1. CASE Copy \/ Drop
    BY <1>1, PendingReplyAssumption DEF Copy, Drop, TypeOK, resultVars, thenVars
<1>2. ASSUME NEW v \in Values, SetSuccess(v) PROVE TypeOK'
    BY <1>2 DEF SetSuccess, Accepted, TypeOK, thenVars
<1>3. CASE SetFailed
    BY <1>3 DEF SetFailed, TypeOK, thenVars
<1>4. CASE EmitResult
  <2>1. connected[Fitting] \in SUBSET Thens
    BY FittingTyped DEF TypeOK
  <2> QED BY <1>4, <2>1 DEF EmitResult, TypeOK, resultVars, thenVars
<1>5. ASSUME NEW t \in Thens, CallConnected(t) PROVE TypeOK'
  <2>1. ran' \in [Thens -> [Functor -> Nat]]
    BY <1>5, RunTyped, FittingTyped DEF CallConnected
  <2> QED BY <1>5, <2>1 DEF CallConnected, TypeOK, resultVars, thenVars
<1>6. CASE CallCallback
  <2>1. ran' \in [Thens -> [Functor -> Nat]]
    <3>1. CASE UNCHANGED ran
      BY <3>1 DEF TypeOK
    <3>2. CASE callback # None /\ Run(callback, Fitting)
      BY <3>2, RunTyped, FittingTyped DEF TypeOK
    <3> QED BY <1>6, <3>1, <3>2 DEF CallCallback
  <2> QED BY <1>6, <2>1 DEF CallCallback, TypeOK, resultVars, thenVars
<1>7. CASE UNCHANGED vars
    BY <1>7 DEF vars, TypeOK, resultVars, thenVars
<1> QED BY <1>1, <1>2, <1>3, <1>4, <1>5, <1>6, <1>7, ThenTyped DEF Next

\* Every variable keeps its type, a refused value never is the result.
THEOREM ReplyTyped == Spec => []TypeOK
    BY InitTyped, NextTyped, PTL DEF Spec

------------------------------------------------------------------------------
LEMMA EmissionOrdered == TypeOK /\ EmissionInv /\ [Next]_vars => EmissionInv'
<1> SUFFICES ASSUME TypeOK, EmissionInv, [Next]_vars PROVE EmissionInv'
    OBVIOUS
<1> USE FittingTyped DEF EmissionInv
<1>1. CASE Copy \/ Drop
    BY <1>1 DEF Copy, Drop, resultVars, thenVars, Fitting
<1>2. ASSUME NEW t \in Thens, NEW functors \in FunctorSets,
             ThenJs(t, functors) \/ ThenCpp(t, functors)
      PROVE  EmissionInv'
  <2>1. CASE available
    <3>1. UNCHANGED <<resultVars, stage, toCall, connected>>
      BY <1>2, <2>1 DEF ThenJs, ThenCpp
    <3> QED BY <2>1, <3>1 DEF resultVars, Fitting
  <2>2. CASE ~available
    <3>1. toCall = {} /\ toCall' = toCall /\ stage' = stage /\ UNCHANGED resultVars
      BY <1>2, <2>2 DEF ThenJs, ThenCpp
    <3> QED BY <2>2, <3>1 DEF resultVars
  <2> QED BY <2>1, <2>2
<1>3. ASSUME NEW v \in Values, SetSuccess(v) PROVE EmissionInv'
    BY <1>3 DEF SetSuccess, MaySet, thenVars
<1>4. CASE SetFailed
    BY <1>4 DEF SetFailed, MaySet, thenVars
<1>5. CASE EmitResult
    BY <1>5 DEF EmitResult, resultVars, thenVars, Fitting
<1>6. ASSUME NEW t \in Thens, CallConnected(t) PROVE EmissionInv'
    BY <1>6 DEF CallConnected, resultVars, thenVars, Fitting
<1>7. CASE CallCallback
    BY <1>7 DEF CallCallback, resultVars, thenVars, Fitting
<1>8. CASE UNCHANGED vars
    BY <1>8 DEF vars, resultVars, thenVars, Fitting
<1> QED BY <1>1, <1>2, <1>3, <1>4, <1>5, <1>6, <1>7, <1>8 DEF Next

\* Before there is a result no signal is on its way, and nothing has succeeded.
LEMMA EmissionAlways == Spec => []EmissionInv
<1>1. Init => EmissionInv
    BY DEF Init, EmissionInv
<1> QED BY <1>1, EmissionOrdered, ReplyTyped, PTL DEF Spec

(* The copies of a reply, its setters and the emission implement a shared    *)
(* variable that is assigned once.                                           *)
THEOREM ReplyImplementsReply == Spec => SingleOutcome
<1> DEFINE Outcome == [r \in {"reply"} |-> Shown]
<1>1. Init => OneOutcome!Init
    BY DEF Init, OneOutcome!Init, Shown
<1>2. EmissionInv /\ [Next]_vars => [OneOutcome!Next]_Outcome
  <2> SUFFICES ASSUME EmissionInv, [Next]_vars
               PROVE  OneOutcome!Next \/ Outcome' = Outcome
    OBVIOUS
  <2>1. ASSUME NEW o \in (Values \ Refused) \cup {"failed"}, ~available, Shown' = o
        PROVE  OneOutcome!Next
    <3>1. Outcome["reply"] = None
      BY <2>1 DEF Shown
    <3>2. Outcome' = [Outcome EXCEPT !["reply"] = o]
      BY <2>1
    <3>3. o \in [r \in {"reply"} |-> (Values \ Refused) \cup {"failed"}]["reply"]
      OBVIOUS
    <3>4. OneOutcome!Settle("reply")
      BY <3>1, <3>2, <3>3 DEF OneOutcome!Settle
    <3> QED BY <3>4 DEF OneOutcome!Next
  <2>2. ASSUME NEW v \in Values, SetSuccess(v) PROVE OneOutcome!Next
    <3>1. v \in Values \ Refused /\ ~available /\ Shown' = v
      BY <2>2 DEF SetSuccess, Accepted, MaySet, Shown
    <3> QED BY <2>1, <3>1
  <2>3. CASE SetFailed
    <3>1. ~available /\ Shown' = "failed"
      BY <2>3 DEF SetFailed, MaySet, Shown, EmissionInv
    <3> QED BY <2>1, <3>1
  <2>4. ASSUME UNCHANGED resultVars PROVE Outcome' = Outcome
    BY <2>4 DEF resultVars, Shown
  <2> QED BY <2>2, <2>3, <2>4
        DEF Next, Copy, Drop, ThenJs, ThenCpp, EmitResult, CallConnected, CallCallback, vars
<1>3. Spec => [][OneOutcome!Next]_Outcome
    BY <1>2, EmissionAlways, PTL DEF Spec
<1> QED BY <1>1, <1>3, PTL DEF Spec, SingleOutcome, OneOutcome!Spec
------------------------------------------------------------------------------
\* The part of the invariant about one then().
Fine(t) ==
    /\ \A f \in Functor : ~available \/ f # Fitting => ran[t][f] = 0
    /\ ran[t][Fitting] \in {0, 1}
    /\ made[t] = "no" => given[t] = {} /\ callback # t /\ ran[t][Fitting] = 0
    /\ made[t] # "cpp" => \A f \in Functor : t \notin connected[f]
    /\ made[t] = "cpp" =>
        /\ callback # t
        /\ \A f \in Functor : t \in connected[f] => f \in given[t]
        /\ ~available => \A f \in given[t] : t \in connected[f]
        /\ available =>
            IF t \in connected[Fitting] /\ (stage = "valueChanged" \/ t \in toCall)
            THEN ran[t][Fitting] = 0
            ELSE (ran[t][Fitting] = 1 <=> Fitting \in given[t])
    /\ callback = t /\ available =>
        IF stage = "quiet" THEN (ran[t][Fitting] = 1 <=> Fitting \in given[t])
                           ELSE ran[t][Fitting] = 0

RunsOnceInv == \A t \in Thens : Fine(t)

LEMMA RunsOnceInit == Init => RunsOnceInv
<1> SUFFICES ASSUME Init, NEW t \in Thens PROVE Fine(t)
    BY DEF RunsOnceInv
<1> QED BY PendingReplyAssumption, FittingTyped DEF Init, Fine

\* then() of another caller changes nothing for t.
LEMMA OtherThen ==
    ASSUME TypeOK, NEW u \in Thens, NEW functors \in FunctorSets,
           ThenJs(u, functors) \/ ThenCpp(u, functors),
           NEW t \in Thens, t # u, Fine(t)
    PROVE  Fine(t)'
<1>1. /\ made'[t] = made[t] /\ given'[t] = given[t] /\ ran'[t] = ran[t]
      /\ \A f \in Functor : t \in connected'[f] <=> t \in connected[f]
      /\ callback' = t => callback = t
      /\ UNCHANGED <<available, success, stage, toCall>>
  <2>1. CASE ThenJs(u, functors)
    BY <2>1 DEF ThenJs, Run, TypeOK, resultVars
  <2>2. CASE ThenCpp(u, functors)
    <3>1. /\ made'[t] = made[t] /\ given'[t] = given[t] /\ callback' = callback
          /\ UNCHANGED <<available, success, stage, toCall>>
      BY <2>2 DEF ThenCpp, TypeOK, resultVars
    <3>2. ran'[t] = ran[t]
      BY <2>2 DEF ThenCpp, TypeOK
    <3>3. \A f \in Functor : t \in connected'[f] <=> t \in connected[f]
      <4>1. CASE available
        BY <2>2, <4>1 DEF ThenCpp
      <4>2. CASE ~available
        <5>1. connected' = [f \in Functor |-> IF f \in functors
                                 THEN connected[f] \cup {u} ELSE connected[f]]
          BY <2>2, <4>2 DEF ThenCpp
        <5> QED BY <5>1
      <4> QED BY <4>1, <4>2
    <3> QED BY <3>1, <3>2, <3>3
  <2> QED BY <2>1, <2>2
<1>2. Fitting' = Fitting
    BY <1>1 DEF Fitting
<1>3. t \in connected'[Fitting'] <=> t \in connected[Fitting]
    BY <1>1, <1>2, FittingTyped
<1>4. made'[t] # "cpp" => \A f \in Functor : t \notin connected'[f]
    BY <1>1 DEF Fine
<1>5. made'[t] = "cpp" =>
        /\ callback' # t
        /\ \A f \in Functor : t \in connected'[f] => f \in given'[t]
        /\ ~available' => \A f \in given'[t] : t \in connected'[f]
  <2>1. given[t] \subseteq Functor
    BY DEF TypeOK
  <2> QED BY <1>1, <2>1 DEF Fine
<1>6. made'[t] = "cpp" /\ available' =>
        IF t \in connected'[Fitting'] /\ (stage' = "valueChanged" \/ t \in toCall')
        THEN ran'[t][Fitting'] = 0
        ELSE (ran'[t][Fitting'] = 1 <=> Fitting' \in given'[t])
    BY <1>1, <1>2, <1>3 DEF Fine
<1>7. callback' = t /\ available' =>
        IF stage' = "quiet" THEN (ran'[t][Fitting'] = 1 <=> Fitting' \in given'[t])
                            ELSE ran'[t][Fitting'] = 0
    BY <1>1, <1>2 DEF Fine
<1>8. /\ \A f \in Functor : ~available' \/ f # Fitting' => ran'[t][f] = 0
      /\ ran'[t][Fitting'] \in {0, 1}
      /\ made'[t] = "no" => given'[t] = {} /\ callback' # t /\ ran'[t][Fitting'] = 0
    BY <1>1, <1>2 DEF Fine
<1> QED BY <1>4, <1>5, <1>6, <1>7, <1>8 DEF Fine

LEMMA JsThen ==
    ASSUME TypeOK, EmissionInv, Disciplined, NEW t \in Thens,
           NEW functors \in FunctorSets, ThenJs(t, functors), Fine(t)
    PROVE  Fine(t)'
<1>1. /\ made'[t] = "js" /\ given'[t] = functors /\ callback' = t
      /\ stage = "quiet" /\ made[t] = "no"
      /\ UNCHANGED <<available, success, stage, toCall, connected>>
    BY DEF ThenJs, TypeOK, Disciplined, resultVars
<1>2. Fitting' = Fitting
    BY <1>1 DEF Fitting
<1>3. ran[t][Fitting] = 0
    BY <1>1 DEF Fine
<1>4. CASE available /\ Fitting \in functors
  <2>1. ran'[t][Fitting] = 1 /\ \A f \in Functor : f # Fitting => ran'[t][f] = ran[t][f]
    BY <1>3, <1>4, RunTyped, FittingTyped DEF ThenJs
  <2> QED BY <1>1, <1>2, <1>3, <1>4, <2>1, FittingTyped DEF Fine
<1>5. CASE ~(available /\ Fitting \in functors)
  <2>1. ran' = ran
    BY <1>5 DEF ThenJs
  <2> QED BY <1>1, <1>2, <1>3, <1>5, <2>1, FittingTyped DEF Fine
<1> QED BY <1>4, <1>5

LEMMA CppThen ==
    ASSUME TypeOK, EmissionInv, Disciplined, NEW t \in Thens,
           NEW functors \in FunctorSets, ThenCpp(t, functors), Fine(t)
    PROVE  Fine(t)'
<1>1. /\ made'[t] = "cpp" /\ given'[t] = functors /\ made[t] = "no"
      /\ UNCHANGED <<available, success, stage, toCall, callback>>
    BY DEF ThenCpp, TypeOK, resultVars
<1>2. Fitting' = Fitting
    BY <1>1 DEF Fitting
<1>3. /\ ran[t][Fitting] = 0 /\ callback # t
      /\ \A f \in Functor : t \notin connected[f]
      /\ functors \subseteq Functor
    BY <1>1, PendingReplyAssumption DEF Fine, Functor
<1>4. CASE available
  <2>1. /\ connected' = connected
        /\ \A f \in Functor : ran'[t][f] = IF f \in Chosen(functors) THEN ran[t][f] + 1
                                                                   ELSE ran[t][f]
    BY <1>4 DEF ThenCpp, TypeOK
  <2>2. Chosen(functors) = functors \cap {Fitting}
    BY <1>3 DEF Chosen, Fitting, Disciplined, Functor
  <2> HIDE DEF Chosen
  <2>3. ran'[t][Fitting] = IF Fitting \in functors THEN 1 ELSE 0
    BY <1>3, <2>1, <2>2, FittingTyped
  <2>4. \A f \in Functor : f # Fitting => ran'[t][f] = ran[t][f]
    BY <2>1, <2>2
  <2> QED BY <1>1, <1>2, <1>3, <1>4, <2>1, <2>3, <2>4, FittingTyped DEF Fine
<1>5. CASE ~available
  <2>1. ran' = ran /\ \A f \in Functor : t \in connected'[f] <=> f \in functors
    BY <1>3, <1>5 DEF ThenCpp, TypeOK
  <2> QED BY <1>1, <1>2, <1>3, <1>5, <2>1, FittingTyped DEF Fine
<1> QED BY <1>4, <1>5

\* A result is set: what was to run has not, and the emission begins.
LEMMA SetKeepsFine ==
    ASSUME TypeOK, EmissionInv, NEW t \in Thens, Fine(t), ~available, available',
           stage' = "valueChanged", UNCHANGED <<toCall, thenVars, ran>>
    PROVE  Fine(t)'
<1>1. /\ \A f \in Functor : ran'[t][f] = 0
      /\ Fitting' \in Functor /\ callback' = callback
      /\ UNCHANGED <<made, given, connected>>
    BY FittingTyped DEF Fine, thenVars, Fitting, Functor
<1>2. made[t] = "cpp" => (t \notin connected[Fitting'] => Fitting' \notin given[t])
    BY DEF Fine
<1> QED BY <1>1, <1>2 DEF Fine

LEMMA EmitKeepsFine ==
    ASSUME TypeOK, EmissionInv, NEW t \in Thens, Fine(t), EmitResult
    PROVE  Fine(t)'
<1>1. /\ available /\ stage = "valueChanged" /\ stage' = "result"
      /\ toCall' = connected[Fitting] /\ Fitting' = Fitting
      /\ UNCHANGED <<available, made, given, connected, ran, callback>>
    BY DEF EmitResult, EmissionInv, resultVars, thenVars, Fitting
<1> QED BY <1>1, FittingTyped DEF Fine

LEMMA CallKeepsFine ==
    ASSUME TypeOK, EmissionInv, NEW u \in Thens, CallConnected(u), NEW t \in Thens, Fine(t)
    PROVE  Fine(t)'
<1>1. /\ available /\ stage = "result" /\ u \in toCall /\ toCall' = toCall \ {u}
      /\ Fitting' = Fitting /\ u \in connected[Fitting]
      /\ UNCHANGED <<available, made, given, connected, callback, stage>>
    BY DEF CallConnected, EmissionInv, resultVars, thenVars, Fitting
<1>2. CASE t # u
  <2>1. ran'[t] = ran[t]
    BY <1>2, RunTyped, FittingTyped DEF CallConnected
  <2> QED BY <1>1, <1>2, <2>1, FittingTyped DEF Fine
<1>3. CASE t = u
  <2>1. made[t] = "cpp" /\ ran[t][Fitting] = 0 /\ Fitting \in given[t] /\ callback # t
    BY <1>1, <1>3, FittingTyped DEF Fine
  <2>2. ran'[t][Fitting] = 1 /\ \A f \in Functor : f # Fitting => ran'[t][f] = ran[t][f]
    BY <1>3, <2>1, RunTyped, FittingTyped DEF CallConnected
  <2> QED BY <1>1, <1>3, <2>1, <2>2, FittingTyped DEF Fine
<1> QED BY <1>2, <1>3

LEMMA CallbackKeepsFine ==
    ASSUME TypeOK, EmissionInv, CallCallback, NEW t \in Thens, Fine(t)
    PROVE  Fine(t)'
<1>1. /\ available /\ stage = "result" /\ stage' = "quiet" /\ toCall = {}
      /\ Fitting' = Fitting
      /\ UNCHANGED <<available, made, given, connected, callback, toCall>>
    BY DEF CallCallback, EmissionInv, resultVars, thenVars, Fitting
<1>2. CASE callback = t /\ Fitting \in given[t]
  <2>1. made[t] = "js" /\ ran[t][Fitting] = 0
    BY <1>1, <1>2 DEF Fine, TypeOK
  <2>2. callback # None
    BY <1>2, PendingReplyAssumption
  <2>3. ran'[t][Fitting] = 1 /\ \A f \in Functor : f # Fitting => ran'[t][f] = ran[t][f]
    BY <1>2, <2>1, <2>2, RunTyped, FittingTyped DEF CallCallback
  <2> QED BY <1>1, <1>2, <2>1, <2>3, FittingTyped DEF Fine
<1>3. CASE ~(callback = t /\ Fitting \in given[t])
  <2>1. ran'[t] = ran[t]
    BY <1>3, RunTyped, FittingTyped DEF CallCallback, TypeOK
  <2> QED BY <1>1, <1>3, <2>1, FittingTyped DEF Fine
<1> QED BY <1>2, <1>3

LEMMA RunsOnceStep ==
    ASSUME Disciplined, TypeOK, EmissionInv, RunsOnceInv, [Next]_vars
    PROVE  RunsOnceInv'
<1> SUFFICES ASSUME NEW t \in Thens PROVE Fine(t)'
    BY DEF RunsOnceInv
<1>1. Fine(t)
    BY DEF RunsOnceInv
<1>2. ASSUME NEW u \in Thens, NEW functors \in FunctorSets,
             ThenJs(u, functors) \/ ThenCpp(u, functors)
      PROVE  Fine(t)'
    BY <1>1, <1>2, OtherThen, JsThen, CppThen
<1>3. ASSUME NEW v \in Values, SetSuccess(v) PROVE Fine(t)'
    BY <1>1, <1>3, SetKeepsFine DEF SetSuccess, MaySet
<1>4. CASE SetFailed
    BY <1>1, <1>4, SetKeepsFine DEF SetFailed, MaySet
<1>5. CASE UNCHANGED <<resultVars, stage, toCall, thenVars, ran>>
  <2>1. Fitting' = Fitting /\ UNCHANGED <<available, stage, toCall, connected, callback,
                                         made, given, ran>>
    BY <1>5 DEF resultVars, thenVars, Fitting
  <2> QED BY <1>1, <2>1 DEF Fine
<1> QED BY <1>1, <1>2, <1>3, <1>4, <1>5, EmitKeepsFine, CallKeepsFine, CallbackKeepsFine
        DEF Next, Copy, Drop, vars

(* With a success functor wherever there is a failed one, and no JavaScript  *)
(* then() in the middle of the emission, each then() has the functor for the *)
(* outcome run exactly once and the other never, whenever it was called.     *)
THEOREM FunctorsRunOnce ==
    ASSUME Disciplined
    PROVE  Spec => []FunctorRunsOnce
<1>1. RunsOnceInv /\ EmissionInv /\ TypeOK => FunctorRunsOnce
  <2> SUFFICES ASSUME RunsOnceInv, EmissionInv, TypeOK, NEW t \in Thens
               PROVE  /\ \A f \in Functor :
                            /\ ran[t][f] <= 1
                            /\ ran[t][f] = 1 => available /\ f = Fitting
                      /\ Delivered /\ ~Overridden(t) =>
                            (ran[t][Fitting] = 1 <=> Fitting \in given[t])
    BY DEF FunctorRunsOnce
  <2>1. Fine(t)
    BY DEF RunsOnceInv
  <2>2. \A f \in Functor :
            /\ ran[t][f] <= 1
            /\ ran[t][f] = 1 => available /\ f = Fitting
    BY <2>1, FittingTyped DEF Fine
  <2>3. Delivered /\ ~Overridden(t) => (ran[t][Fitting] = 1 <=> Fitting \in given[t])
    <3> SUFFICES ASSUME Delivered, ~Overridden(t)
                 PROVE  ran[t][Fitting] = 1 <=> Fitting \in given[t]
      OBVIOUS
    <3>1. available /\ stage = "quiet" /\ t \notin toCall
      BY DEF Delivered, EmissionInv
    <3>2. made[t] = "js" => callback = t
      BY DEF Overridden
    <3>3. made[t] \in {"no", "js", "cpp"}
      BY DEF TypeOK
    <3> QED BY <2>1, <3>1, <3>2, <3>3 DEF Fine
  <2> QED BY <2>2, <2>3
<1> QED BY <1>1, RunsOnceInit, RunsOnceStep, ReplyTyped, EmissionAlways, PTL DEF Spec
==============================================================================
