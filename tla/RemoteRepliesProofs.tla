------------------------- MODULE RemoteRepliesProofs -------------------------
(***************************************************************************)
(* Theorems about RemoteReplies for any number of clients and calls.       *)
(***************************************************************************)
EXTENDS RemoteReplies, TLAPS

\* What appending a message to a link's queue leaves in it.
LEMMA Appended ==
    ASSUME NEW S, NEW s \in Seq(S), NEW e \in S
    PROVE  /\ Append(s, e) \in Seq(S)
           /\ \A i \in DOMAIN Append(s, e) :
                \/ i \in DOMAIN s /\ Append(s, e)[i] = s[i]
                \/ i = Len(s) + 1 /\ Append(s, e)[i] = e
    OBVIOUS

\* What taking the first message off a queue yields and leaves.
LEMMA Taken ==
    ASSUME NEW S, NEW s \in Seq(S), s # <<>>
    PROVE  /\ Head(s) \in S /\ 1 \in DOMAIN s /\ Head(s) = s[1]
           /\ Tail(s) \in Seq(S)
           /\ \A i \in DOMAIN Tail(s) : i + 1 \in DOMAIN s /\ Tail(s)[i] = s[i + 1]
    OBVIOUS

\* An empty queue has the type of any queue.
LEMMA EmptyQueue == ASSUME NEW S PROVE <<>> \in Seq(S) /\ DOMAIN <<>> = {}
    OBVIOUS

\* What the two kinds of messages carry.
LEMMA ReturnedFields ==
    ASSUME NEW m \in Returned
    PROVE  /\ m \in Message /\ m.kind = "returned" /\ m.call \in Calls /\ m.id \in Nat
           /\ m.answer = "later" => m.id \in Ids
    BY DEF Message, Returned, Ids

LEMMA MessageFields ==
    ASSUME NEW m \in Message
    PROVE  /\ m.kind = "returned" => m \in Returned /\ m.call \in Calls
           /\ m.kind = "available" => m.value \in Calls /\ m.id \in Nat
<1>1. CASE m \in Returned
    BY <1>1, ReturnedFields
<1>2. CASE m \in Available
    BY <1>2 DEF Available
<1> QED BY <1>1, <1>2 DEF Message

\* What the client has yet to write down is of the type of its table.
LEMMA UnwrittenTyped ==
    ASSUME TypeOK, NEW cl \in Clients
    PROVE  Unwritten(cl) \in SUBSET (Ids \X Calls)
<1>1. finished[cl] \in Seq(Returned)
    BY DEF TypeOK
<1>2. ASSUME NEW i \in DOMAIN finished[cl], finished[cl][i].answer = "later"
      PROVE  <<finished[cl][i].id, finished[cl][i].call>> \in Ids \X Calls
  <2>1. finished[cl][i] \in Returned
    BY <1>1
  <2> QED BY <1>2, <2>1, ReturnedFields
<1> QED BY <1>2 DEF Unwritten

\* Setting a result keeps the types of what it touches.
LEMMA SetTyped ==
    ASSUME TypeOK, NEW c \in Calls, NEW v \in Calls,
           SetSuccess(c, v) \/ SetFailed(c)
    PROVE  /\ status' \in [Calls -> Status]
           /\ result' \in [Calls -> Calls \cup {None}]
           /\ ran' \in [Calls -> {"none", "success", "failed"}]
<1>1. CASE SetSuccess(c, v)
  <2>1. CASE MaySet(c) /\ v \notin Misfits
    <3>1. status' = [status EXCEPT ![c] = "succeeded"]
        BY <1>1, <2>1 DEF SetSuccess
    <3>2. result' = [result EXCEPT ![c] = v]
        BY <1>1, <2>1 DEF SetSuccess
    <3>3. ran' = [ran EXCEPT ![c] = IF "success" \in functors[c] THEN "success" ELSE @]
        BY <1>1, <2>1 DEF SetSuccess
    <3> QED BY <3>1, <3>2, <3>3 DEF TypeOK, Status
  <2>2. CASE ~(MaySet(c) /\ v \notin Misfits)
    BY <1>1, <2>2 DEF SetSuccess, TypeOK
  <2> QED BY <2>1, <2>2
<1>2. CASE SetFailed(c)
  <2>1. CASE MaySet(c)
    <3>1. status' = [status EXCEPT ![c] = "failed"]
        BY <1>2, <2>1 DEF SetFailed
    <3>2. ran' = [ran EXCEPT ![c] = IF "failed" \in functors[c] THEN "failed" ELSE @]
        BY <1>2, <2>1 DEF SetFailed
    <3>3. result' = result
        BY <1>2 DEF SetFailed
    <3> QED BY <3>1, <3>2, <3>3 DEF TypeOK, Status
  <2>2. CASE ~MaySet(c)
    BY <1>2, <2>2 DEF SetFailed, TypeOK
  <2> QED BY <2>1, <2>2
<1> QED BY <1>1, <1>2

\* Every step keeps the variables in their types.
LEMMA TypeStep == TypeOK /\ [Next]_vars => TypeOK'
<1> SUFFICES ASSUME TypeOK, [Next]_vars PROVE TypeOK'
    OBVIOUS
<1> USE RemoteAssumption
<1>1. ASSUME NEW c \in Calls, Call(c) PROVE TypeOK'
  <2>1. Caller[c] \in Clients
    OBVIOUS
  <2>2. Append(requests[Caller[c]], c) \in Seq(Calls)
    BY <2>1, Appended DEF TypeOK
  <2>3. requests' \in [Clients -> Seq(Calls)]
    BY <1>1, <2>1, <2>2 DEF TypeOK, Call
  <2> QED BY <1>1, <2>3 DEF TypeOK, Call, Status, serverVars
<1>2. ASSUME NEW c \in Calls, GiveUp(c) \/ ReportError(c) PROVE TypeOK'
    BY <1>2, SetTyped DEF GiveUp, ReportError, TypeOK, linkVars, serverVars
<1>3. ASSUME NEW c \in Calls, NEW given \in FunctorSets, Then(c, given)
      PROVE  TypeOK'
    BY <1>3 DEF Then, Runs, TypeOK, linkVars, serverVars
<1>4. ASSUME NEW c \in Calls, NEW success \in BOOLEAN, Finish(c, success)
      PROVE  TypeOK'
  <2> DEFINE m == [kind |-> "available", id |-> replyId[c], success |-> success,
                   value |-> c]
  <2>1. m \in Message
    BY DEF Message, Available, TypeOK
  <2>2. \A cl \in Clients : Append(inbox[cl], m) \in Seq(Message)
    BY <2>1, Appended DEF TypeOK
  <2>3. inbox' \in [Clients -> Seq(Message)]
    BY <1>4, <2>2 DEF TypeOK, Finish, Sent
  <2> QED BY <1>4, <2>3 DEF TypeOK, Finish, clientVars
<1>5. ASSUME NEW cl \in Clients, Serve(cl) PROVE TypeOK'
  <2> DEFINE c == Head(requests[cl])
  <2>1. c \in Calls /\ Tail(requests[cl]) \in Seq(Calls)
    BY <1>5, Taken DEF TypeOK, Serve
  <2>2. requests' \in [Clients -> Seq(Calls)]
    BY <1>5, <2>1 DEF TypeOK, Serve
  <2>3. PICK answer \in Answer :
            /\ inbox' = [inbox EXCEPT ![cl] = Append(@,
                            [kind |-> "returned", call |-> c, answer |-> answer,
                             id |-> ServedId(answer)])]
            /\ replyCounter' = IF answer = "value" THEN replyCounter
                                                   ELSE ServedId(answer)
            /\ replyId' = [replyId EXCEPT ![c] =
                            IF answer = "later" THEN ServedId(answer) ELSE @]
            /\ service' = [service EXCEPT ![c] =
                            IF answer = "later" THEN "pending" ELSE "set"]
    BY <1>5 DEF Serve
  <2>4. /\ ServedId(answer) \in Nat
        /\ IF answer = "value" THEN ServedId(answer) = 0 ELSE ServedId(answer) \in Ids
    BY DEF ServedId, TypeOK, Ids
  <2> DEFINE m == [kind |-> "returned", call |-> c, answer |-> answer,
                   id |-> ServedId(answer)]
  <2>5. m \in Message
    BY <2>1, <2>4 DEF Message, Returned, Answer
  <2>6. Append(inbox[cl], m) \in Seq(Message)
    BY <2>5, Appended DEF TypeOK
  <2>7. inbox' \in [Clients -> Seq(Message)]
    BY <2>3, <2>6 DEF TypeOK
  <2> QED BY <1>5, <2>1, <2>2, <2>3, <2>4, <2>7 DEF TypeOK, Serve, clientVars
<1>6. ASSUME NEW cl \in Clients, OnReturned(cl) PROVE TypeOK'
  <2> DEFINE m == Head(finished[cl])
  <2>1. m \in Returned /\ Tail(finished[cl]) \in Seq(Returned)
    BY <1>6, Taken DEF TypeOK, OnReturned
  <2>2. finished' \in [Clients -> Seq(Returned)]
    BY <1>6, <2>1 DEF TypeOK, OnReturned
  <2>3. m.call \in Calls /\ m.id \in Nat /\ (m.answer = "later" => m.id \in Ids)
    BY <2>1, ReturnedFields
  <2>a. \/ SetSuccess(m.call, m.call) \/ SetFailed(m.call)
        \/ UNCHANGED <<status, result, ran>>
    BY <1>6 DEF OnReturned
  <2>4. /\ status' \in [Calls -> Status]
        /\ result' \in [Calls -> Calls \cup {None}]
        /\ ran' \in [Calls -> {"none", "success", "failed"}]
    <3>1. CASE UNCHANGED <<status, result, ran>>
        BY <3>1 DEF TypeOK
    <3> QED BY <2>3, <2>a, <3>1, SetTyped
  <2>b. m.id \in Ids => Inserted(cl, m.id, m.call) \in SUBSET (Ids \X Calls)
    BY <2>3 DEF Inserted, TypeOK
  <2>c. \/ pendingReplies' = pendingReplies
        \/ /\ m.answer = "later"
           /\ pendingReplies' = [pendingReplies EXCEPT
                                    ![cl] = Inserted(cl, m.id, m.call)]
    BY <1>6 DEF OnReturned
  <2>5. pendingReplies' \in [Clients -> SUBSET (Ids \X Calls)]
    <3>1. pendingReplies \in [Clients -> SUBSET (Ids \X Calls)]
        BY DEF TypeOK
    <3> QED BY <2>3, <2>b, <2>c, <3>1
  <2> QED BY <1>6, <2>2, <2>4, <2>5 DEF OnReturned, TypeOK, linkVars, serverVars
<1>7. ASSUME NEW cl \in Clients, OnPendingResultAvailable(cl) PROVE TypeOK'
  <2> DEFINE m == Head(inbox[cl])
  <2>1. m \in Message /\ Tail(inbox[cl]) \in Seq(Message) /\ m.kind = "available"
    BY <1>7, Taken DEF TypeOK, OnPendingResultAvailable, Received
  <2>2. inbox' \in [Clients -> Seq(Message)]
    BY <1>7, <2>1 DEF TypeOK, OnPendingResultAvailable, Received
  <2>3. m.value \in Calls
    BY <2>1, MessageFields
  <2>4. \A p \in Matching(cl, m.id) : p[2] \in Calls
    BY DEF Matching, TypeOK
  <2>a. \/ UNCHANGED <<status, result, ran, pendingReplies>>
        \/ \E p \in Matching(cl, m.id) :
              /\ pendingReplies' = [pendingReplies EXCEPT ![cl] = @ \ {p}]
              /\ SetSuccess(p[2], m.value) \/ SetFailed(p[2])
    BY <1>7 DEF OnPendingResultAvailable
  <2>5. /\ status' \in [Calls -> Status]
        /\ result' \in [Calls -> Calls \cup {None}]
        /\ ran' \in [Calls -> {"none", "success", "failed"}]
    <3>1. CASE UNCHANGED <<status, result, ran, pendingReplies>>
        BY <3>1 DEF TypeOK
    <3>2. ASSUME NEW p \in Matching(cl, m.id),
                 SetSuccess(p[2], m.value) \/ SetFailed(p[2])
          PROVE  /\ status' \in [Calls -> Status]
                 /\ result' \in [Calls -> Calls \cup {None}]
                 /\ ran' \in [Calls -> {"none", "success", "failed"}]
        BY <2>3, <2>4, <3>2, SetTyped
    <3> QED BY <2>a, <3>1, <3>2
  <2>6. pendingReplies' \in [Clients -> SUBSET (Ids \X Calls)]
    <3>1. CASE UNCHANGED <<status, result, ran, pendingReplies>>
        BY <3>1 DEF TypeOK
    <3>2. ASSUME NEW p \in Matching(cl, m.id),
                 pendingReplies' = [pendingReplies EXCEPT ![cl] = @ \ {p}]
          PROVE  pendingReplies' \in [Clients -> SUBSET (Ids \X Calls)]
        BY <3>2 DEF TypeOK
    <3> QED BY <2>a, <3>1, <3>2
  <2>7. overtaken' \subseteq Calls
    <3>1. \A p \in Unwritten(cl) : p[2] \in Calls
        BY UnwrittenTyped
    <3>2. overtaken' = overtaken \cup {p[2] : p \in {q \in Unwritten(cl) : q[1] = m.id}}
        BY <1>7 DEF OnPendingResultAvailable
    <3> QED BY <3>1, <3>2 DEF TypeOK
  <2> QED
    BY <1>7, <2>2, <2>5, <2>6, <2>7 DEF OnPendingResultAvailable, TypeOK, serverVars
<1>8. ASSUME NEW cl \in Clients, LoseLink(cl) \/ Relink(cl) PROVE TypeOK'
  <2>1. <<>> \in Seq(Calls) /\ <<>> \in Seq(Message)
    BY EmptyQueue
  <2>2. CASE LoseLink(cl)
    <3>1. /\ linked' = [linked EXCEPT ![cl] = FALSE]
          /\ requests' = [requests EXCEPT ![cl] = <<>>]
          /\ inbox' = [inbox EXCEPT ![cl] = <<>>]
          /\ UNCHANGED <<clientVars, serverVars>>
        BY <2>2 DEF LoseLink
    <3>2. linked' \in [Clients -> BOOLEAN]
        BY <3>1 DEF TypeOK
    <3>3. requests' \in [Clients -> Seq(Calls)] /\ inbox' \in [Clients -> Seq(Message)]
        BY <2>1, <3>1 DEF TypeOK
    <3> QED BY <3>1, <3>2, <3>3 DEF TypeOK, clientVars, serverVars
  <2>3. CASE Relink(cl)
    <3>1. linked' = [linked EXCEPT ![cl] = TRUE]
        BY <2>3 DEF Relink
    <3>2. linked' \in [Clients -> BOOLEAN]
        BY <3>1 DEF TypeOK
    <3> QED BY <2>3, <3>2 DEF Relink, TypeOK, clientVars, serverVars
  <2> QED BY <1>8, <2>2, <2>3
<1>9. ASSUME RestartServer PROVE TypeOK'
    BY <1>9, EmptyQueue DEF RestartServer, TypeOK, clientVars
<1>10. ASSUME UNCHANGED vars PROVE TypeOK'
    BY <1>10 DEF vars, clientVars, linkVars, serverVars, TypeOK
<1>11. ASSUME NEW cl \in Clients, Arrive(cl) PROVE TypeOK'
  <2> DEFINE m == Head(inbox[cl])
  <2>1. m \in Message /\ Tail(inbox[cl]) \in Seq(Message) /\ m.kind = "returned"
    BY <1>11, Taken DEF TypeOK, Arrive, Received
  <2>2. m \in Returned
    BY <2>1, MessageFields
  <2>3. Append(finished[cl], m) \in Seq(Returned)
    BY <2>2, Appended DEF TypeOK
  <2>4. inbox' \in [Clients -> Seq(Message)] /\ finished' \in [Clients -> Seq(Returned)]
    BY <1>11, <2>1, <2>3 DEF TypeOK, Arrive, Received
  <2> QED BY <1>11, <2>4 DEF Arrive, TypeOK, serverVars
<1> QED
    BY <1>1, <1>2, <1>3, <1>4, <1>5, <1>6, <1>7, <1>8, <1>9, <1>10, <1>11 DEF Next

(* Every variable keeps its type in every behaviour.                         *)
THEOREM RepliesTyped == Spec => []TypeOK
<1>1. Init => TypeOK
    BY EmptyQueue, RemoteAssumption DEF Init, TypeOK, Status
<1> QED BY <1>1, TypeStep, PTL DEF Spec

------------------------------------------------------------------------------
\* The state the ids live in, apart from what the replies hold.
idVars == <<pendingReplies, requests, inbox, finished, replyCounter, replyId, service>>

\* A failure leaves the value a reply holds.
LEMMA FailureHoldsNothing ==
    ASSUME NEW c \in Calls, SetFailed(c) PROVE result' = result
    BY DEF SetFailed

\* An outcome makes no reply unmade, and touches the one reply only.
LEMMA Outcome ==
    ASSUME TypeOK, NEW c \in Calls, NEW v \in Calls,
           SetSuccess(c, v) \/ SetFailed(c)
    PROVE  /\ \A d \in Calls : status'[d] = "unmade" => status[d] = "unmade"
           /\ \A d \in Calls : status[d] = "unmade" => status'[d] = "unmade"
           /\ \A d \in Calls : result'[d] = result[d] \/ (d = c /\ result'[d] = v)
<1>1. CASE SetSuccess(c, v)
  <2>1. CASE status[c] = "waiting" /\ v \notin Misfits
    <3>1. /\ status' = [status EXCEPT ![c] = "succeeded"]
          /\ result' = [result EXCEPT ![c] = v]
        BY <1>1, <2>1 DEF SetSuccess, MaySet
    <3>2. /\ \A d \in Calls : status'[d] = "unmade" => status[d] = "unmade"
          /\ \A d \in Calls : status[d] = "unmade" => status'[d] = "unmade"
        BY <2>1, <3>1 DEF TypeOK
    <3>3. \A d \in Calls : result'[d] = result[d] \/ (d = c /\ result'[d] = v)
        BY <3>1 DEF TypeOK
    <3> QED BY <3>2, <3>3
  <2>2. CASE ~(status[c] = "waiting" /\ v \notin Misfits)
    <3>1. status' = status /\ result' = result
        BY <1>1, <2>2 DEF SetSuccess, MaySet
    <3> QED BY <3>1
  <2> QED BY <2>1, <2>2
<1>2. CASE SetFailed(c)
  <2>1. result' = result
    BY <1>2, FailureHoldsNothing
  <2>2. CASE status[c] = "waiting"
    <3>1. status' = [status EXCEPT ![c] = "failed"]
        BY <1>2, <2>2 DEF SetFailed, MaySet
    <3>2. \A d \in Calls : (status'[d] = "unmade") = (status[d] = "unmade")
        BY <2>2, <3>1 DEF TypeOK
    <3> QED BY <2>1, <3>2
  <2>3. CASE status[c] # "waiting"
    <3>1. status' = status
        BY <1>2, <2>3 DEF SetFailed, MaySet
    <3> QED BY <2>1, <3>1
  <2> QED BY <2>2, <2>3
<1> QED BY <1>1, <1>2

\* The queues of calls stay as they should while nothing touches them.
LEMMA ServedOnceKept ==
    ASSUME TypeOK, ServedOnce, UNCHANGED <<requests, replyId>>,
           \A d \in Calls : status'[d] = "unmade" => status[d] = "unmade"
    PROVE  ServedOnce'
<1> \A cl \in Clients : \A i \in DOMAIN requests[cl] : requests[cl][i] \in Calls
    BY DEF TypeOK
<1>1. \A c \in Calls : status'[c] = "unmade" => replyId'[c] = 0
    BY DEF ServedOnce
<1>2. ASSUME NEW cl \in Clients, NEW i \in DOMAIN requests'[cl]
      PROVE  /\ Caller[requests'[cl][i]] = cl
             /\ status'[requests'[cl][i]] # "unmade"
             /\ replyId'[requests'[cl][i]] = 0
             /\ \A j \in DOMAIN requests'[cl] :
                    requests'[cl][i] = requests'[cl][j] => i = j
    BY <1>2 DEF ServedOnce
<1> QED BY <1>1, <1>2 DEF ServedOnce

\* A step that leaves the ids alone and gives no call a foreign value.
LEMMA IdsUntouched ==
    ASSUME TypeOK, AnswersMatch, UNCHANGED idVars, OwnResult',
           \A d \in Calls : status'[d] = "unmade" => status[d] = "unmade"
    PROVE  AnswersMatch'
<1>1. IdsNameOneCall'
    BY DEF AnswersMatch, IdsNameOneCall, idVars
<1>2. ServedOnce'
    BY ServedOnceKept DEF AnswersMatch, idVars
<1>3. MessagesTrue'
    BY DEF AnswersMatch, MessagesTrue, MessageTrue, idVars
<1>4. PendingTrue'
    BY DEF AnswersMatch, PendingTrue, idVars
<1> QED BY <1>1, <1>2, <1>3, <1>4 DEF AnswersMatch

\* MessageTrue() of a message, in the next state.
NextTrue(m) ==
    /\ m.kind = "returned" /\ m.answer = "later" =>
            m.id # 0 /\ m.id = replyId'[m.call]
    /\ m.kind = "available" => m.id # 0 /\ m.id = replyId'[m.value]

\* It is enough to look at the messages one by one.
LEMMA EachTrue ==
    ASSUME \A cl \in Clients : \A i \in DOMAIN inbox'[cl] : NextTrue(inbox'[cl][i]),
           \A cl \in Clients : \A i \in DOMAIN finished'[cl] : NextTrue(finished'[cl][i])
    PROVE  MessagesTrue'
    BY DEF MessagesTrue, MessageTrue, NextTrue

\* The messages of a queue to which one was appended, or none.
LEMMA Queued ==
    ASSUME TypeOK, NEW cl \in Clients, NEW m \in Message, NEW i \in DOMAIN inbox'[cl],
           inbox'[cl] = inbox[cl] \/ inbox'[cl] = Append(inbox[cl], m)
    PROVE  \/ i \in DOMAIN inbox[cl] /\ inbox'[cl][i] = inbox[cl][i]
           \/ inbox'[cl][i] = m
<1>1. inbox[cl] \in Seq(Message)
    BY DEF TypeOK
<1>2. CASE inbox'[cl] = inbox[cl]
    BY <1>2
<1>3. CASE inbox'[cl] = Append(inbox[cl], m)
    BY <1>1, <1>3, Appended
<1> QED BY <1>2, <1>3

\* A message that was true stays so while the ids stay the same.
LEMMA StaysTrue ==
    ASSUME AnswersMatch, replyId' = replyId, NEW cl \in Clients
    PROVE  /\ \A i \in DOMAIN inbox[cl] : NextTrue(inbox[cl][i])
           /\ \A i \in DOMAIN finished[cl] : NextTrue(finished[cl][i])
<1>1. /\ \A i \in DOMAIN inbox[cl] : MessageTrue(inbox[cl][i])
      /\ \A i \in DOMAIN finished[cl] : MessageTrue(finished[cl][i])
    BY DEF AnswersMatch, MessagesTrue
<1>2. ASSUME NEW m, MessageTrue(m) PROVE NextTrue(m)
    BY <1>2 DEF MessageTrue, NextTrue
<1> QED BY <1>1, <1>2

\* What a queue of true messages holds when its first one is taken.
LEMMA TailTrue ==
    ASSUME NEW S, NEW q \in Seq(S), q # <<>>,
           \A i \in DOMAIN q : NextTrue(q[i])
    PROVE  /\ NextTrue(Head(q))
           /\ \A i \in DOMAIN Tail(q) : NextTrue(Tail(q)[i])
<1>1. /\ 1 \in DOMAIN q /\ Head(q) = q[1]
      /\ \A i \in DOMAIN Tail(q) : i + 1 \in DOMAIN q /\ Tail(q)[i] = q[i + 1]
    BY Taken
<1> QED BY <1>1

\* A call is put on its link.
LEMMA CallMatches ==
    ASSUME TypeOK, AnswersMatch, NEW c \in Calls, Call(c)
    PROVE  AnswersMatch'
<1> USE RemoteAssumption
<1>1. UNCHANGED <<result, pendingReplies, inbox, finished, serverVars>>
    BY DEF Call
<1>2. status[c] = "unmade" /\ replyId[c] = 0
    BY DEF Call, AnswersMatch, ServedOnce
<1>3. status' = [status EXCEPT ![c] = IF linked[Caller[c]] THEN "waiting" ELSE "failed"]
    BY DEF Call
<1>4. \A d \in Calls : status'[d] = "unmade" => status[d] = "unmade"
    BY <1>2, <1>3 DEF TypeOK
<1>5. status'[c] # "unmade"
    BY <1>3 DEF TypeOK
<1>6. IdsNameOneCall' /\ MessagesTrue' /\ PendingTrue' /\ OwnResult'
    BY <1>1 DEF AnswersMatch, IdsNameOneCall, MessagesTrue, MessageTrue, PendingTrue,
        OwnResult, serverVars
<1>7. ASSUME NEW cl \in Clients
      PROVE  \A i \in DOMAIN requests'[cl] :
                /\ requests'[cl][i] \in Calls
                /\ Caller[requests'[cl][i]] = cl
                /\ status'[requests'[cl][i]] # "unmade"
                /\ replyId'[requests'[cl][i]] = 0
                /\ \A j \in DOMAIN requests'[cl] :
                        requests'[cl][i] = requests'[cl][j] => i = j
  <2>1. \A i \in DOMAIN requests[cl] :
            /\ requests[cl][i] \in Calls
            /\ Caller[requests[cl][i]] = cl
            /\ status[requests[cl][i]] # "unmade"
            /\ replyId[requests[cl][i]] = 0
            /\ \A j \in DOMAIN requests[cl] :
                    requests[cl][i] = requests[cl][j] => i = j
    BY DEF AnswersMatch, ServedOnce, TypeOK
  <2>2. replyId' = replyId
    BY <1>1 DEF serverVars
  <2>3. CASE requests'[cl] = requests[cl]
    BY <1>4, <2>1, <2>2, <2>3
  <2>6. requests \in [Clients -> Seq(Calls)]
    BY DEF TypeOK
  <2>4. CASE cl = Caller[c] /\ requests'[cl] = Append(requests[cl], c)
    <3>1. \A i \in DOMAIN requests'[cl] :
            \/ i \in DOMAIN requests[cl] /\ requests'[cl][i] = requests[cl][i]
            \/ i = Len(requests[cl]) + 1 /\ requests'[cl][i] = c
        BY <2>4, <2>6, Appended
    <3>2. \A i \in DOMAIN requests[cl] : requests[cl][i] # c
        BY <1>2, <2>1
    <3> QED BY <1>2, <1>4, <1>5, <2>1, <2>2, <2>4, <3>1, <3>2
  <2>5. requests' = [requests EXCEPT ![Caller[c]] =
                        IF linked[Caller[c]] THEN Append(@, c) ELSE @]
    BY DEF Call
  <2> QED BY <2>3, <2>4, <2>5, <2>6
<1>8. ServedOnce'
  <2>1. \A d \in Calls : status'[d] = "unmade" => replyId'[d] = 0
    BY <1>1, <1>4 DEF AnswersMatch, ServedOnce, serverVars
  <2> QED BY <1>7, <2>1 DEF ServedOnce
<1> QED BY <1>6, <1>8 DEF AnswersMatch

\* The service completes a pending result, which every link hears of.
LEMMA FinishMatches ==
    ASSUME TypeOK, AnswersMatch, NEW c \in Calls, NEW success \in BOOLEAN,
           Finish(c, success)
    PROVE  AnswersMatch'
<1> DEFINE m == [kind |-> "available", id |-> replyId[c], success |-> success,
                 value |-> c]
<1>1. UNCHANGED <<status, result, pendingReplies, requests, replyCounter, replyId>>
    BY DEF Finish, clientVars
<1>2. replyId[c] # 0 /\ service' = [service EXCEPT ![c] = "set"]
    BY DEF Finish, AnswersMatch, IdsNameOneCall
<1>3. IdsNameOneCall'
  <2>1. \A d \in Calls : service'[d] = "pending" => service[d] = "pending"
    BY <1>2 DEF TypeOK
  <2> QED BY <1>1, <2>1 DEF AnswersMatch, IdsNameOneCall
<1>4. ServedOnce' /\ PendingTrue' /\ OwnResult'
    BY <1>1 DEF AnswersMatch, ServedOnce, PendingTrue, OwnResult
<1>5. ASSUME NEW cl \in Clients, NEW i \in DOMAIN inbox'[cl]
      PROVE  NextTrue(inbox'[cl][i])
  <2>1. m \in Message /\ m.kind = "available" /\ m.id = replyId[c] /\ m.value = c
    BY DEF Message, Available, TypeOK
  <2>2. \/ inbox'[cl] = inbox[cl]
        \/ inbox'[cl] = Append(inbox[cl], m)
    BY DEF Finish, Sent
  <2>3. \/ i \in DOMAIN inbox[cl] /\ inbox'[cl][i] = inbox[cl][i]
        \/ inbox'[cl][i] = m
    BY <1>5, <2>1, <2>2, Queued
  <2>4. CASE i \in DOMAIN inbox[cl] /\ inbox'[cl][i] = inbox[cl][i]
    BY <1>1, <2>4, StaysTrue
  <2>5. CASE inbox'[cl][i] = m
    BY <1>1, <1>2, <2>1, <2>5 DEF NextTrue
  <2> QED BY <2>3, <2>4, <2>5
<1>6. MessagesTrue'
  <2>1. finished' = finished
    BY DEF Finish, clientVars
  <2> QED BY <1>1, <1>5, <2>1, StaysTrue, EachTrue
<1> QED BY <1>3, <1>4, <1>6 DEF AnswersMatch


\* The source answers the call at the head of a link's queue.
LEMMA ServeMatches ==
    ASSUME TypeOK, AnswersMatch, NEW cl \in Clients, Serve(cl)
    PROVE  AnswersMatch'
<1> DEFINE c == Head(requests[cl])
<1>1. UNCHANGED <<status, result, pendingReplies>>
    BY DEF Serve, clientVars
<1>2. /\ c \in Calls /\ 1 \in DOMAIN requests[cl] /\ c = requests[cl][1]
      /\ \A i \in DOMAIN Tail(requests[cl]) :
            i + 1 \in DOMAIN requests[cl] /\ Tail(requests[cl])[i] = requests[cl][i + 1]
    BY Taken DEF Serve, TypeOK
<1>3. PICK answer \in Answer :
        /\ inbox' = [inbox EXCEPT ![cl] = Append(@,
                        [kind |-> "returned", call |-> c, answer |-> answer,
                         id |-> ServedId(answer)])]
        /\ replyCounter' = IF answer = "value" THEN replyCounter ELSE ServedId(answer)
        /\ replyId' = [replyId EXCEPT ![c] =
                        IF answer = "later" THEN ServedId(answer) ELSE @]
        /\ service' = [service EXCEPT ![c] =
                        IF answer = "later" THEN "pending" ELSE "set"]
    BY DEF Serve
<1>4. Caller[c] = cl /\ status[c] # "unmade" /\ replyId[c] = 0
    BY <1>2 DEF AnswersMatch, ServedOnce
<1>5. /\ replyCounter \in Nat /\ \A d \in Calls : replyId[d] \in Nat
      /\ answer # "value" => ServedId(answer) = replyCounter + 1
    BY DEF TypeOK, ServedId
<1>6. /\ \A d \in Calls : d # c => replyId'[d] = replyId[d] /\ service'[d] = service[d]
      /\ replyId'[c] = IF answer = "later" THEN ServedId(answer) ELSE 0
      /\ service'[c] = IF answer = "later" THEN "pending" ELSE "set"
    BY <1>2, <1>3, <1>4 DEF TypeOK
<1>7. IdsNameOneCall'
  <2>1. /\ \A d \in Calls : replyId[d] <= replyCounter
        /\ \A d, e \in Calls : replyId[d] # 0 /\ replyId[d] = replyId[e] => d = e
        /\ \A d \in Calls : service[d] = "pending" => replyId[d] # 0
    BY DEF AnswersMatch, IdsNameOneCall
  <2>2. CASE answer = "later"
    <3>1. replyCounter' = replyCounter + 1 /\ replyId'[c] = replyCounter + 1
        BY <1>3, <1>5, <1>6, <2>2
    <3>2. \A d \in Calls : replyId'[d] <= replyCounter'
        BY <1>5, <1>6, <2>1, <3>1
    <3>3. \A d, e \in Calls : replyId'[d] # 0 /\ replyId'[d] = replyId'[e] => d = e
        BY <1>5, <1>6, <2>1, <3>1
    <3>4. \A d \in Calls : service'[d] = "pending" => replyId'[d] # 0
        BY <1>5, <1>6, <2>1, <3>1
    <3> QED BY <3>2, <3>3, <3>4 DEF IdsNameOneCall
  <2>3. CASE answer # "later"
    <3>1. replyId'[c] = 0 /\ service'[c] = "set"
        BY <1>6, <2>3
    <3>2. replyCounter' \in Nat /\ replyCounter' >= replyCounter
        BY <1>3, <1>5
    <3>3. \A d \in Calls : replyId'[d] <= replyCounter'
        BY <1>5, <1>6, <2>1, <3>1, <3>2
    <3>4. \A d, e \in Calls : replyId'[d] # 0 /\ replyId'[d] = replyId'[e] => d = e
        BY <1>6, <2>1, <3>1
    <3>5. \A d \in Calls : service'[d] = "pending" => replyId'[d] # 0
        BY <1>6, <2>1, <3>1
    <3> QED BY <3>3, <3>4, <3>5 DEF IdsNameOneCall
  <2> QED BY <2>2, <2>3
<1>8. ServedOnce'
  <2>1. \A d \in Calls : status'[d] = "unmade" => replyId'[d] = 0
    BY <1>1, <1>4, <1>6 DEF AnswersMatch, ServedOnce
  <2>2. ASSUME NEW k \in Clients
        PROVE  \A i \in DOMAIN requests[k] :
                    /\ requests[k][i] \in Calls
                    /\ Caller[requests[k][i]] = k
                    /\ status'[requests[k][i]] # "unmade"
                    /\ replyId[requests[k][i]] = 0
                    /\ \A j \in DOMAIN requests[k] :
                            requests[k][i] = requests[k][j] => i = j
    BY <1>1 DEF AnswersMatch, ServedOnce, TypeOK
  <2>3. ASSUME NEW k \in Clients
        PROVE  \A i \in DOMAIN requests'[k] :
                    /\ Caller[requests'[k][i]] = k
                    /\ status'[requests'[k][i]] # "unmade"
                    /\ replyId'[requests'[k][i]] = 0
                    /\ \A j \in DOMAIN requests'[k] :
                            requests'[k][i] = requests'[k][j] => i = j
    <3>1. CASE k # cl
      <4>1. requests'[k] = requests[k]
          BY <3>1 DEF Serve, TypeOK
      <4>2. \A i \in DOMAIN requests[k] : requests[k][i] # c
          BY <1>4, <2>2, <3>1
      <4> QED BY <1>6, <2>2, <4>1, <4>2
    <3>2. CASE k = cl
      <4>1. requests'[k] = Tail(requests[k])
          BY <3>2 DEF Serve, TypeOK
      <4>2. \A i \in DOMAIN requests'[k] :
                i \in Nat /\ i + 1 \in DOMAIN requests[k]
                /\ requests'[k][i] = requests[k][i + 1]
          BY <1>2, <3>2, <4>1 DEF TypeOK
      <4>3. \A i \in DOMAIN requests'[k] : i + 1 # 1
          BY <4>1 DEF TypeOK
      <4>4. \A i \in DOMAIN requests'[k] : requests'[k][i] # c
          BY <1>2, <2>2, <3>2, <4>2, <4>3
      <4> QED BY <1>6, <2>2, <4>2, <4>4
    <3> QED BY <3>1, <3>2
  <2> QED BY <2>1, <2>3 DEF ServedOnce
<1>9. MessagesTrue'
  <2> DEFINE m == [kind |-> "returned", call |-> c, answer |-> answer,
                   id |-> ServedId(answer)]
  <2>1. m \in Message
    BY <1>2, <1>5 DEF Message, Returned, Answer, Ids, ServedId
  <2>4. ASSUME NEW n \in Message, MessageTrue(n) PROVE NextTrue(n)
    <3>1. /\ n.kind = "returned" => n.call \in Calls
          /\ n.kind = "available" => n.value \in Calls
        BY MessageFields
    <3> QED BY <1>4, <1>6, <2>4, <3>1 DEF MessageTrue, NextTrue
  <2>2. ASSUME NEW k \in Clients, NEW i \in DOMAIN inbox'[k]
        PROVE  NextTrue(inbox'[k][i])
    <3>1. inbox'[k] = inbox[k] \/ inbox'[k] = Append(inbox[k], m)
        BY <1>3 DEF TypeOK
    <3>2. \/ i \in DOMAIN inbox[k] /\ inbox'[k][i] = inbox[k][i]
          \/ inbox'[k][i] = m
        BY <2>1, <2>2, <3>1, Queued
    <3>3. CASE i \in DOMAIN inbox[k] /\ inbox'[k][i] = inbox[k][i]
      <4> DEFINE n == inbox[k][i]
      <4>1. n \in Message /\ MessageTrue(n)
          BY <3>3 DEF AnswersMatch, MessagesTrue, TypeOK
      <4> QED BY <2>4, <3>3, <4>1
    <3>4. CASE inbox'[k][i] = m
      <4>1. m.kind = "returned" /\ m.call = c /\ m.answer = answer
            /\ m.id = ServedId(answer)
          OBVIOUS
      <4>2. answer = "later" => ServedId(answer) # 0 /\ ServedId(answer) = replyId'[c]
          BY <1>5, <1>6
      <4> QED BY <3>4, <4>1, <4>2 DEF NextTrue
    <3> QED BY <3>2, <3>3, <3>4
  <2>3. ASSUME NEW k \in Clients, NEW i \in DOMAIN finished'[k]
        PROVE  NextTrue(finished'[k][i])
    <3>1. finished' = finished
        BY DEF Serve, clientVars
    <3>2. finished[k][i] \in Message /\ MessageTrue(finished[k][i])
        BY <2>3, <3>1 DEF AnswersMatch, MessagesTrue, TypeOK, Message
    <3> QED BY <2>4, <3>1, <3>2
  <2> QED BY <2>2, <2>3, EachTrue
<1>10. PendingTrue'
    BY <1>1, <1>4, <1>6 DEF AnswersMatch, PendingTrue, TypeOK
<1>11. OwnResult'
    BY <1>1 DEF AnswersMatch, OwnResult
<1> QED BY <1>7, <1>8, <1>9, <1>10, <1>11 DEF AnswersMatch


\* An answer is read off the link and waits as it came.
LEMMA ArriveMatches ==
    ASSUME TypeOK, AnswersMatch, NEW cl \in Clients, Arrive(cl)
    PROVE  AnswersMatch'
<1> DEFINE m == Head(inbox[cl])
<1>1. /\ UNCHANGED <<status, result, pendingReplies, requests, replyCounter, replyId,
                     service>>
      /\ inbox[cl] # <<>> /\ inbox[cl] \in Seq(Message) /\ m.kind = "returned"
      /\ finished[cl] \in Seq(Returned)
      /\ \A k \in Clients : k # cl => inbox'[k] = inbox[k] /\ finished'[k] = finished[k]
      /\ inbox'[cl] = Tail(inbox[cl]) /\ finished'[cl] = Append(finished[cl], m)
    BY DEF Arrive, Received, serverVars, TypeOK
<1>2. IdsNameOneCall' /\ ServedOnce' /\ PendingTrue' /\ OwnResult'
    BY <1>1 DEF AnswersMatch, IdsNameOneCall, ServedOnce, PendingTrue, OwnResult
<1>3. NextTrue(m) /\ \A i \in DOMAIN inbox'[cl] : NextTrue(inbox'[cl][i])
    BY <1>1, StaysTrue, TailTrue
<1>4. m \in Returned
    BY <1>1, Taken, MessageFields
<1>5. \A i \in DOMAIN finished'[cl] : NextTrue(finished'[cl][i])
  <2>1. \A i \in DOMAIN finished'[cl] :
            \/ i \in DOMAIN finished[cl] /\ finished'[cl][i] = finished[cl][i]
            \/ finished'[cl][i] = m
    BY <1>1, <1>4, Appended
  <2> QED BY <1>1, <1>3, <2>1, StaysTrue
<1>6. MessagesTrue'
    BY <1>1, <1>3, <1>5, StaysTrue, EachTrue
<1> QED BY <1>2, <1>6 DEF AnswersMatch

\* A returned value, failure or id reaches its caller.
LEMMA ReturnedMatches ==
    ASSUME TypeOK, AnswersMatch, NEW cl \in Clients, OnReturned(cl)
    PROVE  AnswersMatch'
<1> DEFINE m == Head(finished[cl])
<1>1. /\ m \in Returned /\ MessageTrue(m)
      /\ finished' = [finished EXCEPT ![cl] = Tail(@)] /\ inbox' = inbox
      /\ finished[cl] # <<>> /\ finished[cl] \in Seq(Returned)
    BY Taken DEF OnReturned, AnswersMatch, MessagesTrue, TypeOK, linkVars
<1>2. m.kind = "returned" /\ m.call \in Calls /\ m.id \in Nat
    BY <1>1, ReturnedFields
<1>3. UNCHANGED <<requests, replyCounter, replyId, service>>
    BY DEF OnReturned, linkVars, serverVars
<1>4. \/ SetSuccess(m.call, m.call) \/ SetFailed(m.call)
      \/ UNCHANGED <<status, result>>
    BY DEF OnReturned
<1>5. /\ \A d \in Calls : status'[d] = "unmade" => status[d] = "unmade"
      /\ \A d \in Calls : result'[d] = result[d] \/ (d = m.call /\ result'[d] = m.call)
    BY <1>2, <1>4, Outcome
<1>6. OwnResult'
    BY <1>5 DEF AnswersMatch, OwnResult
<1>7. IdsNameOneCall'
    BY <1>3 DEF AnswersMatch, IdsNameOneCall
<1>8. ServedOnce'
    BY <1>3, <1>5, ServedOnceKept DEF AnswersMatch
<1>9. MessagesTrue'
  <2>1. \A i \in DOMAIN Tail(finished[cl]) : NextTrue(Tail(finished[cl])[i])
    BY <1>1, <1>3, StaysTrue, TailTrue
  <2>2. \A k \in Clients : finished'[k] = IF k = cl THEN Tail(finished[cl])
                                                   ELSE finished[k]
    BY <1>1 DEF TypeOK
  <2> QED BY <1>1, <1>3, <2>1, <2>2, StaysTrue, EachTrue
<1>10. PendingTrue'
  <2>1. \/ pendingReplies' = pendingReplies
        \/ /\ m.answer = "later"
           /\ pendingReplies' = [pendingReplies EXCEPT
                                    ![cl] = Inserted(cl, m.id, m.call)]
    BY DEF OnReturned
  <2>2. CASE pendingReplies' = pendingReplies
    BY <1>3, <2>2 DEF AnswersMatch, PendingTrue
  <2>3. CASE /\ m.answer = "later"
             /\ pendingReplies' = [pendingReplies EXCEPT
                                    ![cl] = Inserted(cl, m.id, m.call)]
    <3>1. m.id # 0 /\ m.id = replyId[m.call]
        BY <1>1, <1>2, <2>3 DEF MessageTrue
    <3>2. \A p \in Inserted(cl, m.id, m.call) : p[1] # 0 /\ p[1] = replyId[p[2]]
        BY <3>1 DEF Inserted, AnswersMatch, PendingTrue
    <3>3. \A k \in Clients : pendingReplies'[k] = IF k = cl
                THEN Inserted(cl, m.id, m.call) ELSE pendingReplies[k]
        BY <2>3 DEF TypeOK
    <3> QED BY <1>3, <3>2, <3>3 DEF AnswersMatch, PendingTrue
  <2> QED BY <2>1, <2>2, <2>3
<1> QED BY <1>6, <1>7, <1>8, <1>9, <1>10 DEF AnswersMatch

\* An announced result reaches the reply kept under its id, if there is one.
LEMMA AvailableMatches ==
    ASSUME TypeOK, AnswersMatch, NEW cl \in Clients, OnPendingResultAvailable(cl)
    PROVE  AnswersMatch'
<1> DEFINE m == Head(inbox[cl])
<1>1. /\ m \in Message /\ m.kind = "available" /\ MessageTrue(m)
      /\ inbox' = [inbox EXCEPT ![cl] = Tail(@)]
      /\ inbox[cl] # <<>> /\ inbox[cl] \in Seq(Message)
    BY Taken DEF OnPendingResultAvailable, Received, AnswersMatch, MessagesTrue, TypeOK
<1>2. m.value \in Calls /\ m.id # 0 /\ m.id = replyId[m.value]
    BY <1>1, MessageFields DEF MessageTrue
<1>3. UNCHANGED <<requests, replyCounter, replyId, service>>
    BY DEF OnPendingResultAvailable, serverVars
<1>4. \/ UNCHANGED <<status, result, pendingReplies>>
      \/ \E p \in Matching(cl, m.id) :
            /\ pendingReplies' = [pendingReplies EXCEPT ![cl] = @ \ {p}]
            /\ SetSuccess(p[2], m.value) \/ SetFailed(p[2])
    BY DEF OnPendingResultAvailable
<1>5. \A p \in Matching(cl, m.id) : p[2] \in Calls /\ p[2] = m.value
  <2>1. \A p \in Matching(cl, m.id) : /\ p \in pendingReplies[cl] /\ p[2] \in Calls
                                      /\ p[1] = m.id /\ p[1] = replyId[p[2]]
    BY DEF Matching, AnswersMatch, PendingTrue, TypeOK
  <2>2. \A d, e \in Calls : replyId[d] # 0 /\ replyId[d] = replyId[e] => d = e
    BY DEF AnswersMatch, IdsNameOneCall
  <2> QED BY <1>2, <2>1, <2>2
<1>6. /\ \A d \in Calls : status'[d] = "unmade" => status[d] = "unmade"
      /\ \A d \in Calls : result'[d] = result[d] \/ (d = m.value /\ result'[d] = m.value)
      /\ \A k \in Clients : pendingReplies'[k] \subseteq pendingReplies[k]
  <2>1. CASE UNCHANGED <<status, result, pendingReplies>>
    BY <2>1
  <2>2. ASSUME NEW p \in Matching(cl, m.id),
               pendingReplies' = [pendingReplies EXCEPT ![cl] = @ \ {p}],
               SetSuccess(p[2], m.value) \/ SetFailed(p[2])
        PROVE  /\ \A d \in Calls : status'[d] = "unmade" => status[d] = "unmade"
               /\ \A d \in Calls :
                    result'[d] = result[d] \/ (d = m.value /\ result'[d] = m.value)
               /\ \A k \in Clients : pendingReplies'[k] \subseteq pendingReplies[k]
    <3>1. p[2] \in Calls /\ p[2] = m.value
        BY <1>5
    <3>2. \A k \in Clients : pendingReplies'[k] \subseteq pendingReplies[k]
        BY <2>2 DEF TypeOK
    <3>3. /\ \A d \in Calls : status'[d] = "unmade" => status[d] = "unmade"
          /\ \A d \in Calls :
                result'[d] = result[d] \/ (d = p[2] /\ result'[d] = m.value)
        BY <1>2, <2>2, <3>1, Outcome
    <3> QED BY <3>1, <3>2, <3>3
  <2> QED BY <1>4, <2>1, <2>2
<1>7. OwnResult'
    BY <1>6 DEF AnswersMatch, OwnResult
<1>8. IdsNameOneCall'
    BY <1>3 DEF AnswersMatch, IdsNameOneCall
<1>9. ServedOnce'
    BY <1>3, <1>6, ServedOnceKept DEF AnswersMatch
<1>10. MessagesTrue'
  <2>1. \A i \in DOMAIN Tail(inbox[cl]) : NextTrue(Tail(inbox[cl])[i])
    BY <1>1, <1>3, StaysTrue, TailTrue
  <2>2. \A k \in Clients : inbox'[k] = IF k = cl THEN Tail(inbox[cl]) ELSE inbox[k]
    BY <1>1 DEF TypeOK
  <2>3. finished' = finished
    BY DEF OnPendingResultAvailable
  <2> QED BY <1>3, <2>1, <2>2, <2>3, StaysTrue, EachTrue
<1>11. PendingTrue'
    BY <1>3, <1>6 DEF AnswersMatch, PendingTrue
<1> QED BY <1>7, <1>8, <1>9, <1>10, <1>11 DEF AnswersMatch


\* A broken link loses what was on it; a repaired one starts empty.
LEMMA LinkMatches ==
    ASSUME TypeOK, AnswersMatch, NEW cl \in Clients, LoseLink(cl) \/ Relink(cl)
    PROVE  AnswersMatch'
<1>1. /\ UNCHANGED <<status, result, pendingReplies, replyCounter, replyId, service>>
      /\ \A k \in Clients : /\ requests'[k] \in {requests[k], <<>>}
                            /\ inbox'[k] \in {inbox[k], <<>>}
    BY DEF LoseLink, Relink, clientVars, serverVars, TypeOK
<1>2. IdsNameOneCall' /\ PendingTrue' /\ OwnResult'
    BY <1>1 DEF AnswersMatch, IdsNameOneCall, PendingTrue, OwnResult
<1>3. ASSUME NEW k \in Clients, NEW i \in DOMAIN inbox'[k]
      PROVE  NextTrue(inbox'[k][i])
  <2>1. inbox'[k] = inbox[k]
    BY <1>1, <1>3, EmptyQueue
  <2> QED BY <1>1, <1>3, <2>1, StaysTrue
<1>4. MessagesTrue'
  <2>1. finished' = finished
    BY DEF LoseLink, Relink, clientVars
  <2> QED BY <1>1, <1>3, <2>1, StaysTrue, EachTrue
<1>5. ServedOnce'
  <2>1. \A k \in Clients : \/ requests'[k] = requests[k]
                           \/ DOMAIN requests'[k] = {}
    BY <1>1, EmptyQueue
  <2>2. /\ \A c \in Calls : status[c] = "unmade" => replyId[c] = 0
        /\ \A k \in Clients : \A i \in DOMAIN requests[k] :
            /\ Caller[requests[k][i]] = k
            /\ status[requests[k][i]] # "unmade"
            /\ replyId[requests[k][i]] = 0
            /\ \A j \in DOMAIN requests[k] :
                    requests[k][i] = requests[k][j] => i = j
    BY DEF AnswersMatch, ServedOnce
  <2> QED BY <1>1, <2>1, <2>2 DEF ServedOnce
<1> QED BY <1>2, <1>4, <1>5 DEF AnswersMatch

\* A server that restarts when no client awaits an id starts afresh.
LEMMA RestartMatches ==
    ASSUME TypeOK, AnswersMatch, ~AbruptRestart, RestartServer
    PROVE  AnswersMatch'
<1>1. /\ replyCounter' = 0 /\ replyId' = [c \in Calls |-> 0]
      /\ service' = [c \in Calls |-> "idle"]
      /\ requests' = [cl \in Clients |-> <<>>] /\ inbox' = [cl \in Clients |-> <<>>]
      /\ \A cl \in Clients : pendingReplies'[cl] = {}
      /\ UNCHANGED <<status, result>>
    BY DEF RestartServer, clientVars
<1>2. IdsNameOneCall' /\ OwnResult' /\ PendingTrue'
    BY <1>1 DEF AnswersMatch, IdsNameOneCall, OwnResult, PendingTrue
<1>3. \A cl \in Clients : DOMAIN requests'[cl] = {} /\ DOMAIN inbox'[cl] = {}
    BY <1>1, EmptyQueue
<1>4. ServedOnce'
    BY <1>1, <1>3 DEF ServedOnce
<1>5. MessagesTrue'
  <2>1. finished' = finished /\ \A cl \in Clients : Unwritten(cl) = {}
    BY DEF RestartServer, clientVars
  <2>2. ASSUME NEW cl \in Clients, NEW i \in DOMAIN finished[cl]
        PROVE  finished[cl][i] \in Returned /\ finished[cl][i].answer # "later"
    <3>1. finished[cl] \in Seq(Returned)
        BY DEF TypeOK
    <3>2. <<finished[cl][i].id, finished[cl][i].call>> \notin Unwritten(cl)
        BY <2>1
    <3> QED BY <2>2, <3>1, <3>2 DEF Unwritten
  <2>3. ASSUME NEW cl \in Clients, NEW i \in DOMAIN finished[cl]
        PROVE  NextTrue(finished[cl][i])
    <3>1. finished[cl][i].kind = "returned"
        BY <2>2, ReturnedFields
    <3> QED BY <2>2, <3>1 DEF NextTrue
  <2> QED BY <1>3, <2>1, <2>3, EachTrue
<1> QED BY <1>2, <1>4, <1>5 DEF AnswersMatch

(* Every id names one call, in every queue and every client's table.         *)
LEMMA AnswersStep ==
    ~AbruptRestart => (TypeOK /\ AnswersMatch /\ [Next]_vars => AnswersMatch')
<1> SUFFICES ASSUME ~AbruptRestart, TypeOK, AnswersMatch, [Next]_vars
             PROVE  AnswersMatch'
    OBVIOUS
<1>1. ASSUME NEW c \in Calls, GiveUp(c) \/ ReportError(c) PROVE AnswersMatch'
  <2>1. SetFailed(c) /\ UNCHANGED idVars
    BY <1>1 DEF GiveUp, ReportError, idVars, linkVars, serverVars
  <2>2. OwnResult'
    BY <2>1, FailureHoldsNothing DEF AnswersMatch, OwnResult
  <2> QED BY <2>1, <2>2, Outcome, IdsUntouched
<1>2. ASSUME NEW c \in Calls, NEW given \in FunctorSets, Then(c, given)
      PROVE  AnswersMatch'
  <2>1. UNCHANGED idVars /\ status' = status /\ result' = result
    BY <1>2 DEF Then, idVars, linkVars, serverVars
  <2>2. OwnResult'
    BY <2>1 DEF AnswersMatch, OwnResult
  <2> QED BY <2>1, <2>2, IdsUntouched
<1>3. ASSUME UNCHANGED vars PROVE AnswersMatch'
  <2>1. UNCHANGED idVars /\ status' = status /\ result' = result
    BY <1>3 DEF vars, clientVars, linkVars, serverVars, idVars
  <2>2. OwnResult'
    BY <2>1 DEF AnswersMatch, OwnResult
  <2> QED BY <2>1, <2>2, IdsUntouched
<1> QED
    BY <1>1, <1>2, <1>3, CallMatches, FinishMatches, ServeMatches, ArriveMatches,
       ReturnedMatches,
       AvailableMatches, LinkMatches, RestartMatches DEF Next

(* No caller is ever given the result of another call, as long as the server *)
(* does not restart while ids are awaited: the pending results every client  *)
(* is told of are matched by ids that name one call each.                    *)
THEOREM ResultsAreOwn ==
    ASSUME ~AbruptRestart
    PROVE  Spec => []OwnResult
<1>1. Init => AnswersMatch
  <2> SUFFICES ASSUME Init PROVE AnswersMatch
    OBVIOUS
  <2>1. \A cl \in Clients : /\ DOMAIN requests[cl] = {} /\ DOMAIN inbox[cl] = {}
                           /\ DOMAIN finished[cl] = {}
    BY EmptyQueue DEF Init
  <2>2. IdsNameOneCall /\ PendingTrue /\ OwnResult
    BY DEF Init, IdsNameOneCall, PendingTrue, OwnResult
  <2>3. ServedOnce /\ MessagesTrue
    BY <2>1 DEF Init, ServedOnce, MessagesTrue
  <2> QED BY <2>2, <2>3 DEF AnswersMatch
<1>2. TypeOK /\ AnswersMatch /\ [Next]_vars => AnswersMatch'
    BY AnswersStep
<1>3. AnswersMatch => OwnResult
    BY DEF AnswersMatch
<1> QED BY <1>1, <1>2, <1>3, RepliesTyped, PTL DEF Spec


------------------------------------------------------------------------------
\* setSuccess() and setFailed() leave every reply alone that is set.
LEMMA SetLeavesSet ==
    ASSUME TypeOK, NEW c \in Calls, NEW v \in Calls,
           SetSuccess(c, v) \/ SetFailed(c), NEW d \in Calls
    PROVE  StaysSet(d)
<1> SUFFICES ASSUME status[d] \in {"succeeded", "failed"}
             PROVE  status'[d] = status[d] /\ result'[d] = result[d]
    BY DEF StaysSet
<1>1. CASE status[c] # "waiting"
    BY <1>1 DEF SetSuccess, SetFailed, MaySet
<1>2. CASE c # d
    BY <1>2 DEF SetSuccess, SetFailed, TypeOK
<1>3. c = d => status[c] # "waiting"
    OBVIOUS
<1> QED BY <1>1, <1>2, <1>3

\* No step changes a result that is set.
LEMMA SetStep == TypeOK /\ [Next]_vars => [\A c \in Calls : StaysSet(c)]_vars
<1> SUFFICES ASSUME TypeOK, [Next]_vars, NEW d \in Calls PROVE StaysSet(d)
    OBVIOUS
<1>1. ASSUME NEW c \in Calls, Call(c) PROVE StaysSet(d)
  <2>1. status[c] = "unmade" /\ result' = result
    BY <1>1 DEF Call
  <2>2. d # c => status'[d] = status[d]
    BY <1>1 DEF Call, TypeOK
  <2> QED BY <2>1, <2>2 DEF StaysSet
<1>2. ASSUME NEW c \in Calls, GiveUp(c) \/ ReportError(c) PROVE StaysSet(d)
    BY <1>2, SetLeavesSet DEF GiveUp, ReportError
<1>3. ASSUME UNCHANGED <<status, result>> PROVE StaysSet(d)
    BY <1>3 DEF StaysSet
<1>4. ASSUME NEW cl \in Clients, OnReturned(cl) PROVE StaysSet(d)
  <2> DEFINE m == Head(finished[cl])
  <2>1. m \in Returned
    BY <1>4, Taken DEF OnReturned, TypeOK
  <2>2. m.call \in Calls
    BY <2>1, ReturnedFields
  <2>3. \/ SetSuccess(m.call, m.call) \/ SetFailed(m.call)
        \/ UNCHANGED <<status, result>>
    BY <1>4 DEF OnReturned
  <2> QED BY <1>3, <2>2, <2>3, SetLeavesSet
<1>5. ASSUME NEW cl \in Clients, OnPendingResultAvailable(cl) PROVE StaysSet(d)
  <2> DEFINE m == Head(inbox[cl])
  <2>1. m \in Message /\ m.kind = "available"
    BY <1>5, Taken DEF OnPendingResultAvailable, Received, TypeOK
  <2>2. m.value \in Calls /\ \A p \in Matching(cl, m.id) : p[2] \in Calls
    BY <2>1, MessageFields DEF Matching, TypeOK
  <2>3. \/ UNCHANGED <<status, result>>
        \/ \E p \in Matching(cl, m.id) :
                SetSuccess(p[2], m.value) \/ SetFailed(p[2])
    BY <1>5 DEF OnPendingResultAvailable
  <2> QED BY <1>3, <2>2, <2>3, SetLeavesSet
<1>6. \/ UNCHANGED <<status, result>>
      \/ \E c \in Calls : Call(c) \/ GiveUp(c) \/ ReportError(c)
      \/ \E cl \in Clients : OnReturned(cl) \/ OnPendingResultAvailable(cl)
    BY DEF Next, vars, clientVars, linkVars, Then, Finish, Serve, Arrive, LoseLink,
        Relink, RestartServer
<1> QED BY <1>1, <1>2, <1>3, <1>4, <1>5, <1>6

(* What a caller has been told stays: no step changes a reply that is set,   *)
(* whichever of the answer, the error report and the caller came first.      *)
THEOREM RepliesSetOnce == Spec => SetOnce
    BY SetStep, RepliesTyped, PTL DEF Spec, SetOnce

------------------------------------------------------------------------------
\* An outcome runs the functor connected for it, on its own reply only.
LEMMA OutcomeFits ==
    ASSUME TypeOK, FunctorFitsOutcome, NEW c \in Calls, NEW v \in Calls,
           SetSuccess(c, v) \/ SetFailed(c)
    PROVE  FunctorFitsOutcome'
<1> SUFFICES ASSUME NEW d \in Calls
             PROVE  /\ ran'[d] = "success" => status'[d] = "succeeded"
                    /\ ran'[d] = "failed" => status'[d] = "failed"
    BY DEF FunctorFitsOutcome
<1>1. /\ ran[d] = "success" => status[d] = "succeeded"
      /\ ran[d] = "failed" => status[d] = "failed"
    BY DEF FunctorFitsOutcome
<1>2. CASE c # d \/ status[c] # "waiting"
    BY <1>1, <1>2 DEF SetSuccess, SetFailed, MaySet, TypeOK
<1>3. CASE c = d /\ status[c] = "waiting" /\ SetSuccess(c, v)
  <2>1. CASE v \in Misfits
    BY <1>1, <1>3, <2>1 DEF SetSuccess
  <2>2. CASE v \notin Misfits
    <3>1. status'[c] = "succeeded" /\ ran'[c] \in {"success", ran[c]}
        BY <1>3, <2>2 DEF SetSuccess, MaySet, TypeOK
    <3> QED BY <1>1, <1>3, <3>1
  <2> QED BY <2>1, <2>2
<1>4. CASE c = d /\ status[c] = "waiting" /\ SetFailed(c)
  <2>1. status'[c] = "failed" /\ ran'[c] \in {"failed", ran[c]}
    BY <1>4 DEF SetFailed, MaySet, TypeOK
  <2> QED BY <1>1, <1>4, <2>1
<1> QED BY <1>2, <1>3, <1>4

\* Every step keeps functors and outcomes together.
LEMMA FitStep ==
    ASSUME \A given \in FunctorSets : "failed" \in given => "success" \in given
    PROVE  TypeOK /\ FunctorFitsOutcome /\ [Next]_vars => FunctorFitsOutcome'
<1> SUFFICES ASSUME TypeOK, FunctorFitsOutcome, [Next]_vars
             PROVE  FunctorFitsOutcome'
    OBVIOUS
<1>1. ASSUME NEW c \in Calls, Call(c) PROVE FunctorFitsOutcome'
  <2>1. /\ status[c] = "unmade" /\ ran' = ran
        /\ \A d \in Calls : d # c => status'[d] = status[d]
    BY <1>1 DEF Call, TypeOK
  <2>2. ran[c] = "none"
    BY <2>1 DEF FunctorFitsOutcome, TypeOK
  <2> QED BY <2>1, <2>2 DEF FunctorFitsOutcome
<1>2. ASSUME NEW c \in Calls, NEW given \in FunctorSets, Then(c, given)
      PROVE  FunctorFitsOutcome'
  <2>1. /\ status' = status /\ ran' = [ran EXCEPT ![c] = Runs(c, given)]
        /\ status[c] # "unmade" /\ ran[c] = "none"
    BY <1>2 DEF Then
  <2>2. /\ Runs(c, given) = "success" => status[c] = "succeeded"
        /\ Runs(c, given) = "failed" => status[c] = "failed"
    BY <2>1 DEF Runs, TypeOK, Status
  <2>3. \A d \in Calls : ran'[d] = IF d = c THEN Runs(c, given) ELSE ran[d]
    BY <2>1 DEF TypeOK
  <2> QED BY <2>1, <2>2, <2>3 DEF FunctorFitsOutcome
<1>3. ASSUME NEW c \in Calls, GiveUp(c) \/ ReportError(c) PROVE FunctorFitsOutcome'
    BY <1>3, OutcomeFits DEF GiveUp, ReportError
<1>4. ASSUME UNCHANGED <<status, ran>> PROVE FunctorFitsOutcome'
    BY <1>4 DEF FunctorFitsOutcome
<1>5. ASSUME NEW cl \in Clients, OnReturned(cl) PROVE FunctorFitsOutcome'
  <2> DEFINE m == Head(finished[cl])
  <2>1. m \in Returned
    BY <1>5, Taken DEF OnReturned, TypeOK
  <2>2. m.call \in Calls
    BY <2>1, ReturnedFields
  <2>3. \/ SetSuccess(m.call, m.call) \/ SetFailed(m.call)
        \/ UNCHANGED <<status, ran>>
    BY <1>5 DEF OnReturned
  <2> QED BY <1>4, <2>2, <2>3, OutcomeFits
<1>6. ASSUME NEW cl \in Clients, OnPendingResultAvailable(cl)
      PROVE  FunctorFitsOutcome'
  <2> DEFINE m == Head(inbox[cl])
  <2>1. m \in Message /\ m.kind = "available"
    BY <1>6, Taken DEF OnPendingResultAvailable, Received, TypeOK
  <2>2. m.value \in Calls /\ \A p \in Matching(cl, m.id) : p[2] \in Calls
    BY <2>1, MessageFields DEF Matching, TypeOK
  <2>3. \/ UNCHANGED <<status, ran>>
        \/ \E p \in Matching(cl, m.id) :
                SetSuccess(p[2], m.value) \/ SetFailed(p[2])
    BY <1>6 DEF OnPendingResultAvailable
  <2> QED BY <1>4, <2>2, <2>3, OutcomeFits
<1>7. \/ UNCHANGED <<status, ran>>
      \/ \E c \in Calls : Call(c) \/ GiveUp(c) \/ ReportError(c)
      \/ \E c \in Calls : \E given \in FunctorSets : Then(c, given)
      \/ \E cl \in Clients : OnReturned(cl) \/ OnPendingResultAvailable(cl)
    BY DEF Next, vars, clientVars, Finish, Serve, Arrive, LoseLink, Relink,
        RestartServer
<1> QED BY <1>1, <1>2, <1>3, <1>4, <1>5, <1>6, <1>7

(* Given a success functor whenever there is a failed one, then() runs the   *)
(* one for the outcome, whether it is called before or after the result.     *)
THEOREM RightFunctorRuns ==
    ASSUME \A given \in FunctorSets : "failed" \in given => "success" \in given
    PROVE  Spec => []FunctorFitsOutcome
<1>1. Init => FunctorFitsOutcome
    BY DEF Init, FunctorFitsOutcome
<1>2. TypeOK /\ FunctorFitsOutcome /\ [Next]_vars => FunctorFitsOutcome'
    BY FitStep
<1> QED BY <1>1, <1>2, RepliesTyped, PTL DEF Spec

------------------------------------------------------------------------------
(* The replies, over any number of processes and calls, implement the        *)
(* single-assignment reply of module Reply.                                  *)

\* What callers are told of all the replies together.
ToldAll == [c \in Calls |-> Told(c)]

\* One reply goes from open to one of its outcomes, the others stay.
Settles(c) ==
    /\ ToldAll[c] = None
    /\ \E o \in {c, "failed"} : ToldAll' = [ToldAll EXCEPT ![c] = o]

\* A change of one reply alone settles it if it was open.
LEMMA OneSettles ==
    ASSUME NEW c \in Calls, status[c] \in {"unmade", "waiting"},
           \A d \in Calls : d # c => Told(d)' = Told(d),
           Told(c)' \in {c, "failed"}
    PROVE  Settles(c)
<1>1. ToldAll[c] = None
    BY DEF ToldAll, Told
<1>2. ToldAll' = [ToldAll EXCEPT ![c] = Told(c)']
    BY DEF ToldAll
<1> QED BY <1>1, <1>2 DEF Settles

\* A step that leaves status and result alone tells nobody anything.
LEMMA NothingTold ==
    ASSUME UNCHANGED <<status, result>> PROVE ToldAll' = ToldAll
    BY DEF ToldAll, Told

\* Setting a result settles the reply, unless it is ignored or refused.
LEMMA SettingSettles ==
    ASSUME TypeOK, OwnResult', NEW c \in Calls, NEW v \in Calls,
           SetSuccess(c, v) \/ SetFailed(c)
    PROVE  Settles(c) \/ ToldAll' = ToldAll
<1>1. CASE UNCHANGED <<status, result>>
    BY <1>1, NothingTold
<1>2. CASE status[c] = "waiting" /\ v \notin Misfits /\ SetSuccess(c, v)
  <2>1. /\ status' = [status EXCEPT ![c] = "succeeded"]
        /\ result' = [result EXCEPT ![c] = v]
    BY <1>2 DEF SetSuccess, MaySet
  <2>2. status'[c] = "succeeded" /\ result'[c] = v
    BY <2>1 DEF TypeOK
  <2>3. v = c
    BY <2>2, RemoteAssumption DEF OwnResult
  <2>4. Told(c)' = c
    BY <2>2, <2>3 DEF Told
  <2>5. \A d \in Calls : d # c => Told(d)' = Told(d)
    BY <2>1 DEF Told, TypeOK
  <2> QED BY <1>2, <2>4, <2>5, OneSettles
<1>3. CASE status[c] = "waiting" /\ SetFailed(c)
  <2>1. status' = [status EXCEPT ![c] = "failed"] /\ result' = result
    BY <1>3 DEF SetFailed, MaySet
  <2>2. status'[c] = "failed"
    BY <2>1 DEF TypeOK
  <2>3. Told(c)' = "failed"
    BY <2>2 DEF Told
  <2>4. \A d \in Calls : d # c => Told(d)' = Told(d)
    BY <2>1 DEF Told, TypeOK
  <2> QED BY <1>3, <2>3, <2>4, OneSettles
<1> QED BY <1>1, <1>2, <1>3 DEF SetSuccess, SetFailed, MaySet

\* Making a call leaves its reply open, or fails it at once.
LEMMA CallSettles ==
    ASSUME TypeOK, NEW c \in Calls, Call(c)
    PROVE  Settles(c) \/ ToldAll' = ToldAll
<1>1. /\ status[c] = "unmade" /\ result' = result
      /\ status' = [status EXCEPT
                      ![c] = IF linked[Caller[c]] THEN "waiting" ELSE "failed"]
    BY DEF Call
<1>2. \A d \in Calls : d # c => Told(d)' = Told(d)
    BY <1>1 DEF Told, TypeOK
<1>3. CASE linked[Caller[c]]
  <2>1. status'[c] = "waiting"
    BY <1>1, <1>3 DEF TypeOK
  <2>2. Told(c)' = Told(c)
    BY <1>1, <2>1 DEF Told
  <2>3. \A d \in Calls : Told(d)' = Told(d)
    BY <1>2, <2>2
  <2> QED BY <2>3 DEF ToldAll
<1>4. CASE ~linked[Caller[c]]
  <2>1. status'[c] = "failed"
    BY <1>1, <1>4 DEF TypeOK
  <2>2. Told(c)' = "failed"
    BY <2>1 DEF Told
  <2> QED BY <1>1, <1>2, <2>2, OneSettles
<1> QED BY <1>3, <1>4

\* Every step settles one reply or none.
LEMMA StepSettles ==
    ASSUME TypeOK, OwnResult', [Next]_vars
    PROVE  (\E c \in Calls : Settles(c)) \/ ToldAll' = ToldAll
<1>1. ASSUME NEW c \in Calls, GiveUp(c) \/ ReportError(c)
      PROVE  Settles(c) \/ ToldAll' = ToldAll
    BY <1>1, SettingSettles DEF GiveUp, ReportError
<1>2. ASSUME NEW cl \in Clients, OnReturned(cl)
      PROVE  (\E c \in Calls : Settles(c)) \/ ToldAll' = ToldAll
  <2> DEFINE m == Head(finished[cl])
  <2>1. m \in Returned
    BY <1>2, Taken DEF OnReturned, TypeOK
  <2>2. m.call \in Calls
    BY <2>1, ReturnedFields
  <2>3. \/ SetSuccess(m.call, m.call) \/ SetFailed(m.call)
        \/ UNCHANGED <<status, result>>
    BY <1>2 DEF OnReturned
  <2> HIDE DEF m
  <2> QED BY <2>2, <2>3, SettingSettles, NothingTold
<1>3. ASSUME NEW cl \in Clients, OnPendingResultAvailable(cl)
      PROVE  (\E c \in Calls : Settles(c)) \/ ToldAll' = ToldAll
  <2> DEFINE m == Head(inbox[cl])
  <2>1. m \in Message /\ m.kind = "available"
    BY <1>3, Taken DEF OnPendingResultAvailable, Received, TypeOK
  <2>2. m.value \in Calls /\ \A p \in Matching(cl, m.id) : p[2] \in Calls
    BY <2>1, MessageFields DEF Matching, TypeOK
  <2>3. \/ UNCHANGED <<status, result>>
        \/ \E p \in Matching(cl, m.id) :
                SetSuccess(p[2], m.value) \/ SetFailed(p[2])
    BY <1>3 DEF OnPendingResultAvailable
  <2> HIDE DEF m
  <2> QED BY <2>2, <2>3, SettingSettles, NothingTold
<1>4. \/ UNCHANGED <<status, result>>
      \/ \E c \in Calls : Call(c) \/ GiveUp(c) \/ ReportError(c)
      \/ \E cl \in Clients : OnReturned(cl) \/ OnPendingResultAvailable(cl)
    BY DEF Next, vars, clientVars, linkVars, Then, Finish, Serve, Arrive, LoseLink,
        Relink, RestartServer
<1> QED BY <1>1, <1>2, <1>3, <1>4, CallSettles, NothingTold

(* While the server does not restart under awaited ids, what a caller is     *)
(* told of a call is told once and is the call's own result or its failure:  *)
(* the two processes and their links implement one shared variable per call. *)
THEOREM RepliesImplementReply ==
    ASSUME ~AbruptRestart
    PROVE  Spec => SingleOutcome
<1>1. Init => OneOutcome!Init
    BY DEF Init, OneOutcome!Init, Told
<1>2. TypeOK /\ OwnResult' /\ [Next]_vars => [OneOutcome!Next]_ToldAll
  <2> SUFFICES ASSUME TypeOK, OwnResult', [Next]_vars
               PROVE  OneOutcome!Next \/ ToldAll' = ToldAll
    OBVIOUS
  <2>1. ASSUME NEW c \in Calls, Settles(c) PROVE OneOutcome!Settle(c)
    <3>1. [d \in Calls |-> {d, "failed"}][c] = {c, "failed"}
        OBVIOUS
    <3> QED BY <2>1, <3>1 DEF Settles, ToldAll, OneOutcome!Settle
  <2> QED BY <2>1, StepSettles DEF OneOutcome!Next
<1>3. Spec => [][OneOutcome!Next]_ToldAll
    BY <1>2, RepliesTyped, ResultsAreOwn, PTL DEF Spec
<1>4. [][OneOutcome!Next]_ToldAll => [][OneOutcome!Next]_([c \in Calls |-> Told(c)])
    BY PTL DEF ToldAll
<1> QED BY <1>1, <1>3, <1>4, PTL DEF Spec, SingleOutcome, OneOutcome!Spec
==============================================================================
