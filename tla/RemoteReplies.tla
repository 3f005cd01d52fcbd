---------------------------- MODULE RemoteReplies ----------------------------
(***************************************************************************)
(* Asynchronous results across a process boundary: a backend_qtro replica  *)
(* in each client process, one source in the server.  The source answers a *)
(* call with the value, with a failure, or with an id under which the      *)
(* result is announced to every client later.  QIviPendingReply carries    *)
(* the result to the caller and runs the functors given to then().         *)
(* QtRemoteObjects reads the messages of one link in order.  An answer     *)
(* then waits for the event loop of the client; an announcement does not.  *)
(***************************************************************************)
EXTENDS Naturals, Sequences

CONSTANTS
    Clients,         \* client processes
    Calls,           \* remote calls, each made once at most
    Caller,          \* the client that makes a call
    Misfits,         \* calls whose value the reply type refuses
    FunctorSets,     \* the functors given to one then(): success, failed
    AbruptRestart,   \* the server may restart while ids are awaited
    None

ASSUME RemoteAssumption ==
    /\ Caller \in [Calls -> Clients] /\ None \notin Calls
    /\ Misfits \subseteq Calls
    /\ FunctorSets \subseteq SUBSET {"success", "failed"}
    /\ AbruptRestart \in BOOLEAN

VARIABLES
    status,          \* of the QIviPendingReply of a call
    result,          \* the call whose value the reply holds
    functors,        \* functors connected to replySuccess and replyFailed
    ran,             \* the functor of then() that was run
    pendingReplies,  \* m_pendingReplies of a client's replica helper
    linked,          \* the replica is Valid
    requests,        \* calls on the way to the source
    inbox,           \* returned results and announcements on the way back
    finished,        \* answers read whose watchers are yet to say finished()
    overtaken,       \* calls whose result was announced meanwhile
    replyCounter,    \* m_replyCounter of the source helper
    replyId,         \* the id a pending result was given, 0 for none
    service          \* the service's own reply to a call

clientVars == <<status, result, functors, ran, pendingReplies, finished, overtaken>>
linkVars == <<linked, requests, inbox>>
serverVars == <<replyCounter, replyId, service>>
vars == <<clientVars, linkVars, serverVars>>

Status == {"unmade", "waiting", "succeeded", "failed"}
Answer == {"value", "failure", "later"}
Ids == Nat \ {0}
Returned ==
    [kind : {"returned"}, call : Calls, answer : {"value"}, id : {0}]
        \cup [kind : {"returned"}, call : Calls, answer : {"failure", "later"},
              id : Ids]
Available == [kind : {"available"}, id : Nat, success : BOOLEAN, value : Calls]
Message == Returned \cup Available

TypeOK ==
    /\ status \in [Calls -> Status]
    /\ result \in [Calls -> Calls \cup {None}]
    /\ functors \in [Calls -> SUBSET {"success", "failed"}]
    /\ ran \in [Calls -> {"none", "success", "failed"}]
    /\ pendingReplies \in [Clients -> SUBSET (Ids \X Calls)]
    /\ finished \in [Clients -> Seq(Returned)] /\ overtaken \subseteq Calls
    /\ linked \in [Clients -> BOOLEAN]
    /\ requests \in [Clients -> Seq(Calls)]
    /\ inbox \in [Clients -> Seq(Message)]
    /\ replyCounter \in Nat /\ replyId \in [Calls -> Nat]
    /\ service \in [Calls -> {"idle", "pending", "set"}]

Init ==
    /\ status = [c \in Calls |-> "unmade"]
    /\ result = [c \in Calls |-> None]
    /\ functors = [c \in Calls |-> {}]
    /\ ran = [c \in Calls |-> "none"]
    /\ pendingReplies = [cl \in Clients |-> {}]
    /\ linked = [cl \in Clients |-> TRUE]
    /\ requests = [cl \in Clients |-> <<>>]
    /\ inbox = [cl \in Clients |-> <<>>]
    /\ finished = [cl \in Clients |-> <<>>]
    /\ overtaken = {}
    /\ replyCounter = 0
    /\ replyId = [c \in Calls |-> 0]
    /\ service = [c \in Calls |-> "idle"]

------------------------------------------------------------------------------
\* setSuccess() and setFailed() ignore a reply whose result is available.
MaySetAgain(c) == status[c] # "unmade"

MaySet(c) == status[c] = "waiting"

(* The reply of call c is set once: success with the value of call v, which  *)
(* its type may refuse, or failure.  The functor connected for it runs.      *)
SetSuccess(c, v) ==
    IF MaySet(c) /\ v \notin Misfits
    THEN /\ status' = [status EXCEPT ![c] = "succeeded"]
         /\ result' = [result EXCEPT ![c] = v]
         /\ ran' = [ran EXCEPT ![c] = IF "success" \in functors[c] THEN "success"
                                                                   ELSE @]
    ELSE UNCHANGED <<status, result, ran>>

SetFailed(c) ==
    /\ UNCHANGED result
    /\ IF MaySet(c)
       THEN /\ status' = [status EXCEPT ![c] = "failed"]
            /\ ran' = [ran EXCEPT ![c] = IF "failed" \in functors[c] THEN "failed"
                                                                     ELSE @]
       ELSE UNCHANGED <<status, ran>>

(* A remote method is called: refused at once while there is no connection.  *)
Call(c) ==
    LET cl == Caller[c] IN
    /\ status[c] = "unmade"
    /\ status' = [status EXCEPT ![c] = IF linked[cl] THEN "waiting" ELSE "failed"]
    /\ requests' = [requests EXCEPT ![cl] = IF linked[cl] THEN Append(@, c) ELSE @]
    /\ UNCHANGED <<result, functors, ran, pendingReplies, finished, overtaken, linked,
                   inbox, serverVars>>

(* The functor then() runs at once when the result is there already: failed  *)
(* also for a reply that succeeded, if there is no success functor.          *)
RunsFailedFirst(c, given) ==
    IF status[c] = "waiting" THEN ran[c]
    ELSE IF "failed" \in given THEN "failed" ELSE "success"

Runs(c, given) ==
    IF status[c] = "waiting" THEN ran[c]
    ELSE IF status[c] = "succeeded" /\ "success" \in given THEN "success"
    ELSE IF "failed" \in given THEN "failed" ELSE ran[c]

\* then(success, failed), with either of them possibly empty
Then(c, given) ==
    /\ status[c] # "unmade" /\ functors[c] = {} /\ ran[c] = "none"
    /\ ran' = [ran EXCEPT ![c] = Runs(c, given)]
    /\ functors' = [functors EXCEPT ![c] = given]
    /\ UNCHANGED <<status, result, pendingReplies, finished, overtaken, linkVars,
                   serverVars>>

(* The caller, who shares the reply, sets it failed: it has waited too long. *)
GiveUp(c) ==
    /\ status[c] = "waiting"
    /\ SetFailed(c)
    /\ UNCHANGED <<functors, pendingReplies, finished, overtaken, linkVars, serverVars>>

------------------------------------------------------------------------------
(* The source calls the service for the next call and turns the reply it     *)
(* gets into the returned value.  A failed reply uses up an id, too.         *)
ServedIdBefore(answer) == IF answer = "value" THEN 0 ELSE replyCounter

ServedId(answer) == IF answer = "value" THEN 0 ELSE replyCounter + 1

Serve(cl) ==
    LET c == Head(requests[cl]) IN
    /\ requests[cl] # <<>>
    /\ requests' = [requests EXCEPT ![cl] = Tail(@)]
    /\ \E answer \in Answer :
        LET id == ServedId(answer) IN
        /\ inbox' = [inbox EXCEPT ![cl] = Append(@,
                        [kind |-> "returned", call |-> c, answer |-> answer,
                         id |-> id])]
        /\ replyCounter' = IF answer = "value" THEN replyCounter ELSE id
        /\ replyId' = [replyId EXCEPT ![c] = IF answer = "later" THEN id ELSE @]
        /\ service' = [service EXCEPT ![c] = IF answer = "later" THEN "pending"
                                                                 ELSE "set"]
    /\ UNCHANGED <<clientVars, linked>>

\* What is sent on a link goes behind what was sent on it before.
SentAhead(queue, m) == <<m>> \o queue

Sent(queue, m) == Append(queue, m)

(* The service sets the result of a reply it had returned unset: the source  *)
(* announces it on every link, whoever asked for it.                         *)
Finish(c, success) ==
    /\ service[c] = "pending"
    /\ service' = [service EXCEPT ![c] = "set"]
    /\ inbox' = [cl \in Clients |->
                    IF linked[cl]
                    THEN Sent(inbox[cl], [kind |-> "available", id |-> replyId[c],
                                          success |-> success, value |-> c])
                    ELSE inbox[cl]]
    /\ UNCHANGED <<clientVars, linked, requests, replyCounter, replyId>>

------------------------------------------------------------------------------
Received(cl, kind) == inbox[cl] # <<>> /\ Head(inbox[cl]).kind = kind
                        /\ inbox' = [inbox EXCEPT ![cl] = Tail(@)]

\* An answer is read off the link: the watcher of the call is told, queued.
Arrive(cl) ==
    /\ Received(cl, "returned")
    /\ finished' = [finished EXCEPT ![cl] = Append(@, Head(inbox[cl]))]
    /\ UNCHANGED <<status, result, functors, ran, pendingReplies, overtaken, linked,
                   requests, serverVars>>

\* m_pendingReplies.insert(id, reply) replaces what was there
Inserted(cl, id, c) ==
    {p \in pendingReplies[cl] : p[1] # id} \cup {<<id, c>>}

\* The pending call watcher of toQIviPendingReply() has finished.
OnReturned(cl) ==
    LET m == Head(finished[cl]) IN
    /\ finished[cl] # <<>>
    /\ finished' = [finished EXCEPT ![cl] = Tail(@)]
    /\ \/ /\ m.answer = "value"
          /\ SetSuccess(m.call, m.call)
          /\ UNCHANGED pendingReplies
       \/ /\ m.answer = "failure"
          /\ SetFailed(m.call)
          /\ UNCHANGED pendingReplies
       \/ /\ m.answer = "later"
          /\ pendingReplies' = [pendingReplies EXCEPT
                                  ![cl] = Inserted(cl, m.id, m.call)]
          /\ UNCHANGED <<status, result, ran>>
    /\ UNCHANGED <<functors, overtaken, linkVars, serverVars>>

\* The entries for ids client cl has read and has yet to write down.
Unwritten(cl) ==
    {<<finished[cl][i].id, finished[cl][i].call>> :
        i \in {j \in DOMAIN finished[cl] : finished[cl][j].answer = "later"}}

\* the entries an announcement of id settles
MatchingAny(cl, id) == pendingReplies[cl]

Matching(cl, id) == {p \in pendingReplies[cl] : p[1] = id}

(* onPendingResultAvailable() takes the reply kept under the id, if any.  It *)
(* is called while the link is read, ahead of the answers that wait.         *)
OnPendingResultAvailable(cl) ==
    LET m == Head(inbox[cl]) IN
    /\ Received(cl, "available")
    /\ overtaken' = overtaken \cup {p[2] : p \in {q \in Unwritten(cl) : q[1] = m.id}}
    /\ \/ /\ Matching(cl, m.id) = {}
          /\ UNCHANGED <<status, result, ran, pendingReplies>>
       \/ \E p \in Matching(cl, m.id) :
          /\ pendingReplies' = [pendingReplies EXCEPT ![cl] = @ \ {p}]
          /\ IF m.success THEN SetSuccess(p[2], m.value) ELSE SetFailed(p[2])
    /\ UNCHANGED <<functors, finished, linked, requests, serverVars>>

------------------------------------------------------------------------------
\* The connection breaks: what was under way on it is gone, what was read is not.
LoseLink(cl) ==
    /\ linked[cl]
    /\ linked' = [linked EXCEPT ![cl] = FALSE]
    /\ requests' = [requests EXCEPT ![cl] = <<>>]
    /\ inbox' = [inbox EXCEPT ![cl] = <<>>]
    /\ UNCHANGED <<clientVars, serverVars>>

Relink(cl) ==
    /\ ~linked[cl]
    /\ linked' = [linked EXCEPT ![cl] = TRUE]
    /\ UNCHANGED <<clientVars, requests, inbox, serverVars>>

\* QtRemoteObjects may report the error to a watcher that has not finished.
ReportError(c) ==
    LET cl == Caller[c] IN
    /\ ~linked[cl] /\ status[c] = "waiting"
    /\ \A p \in pendingReplies[cl] : p[2] # c
    /\ \A i \in DOMAIN finished[cl] : finished[cl][i].call # c
    /\ SetFailed(c)
    /\ UNCHANGED <<functors, pendingReplies, finished, overtaken, linkVars, serverVars>>

(* The server restarts and counts its ids from the beginning.  Nothing tells *)
(* the clients to forget the ids they still await.                           *)
RestartServer ==
    /\ AbruptRestart \/ \A cl \in Clients : pendingReplies[cl] \cup Unwritten(cl) = {}
    /\ linked' = [cl \in Clients |-> FALSE]
    /\ requests' = [cl \in Clients |-> <<>>]
    /\ inbox' = [cl \in Clients |-> <<>>]
    /\ replyCounter' = 0
    /\ replyId' = [c \in Calls |-> 0]
    /\ service' = [c \in Calls |-> "idle"]
    /\ UNCHANGED clientVars

Next ==
    \/ \E c \in Calls :
        \/ Call(c) \/ GiveUp(c) \/ ReportError(c)
        \/ \E given \in FunctorSets : Then(c, given)
        \/ \E success \in BOOLEAN : Finish(c, success)
    \/ \E cl \in Clients :
        \/ Serve(cl) \/ Arrive(cl) \/ OnReturned(cl) \/ OnPendingResultAvailable(cl)
        \/ LoseLink(cl) \/ Relink(cl)
    \/ RestartServer

\* The source takes calls, the service completes them, the replicas listen.
Fairness ==
    /\ \A c \in Calls : WF_vars(\E success \in BOOLEAN : Finish(c, success))
    /\ \A cl \in Clients : /\ WF_vars(Serve(cl))
                           /\ WF_vars(Arrive(cl) \/ OnPendingResultAvailable(cl))
                           /\ WF_vars(OnReturned(cl))

Spec == Init /\ [][Next]_vars
FairSpec == Spec /\ Fairness

------------------------------------------------------------------------------
(* A reply holds the value of the call it was returned for, although every   *)
(* client hears the results of every other and connections break in between. *)
OwnResult == \A c \in Calls : result[c] \in {None, c}

(* A result, once set, stays: no repeated or late answer, error report or    *)
(* reconnection changes what a caller has been told.                         *)
StaysSet(c) ==
    status[c] \in {"succeeded", "failed"} =>
        status'[c] = status[c] /\ result'[c] = result[c]

SetOnce == [][\A c \in Calls : StaysSet(c)]_vars

\* What a caller can tell of a reply: its value, its failure, or neither.
Told(c) ==
    IF status[c] = "succeeded" THEN result[c]
    ELSE IF status[c] = "failed" THEN "failed" ELSE None

OneOutcome == INSTANCE Reply WITH
    Replies <- Calls, Open <- None,
    Outcomes <- [c \in Calls |-> {c, "failed"}],
    outcome <- [c \in Calls |-> Told(c)]

(* Two processes, a connection that breaks, answers, announcements and error *)
(* reports implement the reply the documentation promises: the outcome is    *)
(* set in one step, to the call's own value or to failure, and stays.        *)
SingleOutcome == OneOutcome!Spec

(* The functor that ran is the one for the outcome: then() promises success  *)
(* for a reply that succeeds and failed otherwise, before or after the fact. *)
FunctorFitsOutcome ==
    \A c \in Calls : /\ ran[c] = "success" => status[c] = "succeeded"
                     /\ ran[c] = "failed" => status[c] = "failed"

Asked(c) == \E i \in DOMAIN requests[Caller[c]] : requests[Caller[c]][i] = c

(* A call on its way to the source gets its caller an answer unless the      *)
(* connection breaks first: no other call's result takes its place.  A       *)
(* result announced before the answer's finished() is dropped for good, and  *)
(* its reply is left out here.                                               *)
EventuallyAnswered ==
    \A c \in Calls \ Misfits :
        Asked(c) ~> (status[c] # "waiting" \/ ~linked[Caller[c]] \/ c \in overtaken)

\* Not checked: the code drops the results that EventuallyAnswered leaves out.
AnsweredInAnyOrder ==
    \A c \in Calls \ Misfits : Asked(c) ~> (status[c] # "waiting" \/ ~linked[Caller[c]])

------------------------------------------------------------------------------
(* The strengthening that makes OwnResult inductive: an id names one call,   *)
(* wherever it is written down.                                              *)
IdsNameOneCall ==
    /\ \A c \in Calls : replyId[c] <= replyCounter
    /\ \A c, d \in Calls : replyId[c] # 0 /\ replyId[c] = replyId[d] => c = d
    /\ \A c \in Calls : service[c] = "pending" => replyId[c] # 0

\* A call has no id before it is served, and it is served once.
ServedOnce ==
    /\ \A c \in Calls : status[c] = "unmade" => replyId[c] = 0
    /\ \A cl \in Clients : \A i \in DOMAIN requests[cl] :
        /\ Caller[requests[cl][i]] = cl
        /\ status[requests[cl][i]] # "unmade"
        /\ replyId[requests[cl][i]] = 0
        /\ \A j \in DOMAIN requests[cl] :
                requests[cl][i] = requests[cl][j] => i = j

\* A message that carries an id carries that of its call.
MessageTrue(m) ==
    /\ m.kind = "returned" /\ m.answer = "later" =>
            m.id # 0 /\ m.id = replyId[m.call]
    /\ m.kind = "available" => m.id # 0 /\ m.id = replyId[m.value]

MessagesTrue ==
    \A cl \in Clients : /\ \A i \in DOMAIN inbox[cl] : MessageTrue(inbox[cl][i])
                        /\ \A i \in DOMAIN finished[cl] : MessageTrue(finished[cl][i])

\* A client waits under the id its call was given.
PendingTrue ==
    \A cl \in Clients : \A p \in pendingReplies[cl] :
        p[1] # 0 /\ p[1] = replyId[p[2]]

AnswersMatch == /\ IdsNameOneCall /\ ServedOnce /\ MessagesTrue
                /\ PendingTrue /\ OwnResult
==============================================================================
