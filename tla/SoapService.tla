----------------------------- MODULE SoapService -----------------------------
(***************************************************************************)
(* The request pipeline of src/server.rs (soap_post_handler and            *)
(* soap_post_handler_for_route): concurrent POST requests that share the   *)
(* nonce cache behind a tokio Mutex, the dispatch tables, which never      *)
(* change, and the two clocks.                                             *)
(*                                                                         *)
(* The handler of a request runs without interruption between its awaits:  *)
(* up to the lock, under the lock, and up to the application's handler.    *)
(* Under the lock the look-up of the nonce and its insertion are separate  *)
(* steps, since other requests run in parallel; that this is the atomic    *)
(* validation of module UsernameToken is what Linearizable says.           *)
(***************************************************************************)
EXTENDS Integers, FiniteSets, Sequences, SequencesExt

CONSTANTS
    Requests,        \* the requests of a run
    Messages,        \* what they may carry
    Tables,          \* dispatch table by path, from ServerBuilder
    Registry,        \* type -> required child elements
    AuthConfigured,  \* whether auth() was called on the builder
    NoAction,        \* see DispatchTable
    Tokens, StoredPassword, Decode, Absent, Garbled, Tolerance, MaxSkew,
    Nonces, HalfWindow, MaxEntries, MaxTime        \* see UsernameToken

VARIABLES
    clock, cache, accepted, acceptedAt, acceptedAfter, skew, verdict, admitted,
                     \* see UsernameToken
    pc,              \* where the handler of each request stands
    message,         \* what it carries
    response,        \* what it was answered
    queue,           \* the waiters of the mutex, first come first served
    holder,          \* who holds the mutex, or Absent
    rotated,         \* the cache a validating request has in hand
    called           \* history: the requests the application handled

Dispatch == INSTANCE DispatchTable
Auth == INSTANCE UsernameToken

authVars == <<clock, cache, accepted, acceptedAt, acceptedAfter, skew, verdict, admitted>>
vars == <<authVars, pc, message, response, queue, holder, rotated, called>>

(* "idle": not arrived; "waiting": in lock().await; "locked": about to     *)
(* validate the token; "inserting": in check_and_insert, past the look-up; *)
(* "handling": in the application's handler; "dropped": no answer.         *)
Stages == {"idle", "waiting", "locked", "inserting", "handling", "answered", "dropped"}

Versions == {"soap11", "soap12"}

(* `step' is the step of the pipeline that answered.                       *)
Responses == [status : {"ok", "fault"}, version : Versions,
              step : {"content type", "envelope", "body", "route", "security header",
                      "token", "schema", "handler"}]

(* Messages come from the network; the constants of validation are those   *)
(* the server was built with.                                              *)
ASSUME ServiceAssumption ==
    /\ Auth!ValidationConstants
    /\ \A m \in Messages : /\ m.contentType \in Versions \cup {"other"}
                          /\ m.security \in Tokens \cup {Absent}
    /\ Absent \notin Messages /\ Absent \notin Requests /\ Absent \notin Responses

TypeOK ==
    /\ Auth!TypeOK
    /\ pc \in [Requests -> Stages]
    /\ message \in [Requests -> Messages \cup {Absent}]
    /\ response \in [Requests -> Responses \cup {Absent}]
    /\ queue \in Seq(Requests)
    /\ holder \in Requests \cup {Absent}
    /\ rotated \in [Requests -> Auth!Cache!Caches]
    /\ called \subseteq Requests

-----------------------------------------------------------------------------
(* Steps 1 to 5 of the pipeline, up to the lock: functions of the message. *)

Entry(m) == Dispatch!Route(Tables[m.path], m.body, m.action)

(* Authentication is enforced only when a validator is configured.         *)
NeedsAuth(m) == Entry(m).authRequired /\ AuthConfigured

Fault(version, step) == [status |-> "fault", version |-> version, step |-> step]

(* Every fault is sent in the version of the Content-Type header.          *)
MutantRefusal(m) ==
    IF m.contentType = "other" THEN Fault("other", "content type")
    ELSE IF m.envelope \notin Versions THEN Fault(m.contentType, "envelope")
    ELSE IF m.body = Absent THEN Fault(m.contentType, "body")
    ELSE IF Entry(m) = Absent THEN Fault(m.contentType, "route")
    ELSE IF NeedsAuth(m) /\ m.security = Absent THEN Fault(m.contentType, "security header")
    ELSE Absent

(* The early returns, in their order: the version is the one known so far. *)
Refusal(m) ==
    IF m.contentType = "other" THEN Fault("soap12", "content type")
    ELSE IF m.envelope \notin Versions THEN Fault(m.contentType, "envelope")
    ELSE IF m.body = Absent THEN Fault(m.envelope, "body")
    ELSE IF Entry(m) = Absent THEN Fault(m.envelope, "route")
    ELSE IF NeedsAuth(m) /\ m.security = Absent THEN Fault(m.envelope, "security header")
    ELSE Absent

-----------------------------------------------------------------------------
Init ==
    /\ Auth!Init
    /\ pc = [r \in Requests |-> "idle"]
    /\ message = [r \in Requests |-> Absent]
    /\ response = [r \in Requests |-> Absent]
    /\ queue = <<>>
    /\ holder = Absent
    /\ rotated = [r \in Requests |-> cache]
    /\ called = {}

Goto(r, stage) == pc' = [pc EXCEPT ![r] = stage]

Respond(r, answer) ==
    /\ Goto(r, "answered")
    /\ response' = [response EXCEPT ![r] = answer]

(* Steps 6 and 7: structural validation, then the application's handler.   *)
Proceed(r, m) ==
    IF Dispatch!ValidRequest(Registry, Entry(m).validation, m.children)
    THEN /\ Goto(r, "handling")
         /\ called' = called \cup {r}
         /\ UNCHANGED response
    ELSE /\ Respond(r, Fault(m.envelope, "schema"))
         /\ UNCHANGED called

Receive(r, m) == pc[r] = "idle" /\ message' = [message EXCEPT ![r] = m]

RefuseEarly(r, m) ==
    /\ Receive(r, m)
    /\ Refusal(m) # Absent
    /\ Respond(r, Refusal(m))
    /\ UNCHANGED <<authVars, queue, holder, rotated, called>>

ProceedWithoutAuth(r, m) ==
    /\ Receive(r, m)
    /\ Refusal(m) = Absent /\ ~NeedsAuth(m)
    /\ Proceed(r, m)
    /\ UNCHANGED <<authVars, queue, holder, rotated>>

AwaitLock(r, m) ==
    /\ Receive(r, m)
    /\ Refusal(m) = Absent /\ NeedsAuth(m)
    /\ Goto(r, "waiting")
    /\ queue' = Append(queue, r)
    /\ UNCHANGED <<authVars, response, holder, rotated, called>>

(* The mutex is granted to its first waiter.                               *)
Acquire(r) ==
    /\ holder = Absent
    /\ queue # <<>> /\ Head(queue) = r
    /\ holder' = r /\ queue' = Tail(queue)
    /\ Goto(r, "locked")
    /\ UNCHANGED <<authVars, message, response, rotated, called>>

Token(r) == message[r].security

TokenFault(r) == Respond(r, Fault(message[r].envelope, "token"))

(* Validation fails before the cache is consulted; the guard is dropped.   *)
RefuseToken(r) ==
    /\ pc[r] = "locked"
    /\ Auth!Refuse(Token(r))
    /\ TokenFault(r)
    /\ holder' = Absent
    /\ UNCHANGED <<message, queue, rotated, called>>

RefuseReplay(r) ==
    /\ pc[r] = "locked"
    /\ Auth!RefuseReplay(Token(r))
    /\ TokenFault(r)
    /\ holder' = Absent
    /\ UNCHANGED <<message, queue, rotated, called>>

(* A text token without a nonce does not touch the cache.                  *)
AdmitWithoutNonce(r) ==
    /\ pc[r] = "locked"
    /\ Token(r).nonce = Absent /\ Auth!Admit(Token(r))
    /\ Proceed(r, message[r])
    /\ holder' = Absent
    /\ UNCHANGED <<message, queue, rotated>>

(* The mutex is given back between the look-up and the insertion.          *)
MutantLookUpNonce(r) ==
    LET now == Auth!Cache!RotateIfNeeded(cache, clock)
    IN  /\ pc[r] = "locked"
        /\ Auth!Credentials(Token(r), Auth!WallClock) = "ok"
        /\ Token(r).nonce # Absent /\ Token(r).nonce \notin Auth!Cache!Remembered(now)
        /\ rotated' = [rotated EXCEPT ![r] = now]
        /\ Goto(r, "inserting")
        /\ holder' = Absent
        /\ UNCHANGED <<authVars, message, response, queue, called>>

(* check_and_insert up to the look-up: the nonce is not remembered.        *)
LookUpNonce(r) ==
    LET now == Auth!Cache!RotateIfNeeded(cache, clock)
    IN  /\ pc[r] = "locked"
        /\ Auth!Credentials(Token(r), Auth!WallClock) = "ok"
        /\ Token(r).nonce # Absent /\ Token(r).nonce \notin Auth!Cache!Remembered(now)
        /\ rotated' = [rotated EXCEPT ![r] = now]
        /\ Goto(r, "inserting")
        /\ UNCHANGED <<authVars, message, response, queue, holder, called>>

(* The guard of the mutex outlives the handler call.                       *)
MutantInsertNonce(r) ==
    /\ pc[r] = "inserting"
    /\ cache' = Auth!Cache!Insert(Auth!Cache!MakeRoom(rotated[r], clock), Token(r).nonce)
    /\ Auth!Cache!RecordAcceptance(Token(r).nonce)
    /\ verdict' = "ok"
    /\ admitted' = admitted \cup {Token(r)}
    /\ Proceed(r, message[r])
    /\ UNCHANGED <<clock, skew, message, queue, holder, rotated>>

(* The rest of check_and_insert; the guard is dropped before step 6.       *)
InsertNonce(r) ==
    /\ pc[r] = "inserting"
    /\ cache' = Auth!Cache!Insert(Auth!Cache!MakeRoom(rotated[r], clock), Token(r).nonce)
    /\ Auth!Cache!RecordAcceptance(Token(r).nonce)
    /\ verdict' = "ok"
    /\ admitted' = admitted \cup {Token(r)}
    /\ Proceed(r, message[r])
    /\ holder' = Absent
    /\ UNCHANGED <<clock, skew, message, queue, rotated>>

(* The application's handler returns a body or a fault.                    *)
HandlerReturns(r) ==
    /\ pc[r] = "handling"
    /\ \E status \in {"ok", "fault"} :
          Respond(r, [status |-> status, version |-> message[r].envelope, step |-> "handler"])
    /\ UNCHANGED <<authVars, message, queue, holder, rotated, called>>

(* A waiter that goes away keeps its place in the queue.                   *)
MutantDrop(r) ==
    /\ pc[r] \in {"waiting", "locked", "handling"}
    /\ Goto(r, "dropped")
    /\ holder' = IF holder = r THEN Absent ELSE holder
    /\ UNCHANGED <<authVars, message, response, queue, rotated, called>>

(* The future of a request is dropped: at an await because the client went *)
(* away, or because the application's closure (the credential look-up, the *)
(* handler) panicked.  Its place in the queue or its guard goes with it.   *)
Drop(r) ==
    /\ pc[r] \in {"waiting", "locked", "handling"}
    /\ Goto(r, "dropped")
    /\ IF pc[r] = "waiting"
       THEN \E i \in DOMAIN queue : queue[i] = r /\ queue' = RemoveAt(queue, i)
       ELSE UNCHANGED queue
    /\ holder' = IF holder = r THEN Absent ELSE holder
    /\ UNCHANGED <<authVars, message, response, rotated, called>>

(* Time passes, but not during the look-up and insertion of a nonce.       *)
Time ==
    /\ \A r \in Requests : pc[r] # "inserting"
    /\ Auth!Tick \/ Auth!AdjustWallClock
    /\ UNCHANGED <<pc, message, response, queue, holder, rotated, called>>

Arrive(r) ==
    \E m \in Messages : RefuseEarly(r, m) \/ ProceedWithoutAuth(r, m) \/ AwaitLock(r, m)

Validate(r) ==
    \/ RefuseToken(r) \/ RefuseReplay(r) \/ AdmitWithoutNonce(r)
    \/ LookUpNonce(r) \/ InsertNonce(r)

Next ==
    \/ \E r \in Requests :
          Arrive(r) \/ Acquire(r) \/ Validate(r) \/ HandlerReturns(r) \/ Drop(r)
    \/ Time

Spec == Init /\ [][Next]_vars

(* tokio runs every task that can run, and its mutex serves its waiters in *)
(* turn.  Nothing is assumed of the application's handlers, of clients or  *)
(* of the clocks.                                                          *)
Fairness == \A r \in Requests : WF_vars(Acquire(r)) /\ WF_vars(Validate(r))

FairSpec == Spec /\ Fairness

-----------------------------------------------------------------------------
(* Properties.                                                             *)

(* The requests that are past authentication: their token was accepted.    *)
PastAuth(r) ==
    \/ r \in called
    \/ response[r] # Absent /\ response[r].step \in {"schema", "handler"}

(* A token that carries a nonce takes at most one request past             *)
(* authentication, whatever the interleaving of requests, also when the    *)
(* first of them fails validation, fails in the handler or is abandoned by *)
(* its client -- if the half window covers the freshness interval and no   *)
(* bucket overflows.                                                       *)
TokenUsedOnce ==
    Auth!WindowCoversTolerance /\ Cardinality(Nonces) <= MaxEntries =>
        \A r, s \in Requests :
            /\ r # s /\ PastAuth(r) /\ PastAuth(s)
            /\ NeedsAuth(message[r]) /\ NeedsAuth(message[s])
            => Token(r) # Token(s) \/ Token(r).nonce = Absent

(* The mutex is held by the one request that is validating, and waited for *)
(* by exactly the requests that are waiting, each once: a request that     *)
(* goes away while waiting or validating leaves neither behind.            *)
LockDiscipline ==
    /\ {r \in Requests : pc[r] \in {"locked", "inserting"}} = {holder} \ {Absent}
    /\ {r \in Requests : pc[r] = "waiting"} = ToSet(queue)
    /\ \A i, j \in DOMAIN queue : queue[i] = queue[j] => i = j

(* Once the envelope was read, every answer is in the version of the       *)
(* envelope, also when the Content-Type header says otherwise (regression  *)
(* BLOCK-SS-C04), and it is a success only if the handler was called.      *)
AnswerVersion ==
    \A r \in Requests :
        response[r] # Absent /\ response[r].step \notin {"content type", "envelope"} =>
            /\ response[r].version = message[r].envelope
            /\ response[r].status = "ok" => r \in called

(* The concurrent requests validate their tokens as if one after the other *)
(* (the sequential module UsernameToken).                                  *)
Linearizable == Auth!Spec

(* Every request gets its turn at the cache and through it, though the     *)
(* handlers of other requests may never return: the mutex is not held      *)
(* while a handler runs, and an abandoned waiter does not block the queue. *)
WaitersProgress ==
    \A r \in Requests :
        pc[r] = "waiting" ~> pc[r] \in {"handling", "answered", "dropped"}

-----------------------------------------------------------------------------
(* Why they hold.                                                          *)

(* A request that has come as far as the lock was read in full, and its    *)
(* operation is a protected one; it is answered only at the end.           *)
StagesInOrder ==
    \A r \in Requests :
        /\ pc[r] \in {"waiting", "locked", "inserting", "handling"} =>
               message[r] \in Messages /\ Refusal(message[r]) = Absent
        /\ pc[r] \in {"waiting", "locked", "inserting"} => NeedsAuth(message[r])
        /\ pc[r] = "handling" => r \in called
        /\ pc[r] # "answered" => response[r] = Absent
        /\ pc[r] \in {"idle", "waiting", "locked", "inserting"} => r \notin called

(* What the look-up of a nonce found still holds when the nonce is entered.*)
LookUpCurrent ==
    \A r \in Requests : pc[r] = "inserting" =>
        /\ rotated[r] = Auth!Cache!RotateIfNeeded(cache, clock)
        /\ Auth!Credentials(Token(r), Auth!WallClock) = "ok"
        /\ Token(r).nonce # Absent
        /\ Token(r).nonce \notin Auth!Cache!Remembered(rotated[r])

(* Whoever is past authentication was admitted.                            *)
PastAuthAdmitted ==
    \A r \in Requests :
        PastAuth(r) /\ NeedsAuth(message[r]) => Token(r) \in admitted

(* A nonce does not come after itself.                                     *)
OthersAfter == \A n \in Nonces : n \notin acceptedAfter[n]

IInv ==
    /\ TypeOK /\ Auth!IInv
    /\ LockDiscipline /\ StagesInOrder /\ LookUpCurrent /\ AnswerVersion
    /\ PastAuthAdmitted /\ OthersAfter
=============================================================================
