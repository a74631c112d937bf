----------------------------- MODULE V3Session -----------------------------
(***************************************************************************)
(* LtpduV3Session of nl_ltpdu_v3.py: one UDP socket, one SRP-keyed cipher  *)
(* whose single counter must advance in step on both ends, an asyncio lock *)
(* around every exchange, retransmission of the identical datagram, and    *)
(* tasks that may time out, be cancelled or find the session closed at any *)
(* await.  The network may lose, delay, duplicate and reorder datagrams:   *)
(* sent and replies only grow, a datagram that is never picked is lost,    *)
(* and one that is picked twice is a duplicate.                            *)
(*                                                                         *)
(* A SHA-256/AES key is an integer naming its handshake; a ciphertext is   *)
(* the triple (key, counter, request) it was made from, and it decrypts    *)
(* exactly under that key at that counter (the CCM tag, the CTR CRC).      *)
(***************************************************************************)
EXTENDS Naturals, FiniteSets

CONSTANTS
  Tasks,          \* coroutines that share the session object
  MsgIds,         \* 16-bit message ids; few, so that they are reused
  Attempts,       \* transmissions of one datagram (4 in the code)
  CounterLimit,   \* first counter without a nonce: 2^32 or 2^40 in the code
  MaxCalls,       \* bound: encrypted requests made on the session
  MaxHandshakes,  \* bound: SRP handshakes started on the session
  None

ASSUME V3Assumption ==
  /\ Attempts \in Nat \ {0}
  /\ CounterLimit \in Nat
  /\ MaxCalls \in Nat
  /\ MaxHandshakes \in Nat
  /\ None \notin Tasks
  /\ None \notin MsgIds

Calls == 1..MaxCalls
Keys == 1..MaxHandshakes

VARIABLES
  lock,      \* _lock: the task that holds it
  task,      \* what each coroutine is doing
  cipher,    \* _cipher: key (0 for None) and counter
  broken,    \* _broken
  closed,    \* _closed
  future,    \* protocol.pending: what resolved the future a task waits on
  calls,     \* requests made so far
  starts,    \* handshakes made so far
  outcome,   \* how each request ended for its caller
  sent,      \* datagrams sent to the device
  replies,   \* datagrams sent by the device
  seen,      \* datagrams the device has answered; a repeat gets the same reply
  device,    \* the device's end: key offered, key in use, counter
  executed   \* how often the device carried out each request

client == <<lock, task, cipher, broken, closed, future, calls, starts, outcome, sent>>
peer == <<replies, seen, device, executed>>
vars == <<client, peer>>

NoCipher == [key |-> 0, ctr |-> 0]
NoReply == [kind |-> "none", id |-> None, key |-> 0, ctr |-> 0, call |-> 0]
Idle == [op |-> "none", at |-> "idle", id |-> None, call |-> 0, key |-> 0, attempt |-> 0]

Ops == {"request", "auth", "pair", "unpair"}
Handshaking == {"auth", "pair"}
\* The awaits of an exchange: _handshake's two, and an encrypted one.
WaitPoints == {"challenge", "verdict", "answer"}

Waiting(t) == task[t].at \in WaitPoints
PendingIds == {task[u].id : u \in {w \in Tasks : Waiting(w)}}

Init ==
  /\ lock = None
  /\ task = [t \in Tasks |-> Idle]
  /\ cipher = NoCipher
  /\ broken = FALSE
  /\ closed = FALSE
  /\ future = [t \in Tasks |-> NoReply]
  /\ calls = 0
  /\ starts = 0
  /\ outcome = [c \in Calls |-> "none"]
  /\ sent = {}
  /\ replies = {}
  /\ seen = {}
  /\ device = [offer |-> 0, key |-> 0, ctr |-> 0]
  /\ executed = [c \in Calls |-> 0]

-----------------------------------------------------------------------------
(* Decisions of the code that the actions share.                           *)

\* `except BaseException` marks the cipher broken whatever ended the exchange.
BreaksOn_ExceptionOnly(cause) == cause # "cancelled"
BreaksOn(cause) == TRUE

\* _encrypted raises SessionExpiredError before it sends anything.
Usable_NoFlag == cipher.key # 0
Usable == cipher.key # 0 /\ ~broken

\* _exchange raises ConnectionError once the session is closed.
Refused_Never == FALSE
Refused == closed

\* A request that was sent and not answered is a TimeoutError, never an expiry.
TimeoutOutcome_Expired == "expired"
TimeoutOutcome == "failed"

LastAttempt_Never(t) == FALSE
LastAttempt(t) == task[t].attempt = Attempts

\* A reply decrypts only at the counter that follows its request's.
Decrypts_AnyCounter(r) == r.kind = "data" /\ r.key = cipher.key
Decrypts(r) ==
  /\ r.kind = "data"
  /\ r.key = cipher.key
  /\ r.ctr = cipher.ctr
  /\ cipher.ctr < CounterLimit

Advance(c) == [c EXCEPT !.ctr = @ + 1]

\* The call ends for its caller.
Finish(t, out) ==
  /\ task' = [task EXCEPT ![t] = Idle]
  /\ future' = [future EXCEPT ![t] = NoReply]
  /\ outcome' = IF task[t].call = 0 THEN outcome
                ELSE [outcome EXCEPT ![task[t].call] = out]

\* The task leaves its `async with self._lock` block.
Return(t, out) ==
  /\ lock' = None
  /\ Finish(t, out)

\* An exchange that did not end with its own answer.
Fail(t, cause, out) ==
  /\ Return(t, out)
  /\ broken' = (broken \/ BreaksOn(cause))

\* _exchange: an unused message id, the datagram, and the wait for its future.
Exchange(t, at, kind, key, ctr) ==
  \E i \in MsgIds \ {task[u].id : u \in {w \in Tasks \ {t} : Waiting(w)}} :
    /\ sent' = sent \cup {[kind |-> kind, id |-> i, key |-> key, ctr |-> ctr,
                           call |-> task[t].call]}
    /\ task' = [task EXCEPT ![t].at = at, ![t].id = i, ![t].attempt = 1]
    /\ future' = [future EXCEPT ![t] = NoReply]

\* _encrypted from its first line to its await, for the cipher c.
SendEncrypted(t, kind, c) ==
  IF c.ctr >= CounterLimit \/ Refused
  THEN /\ Fail(t, "error", "failed")
       /\ cipher' = IF c.ctr >= CounterLimit THEN c ELSE Advance(c)
       /\ UNCHANGED sent
  ELSE /\ Exchange(t, "answer", kind, c.key, c.ctr)
       /\ cipher' = Advance(c)
       /\ lock' = t
       /\ broken' = FALSE
       /\ UNCHANGED outcome

-----------------------------------------------------------------------------
(* The client.                                                             *)

\* A coroutine calls a control, auth/reauth, pair or unpair and queues for
\* the lock. Callers unpair a session object at most once.
Begin(t, op) ==
  /\ task[t].at = "idle"
  /\ op \in Handshaking => starts < MaxHandshakes
  /\ op # "auth" => calls < MaxCalls
  /\ op = "unpair" => /\ \A p \in sent : p.kind # "unpair"
                      /\ \A u \in Tasks : task[u].op # "unpair"
  /\ starts' = IF op \in Handshaking THEN starts + 1 ELSE starts
  /\ calls' = IF op = "auth" THEN calls ELSE calls + 1
  /\ task' = [task EXCEPT ![t] = [Idle EXCEPT
                !.op = op, !.at = "lock",
                !.key = IF op \in Handshaking THEN starts' ELSE 0,
                !.call = IF op = "auth" THEN 0 ELSE calls']]
  /\ UNCHANGED <<lock, cipher, broken, closed, future, outcome, sent, peer>>

\* auth, pair: _handshake forgets the old cipher before its first exchange.
StartHandshake(t) ==
  /\ lock = None
  /\ task[t].at = "lock"
  /\ task[t].op \in Handshaking
  /\ cipher' = NoCipher
  /\ IF Refused
     THEN /\ Fail(t, "error", "failed")
          /\ UNCHANGED sent
     ELSE /\ Exchange(t, "challenge", "hello", task[t].key, 0)
          /\ lock' = t
          /\ broken' = TRUE
          /\ UNCHANGED outcome
  /\ UNCHANGED <<closed, calls, starts, peer>>

\* _request and unpair take the lock, check the cipher and send.
StartRequest(t) ==
  /\ lock = None
  /\ task[t].at = "lock"
  /\ task[t].op \in {"request", "unpair"}
  /\ IF ~Usable
     THEN /\ Return(t, "expired")
          /\ UNCHANGED <<cipher, broken, sent>>
     ELSE SendEncrypted(t, task[t].op, cipher)
  /\ UNCHANGED <<closed, calls, starts, peer>>

\* wait_for expired with attempts left: the same bytes go out again.
Retransmit_Reencrypts(t) ==
  /\ Waiting(t)
  /\ future[t].kind = "none"
  /\ ~LastAttempt(t)
  /\ task' = [task EXCEPT ![t].attempt = @ + 1]
  /\ IF task[t].at = "answer"
     THEN /\ sent' = sent \cup {[kind |-> task[t].op, id |-> task[t].id, key |-> cipher.key,
                                 ctr |-> cipher.ctr, call |-> task[t].call]}
          /\ cipher' = Advance(cipher)
     ELSE UNCHANGED <<sent, cipher>>
  /\ UNCHANGED <<lock, broken, closed, future, calls, starts, outcome, peer>>

Retransmit(t) ==
  /\ Waiting(t)
  /\ future[t].kind = "none"
  /\ ~LastAttempt(t)
  /\ task' = [task EXCEPT ![t].attempt = @ + 1]
  /\ UNCHANGED <<lock, cipher, broken, closed, future, calls, starts, outcome, sent, peer>>

\* The last wait expired. The timer may win over a reply of the same instant.
Timeout_Untimed(t) ==
  /\ Waiting(t)
  /\ LastAttempt(t)
  /\ future[t].kind # "none"
  /\ Fail(t, "timeout", TimeoutOutcome)
  /\ UNCHANGED <<cipher, closed, calls, starts, sent, peer>>

Timeout(t) ==
  /\ Waiting(t)
  /\ LastAttempt(t)
  /\ Fail(t, "timeout", TimeoutOutcome)
  /\ UNCHANGED <<cipher, closed, calls, starts, sent, peer>>

\* The coroutine is cancelled while it waits for the lock or for a reply.
Cancel(t) ==
  /\ \/ /\ task[t].at = "lock"
        /\ Finish(t, "failed")
        /\ UNCHANGED <<lock, broken>>
     \/ /\ Waiting(t)
        /\ Fail(t, "cancelled", "failed")
  /\ UNCHANGED <<cipher, closed, calls, starts, sent, peer>>

\* datagram_received: the first reply with the awaited id resolves the future.
Deliver(r) ==
  /\ \E t \in Tasks :
       /\ Waiting(t)
       /\ task[t].id = r.id
       /\ future[t].kind = "none"
       /\ future' = [future EXCEPT ![t] = r]
  /\ UNCHANGED <<lock, task, cipher, broken, closed, calls, starts, outcome, sent, peer>>

\* _handshake between its two exchanges. A challenge of another handshake
\* yields a proof the device cannot verify.
ReceiveChallenge(t) ==
  /\ task[t].at = "challenge"
  /\ future[t].kind # "none"
  /\ IF future[t].kind = "challenge" /\ ~Refused
     THEN /\ Exchange(t, "verdict", "proof",
                      IF future[t].key = task[t].key THEN task[t].key ELSE 0, 0)
          /\ UNCHANGED <<lock, broken, outcome>>
     ELSE /\ Fail(t, "error", "failed")
          /\ UNCHANGED sent
  /\ UNCHANGED <<cipher, closed, calls, starts, peer>>

\* The server proof: auth is done, pair goes on to fetch its token.
ReceiveVerdict(t) ==
  LET fresh == [key |-> task[t].key, ctr |-> 0] IN
  /\ task[t].at = "verdict"
  /\ future[t].kind # "none"
  /\ IF future[t].kind = "verdict" /\ future[t].key = task[t].key
     THEN IF task[t].op = "pair"
          THEN SendEncrypted(t, "token", fresh)
          ELSE /\ Return(t, "ok")
               /\ cipher' = fresh
               /\ broken' = FALSE
               /\ UNCHANGED sent
     ELSE /\ Fail(t, "error", "failed")
          /\ UNCHANGED <<cipher, sent>>
  /\ UNCHANGED <<closed, calls, starts, peer>>

\* The rest of _encrypted: a reply that decrypts is the caller's answer, even
\* when the operation status inside it is an error.
ReceiveAnswer(t) ==
  /\ task[t].at = "answer"
  /\ task[t].op # "unpair"
  /\ future[t].kind # "none"
  /\ IF Decrypts(future[t])
     THEN /\ Return(t, IF future[t].call = task[t].call THEN "ok" ELSE "alien")
          /\ cipher' = Advance(cipher)
          /\ UNCHANGED broken
     ELSE /\ Fail(t, "error", "failed")
          /\ UNCHANGED cipher
  /\ UNCHANGED <<closed, calls, starts, sent, peer>>

\* unpair also takes an empty reply, and leaves the session without a cipher.
ReceiveUnpair(t) ==
  /\ task[t].at = "answer"
  /\ task[t].op = "unpair"
  /\ future[t].kind # "none"
  /\ broken' = TRUE
  /\ IF future[t].kind = "empty" \/ Decrypts(future[t])
     THEN /\ Return(t, "ok")
          /\ cipher' = NoCipher
     ELSE /\ Return(t, "failed")
          /\ UNCHANGED cipher
  /\ UNCHANGED <<closed, calls, starts, sent, peer>>

\* close: every pending future fails with ConnectionError.
Close ==
  /\ ~closed
  /\ closed' = TRUE
  /\ future' = [t \in Tasks |-> IF Waiting(t) /\ future[t].kind = "none"
                                THEN [NoReply EXCEPT !.kind = "closed"] ELSE future[t]]
  /\ UNCHANGED <<lock, task, cipher, broken, calls, starts, outcome, sent, peer>>

-----------------------------------------------------------------------------
(* The device, as the tests' Peer plays it.                                *)

Reply(p, kind, ctr) == [kind |-> kind, id |-> p.id, key |-> p.key, ctr |-> ctr, call |-> p.call]

\* It starts a handshake; the session it had is gone.
DeviceHello(p) ==
  /\ p.kind = "hello"
  /\ device' = [offer |-> p.key, key |-> 0, ctr |-> 0]
  /\ replies' = replies \cup {Reply(p, "challenge", 0)}
  /\ UNCHANGED executed

\* It verifies the client's proof for the handshake it offered.
DeviceProof(p) ==
  /\ p.kind = "proof"
  /\ p.key # 0
  /\ p.key = device.offer
  /\ device' = [offer |-> 0, key |-> p.key, ctr |-> 0]
  /\ replies' = replies \cup {Reply(p, "verdict", 0)}
  /\ UNCHANGED executed

\* It decrypts a request at its own counter, carries it out and answers.
DeviceExecute(p) ==
  /\ p.kind \in {"request", "token", "unpair"}
  /\ p.key = device.key
  /\ p.ctr = device.ctr
  /\ executed' = [executed EXCEPT ![p.call] = @ + 1]
  /\ \/ /\ replies' = replies \cup {Reply(p, "data", p.ctr + 1)}
        /\ device' = [device EXCEPT !.ctr = @ + 2]
     \/ /\ p.kind = "unpair"
        /\ replies' = replies \cup {Reply(p, "empty", 0)}
        /\ device' = [device EXCEPT !.ctr = @ + 1]

DeviceHandle(p) ==
  /\ p \in sent \ seen
  /\ seen' = seen \cup {p}
  /\ DeviceHello(p) \/ DeviceProof(p) \/ DeviceExecute(p)
  /\ UNCHANGED client

\* It answers any datagram, old ones included, with an error status: busy,
\* wrong credentials (status 3), undecipherable.
DeviceRefuse(p) ==
  /\ p \in sent
  /\ replies' = replies \cup {[NoReply EXCEPT !.kind = "status", !.id = p.id]}
  /\ UNCHANGED <<client, seen, device, executed>>

\* Power loss, or the device drops an idle session.
DeviceRestart ==
  /\ device' = [offer |-> 0, key |-> 0, ctr |-> 0]
  /\ UNCHANGED <<client, replies, seen, executed>>

-----------------------------------------------------------------------------

\* The steps of the program: what the event loop runs when it can.
Step(t) ==
  \/ StartHandshake(t) \/ StartRequest(t)
  \/ Retransmit(t) \/ Timeout(t)
  \/ ReceiveChallenge(t) \/ ReceiveVerdict(t)
  \/ ReceiveAnswer(t) \/ ReceiveUnpair(t)

Next ==
  \/ \E t \in Tasks : Step(t) \/ Cancel(t) \/ \E op \in Ops : Begin(t, op)
  \/ \E r \in replies : Deliver(r)
  \/ Close
  \/ \E p \in sent : DeviceHandle(p) \/ DeviceRefuse(p)
  \/ DeviceRestart

Spec == Init /\ [][Next]_vars

\* asyncio runs a ready callback and fires a due timer. Nothing is assumed of the
\* network, of the device or of who calls, cancels and closes.
Fairness == \A t \in Tasks : WF_vars(Step(t))
FairSpec == Spec /\ Fairness

-----------------------------------------------------------------------------
(* Properties.                                                             *)

Encrypted == {"request", "token", "unpair"}
Requests == {p \in sent : p.kind \in Encrypted}
Ciphertexts == Requests \cup {r \in replies : r.kind = "data"}

Points == WaitPoints \cup {"idle", "lock"}
TaskType == [op : Ops \cup {"none"}, at : Points, id : MsgIds \cup {None},
             call : Calls \cup {0}, key : Keys \cup {0}, attempt : 0..Attempts]
PacketType == [kind : Encrypted \cup {"hello", "proof"}, id : MsgIds,
               key : Keys \cup {0}, ctr : Nat, call : Calls \cup {0}]
ReplyKinds == {"challenge", "verdict", "data", "empty", "status"}
ReplyType == [kind : ReplyKinds, id : MsgIds, key : Keys \cup {0}, ctr : Nat,
              call : Calls \cup {0}]
FutureType == [kind : ReplyKinds \cup {"none", "closed"}, id : MsgIds \cup {None},
               key : Keys \cup {0}, ctr : Nat, call : Calls \cup {0}]

TypeOK ==
  /\ lock \in Tasks \cup {None}
  /\ task \in [Tasks -> TaskType]
  /\ cipher \in [key : Keys \cup {0}, ctr : Nat]
  /\ broken \in BOOLEAN
  /\ closed \in BOOLEAN
  /\ future \in [Tasks -> FutureType]
  /\ calls \in 0..MaxCalls
  /\ starts \in 0..MaxHandshakes
  /\ outcome \in [Calls -> {"none", "ok", "alien", "expired", "failed"}]
  /\ sent \subseteq PacketType
  /\ replies \subseteq ReplyType
  /\ seen \subseteq sent
  /\ device \in [offer : Keys \cup {0}, key : Keys \cup {0}, ctr : Nat]
  /\ executed \in [Calls -> Nat]

\* No key encrypts two different messages, of either side, at one counter: a
\* timed-out, cancelled or failed exchange leaves the reply's counter to the
\* device, and the client must not take it for its next request (SecureCipher,
\* `except BaseException` in _encrypted).
NonceUnique ==
  \A p, q \in Ciphertexts : p.key = q.key /\ p.ctr = q.ctr => p = q

\* A call that returns data returns the device's answer to that very call, which
\* the device carried out, whatever late or duplicated reply came in under a
\* reused message id (_Datagrams, _encrypted).
AnswersAreOwn ==
  \A c \in Calls : /\ outcome[c] # "alien"
                   /\ outcome[c] = "ok" => executed[c] = 1

\* Retransmitting a request never makes the device carry it out twice
\* ("Resend the identical ciphertext and ID, never advance cipher on retry").
AtMostOnce == \A c \in Calls : executed[c] <= 1

\* SessionExpiredError means the request never left: the coordinator may
\* reauthenticate and run it again without doing anything twice.
ExpiredMeansUnsent ==
  \A c \in Calls : outcome[c] = "expired" =>
    /\ executed[c] = 0
    /\ \A p \in Requests : p.call # c

\* Between exchanges a session that is not marked broken is in step with the
\* device, unless the device has dropped the session.
LockStep ==
  lock = None /\ Usable /\ device.key = cipher.key => device.ctr = cipher.ctr

\* A closed session sends nothing more, not even the second message of a
\* handshake that was under way.
NoSendAfterClose == [][closed => sent' = sent]_vars

\* Whatever the network and the device do, the task that holds the lock gives it
\* up; the lock is first come first served, so every call returns to its caller.
LockReleased == lock # None ~> lock = None

\* The session keeps the promise of SecureChannel.
Busy == {t \in Tasks : task[t].at = "answer"}
NoCall == 0
Channel == INSTANCE SecureChannel WITH
  phase <- IF Busy # {} THEN "busy" ELSE IF Usable THEN "ready" ELSE "down",
  current <- IF Busy # {} THEN task[CHOOSE t \in Busy : TRUE].call ELSE NoCall,
  asked <- {p.call : p \in Requests},
  answered <- {c \in Calls : outcome[c] = "ok"}
ChannelSpec == Channel!Spec
=============================================================================
