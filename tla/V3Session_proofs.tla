-------------------------- MODULE V3Session_proofs --------------------------
(***************************************************************************)
(* Proofs about V3Session, for any number of tasks, message ids, attempts, *)
(* requests and handshakes.                                                *)
(***************************************************************************)
EXTENDS V3Session, TLAPS

-----------------------------------------------------------------------------
(* The inductive invariant. It says which request every ciphertext, every  *)
(* reply and every wait belongs to; the properties follow from it.         *)

\* A task waits for the device exactly when it holds the lock.
LockInv == \A t \in Tasks : Waiting(t) <=> lock = t

\* The requests of the tasks under way are distinct, were counted, have not
\* ended, and have not been sent before their task waits for their answer.
Unsent == {"lock", "challenge", "verdict"}
CallInv ==
  /\ \A t \in Tasks : task[t].call <= calls
  /\ \A t \in Tasks : task[t].at = "idle" => task[t] = Idle
  /\ \A t \in Tasks : task[t].op \in {"request", "unpair", "pair"} => task[t].call # 0
  /\ \A t \in Tasks : task[t].op \in {"none", "auth"} => task[t].call = 0
  /\ \A t, u \in Tasks : task[t].call = task[u].call /\ task[t].call # 0 => t = u
  /\ \A t \in Tasks : task[t].call # 0 => outcome[task[t].call] = "none"
  /\ \A c \in Calls : c > calls => outcome[c] = "none"
  /\ \A p \in Requests : p.call \in 1..calls
  /\ \A t \in Tasks, p \in Requests : task[t].at \in Unsent => p.call # task[t].call
  /\ \A p, q \in Requests : p.call = q.call => p = q

\* The key of a handshake under way is in no ciphertext and in no other hands.
KeyInv ==
  /\ \A t \in Tasks : task[t].key <= starts
  /\ \A t \in Tasks : task[t].at \in {"challenge", "verdict"} => task[t].op \in Handshaking
  /\ \A t \in Tasks : task[t].op \in Handshaking => task[t].key # 0
  /\ \A t, u \in Tasks : task[t].key = task[u].key /\ task[t].key # 0 => t = u
  /\ cipher.key <= starts
  /\ \A p \in Requests : p.key \in 1..starts
  /\ \A t \in Tasks : task[t].at \in Unsent /\ task[t].key # 0 =>
       /\ cipher.key # task[t].key
       /\ \A p \in Requests : p.key # task[t].key

\* The client takes the even counters of a key in their order; the odd ones are
\* left to the device's replies.
CounterInv ==
  /\ \A p \in Requests : p.ctr % 2 = 0
  /\ \A p, q \in Requests : p.key = q.key /\ p.ctr = q.ctr => p = q
  /\ \A p \in Requests : p.key = cipher.key => p.ctr < cipher.ctr
  /\ lock = None /\ Usable => cipher.ctr % 2 = 0

\* The request a task waits on, which is the last one under the cipher's key.
Own(t, p) ==
  /\ p.call = task[t].call
  /\ p.key = cipher.key
  /\ p.ctr + 1 = cipher.ctr
  /\ task[t].op = "unpair" => p.kind = "unpair"
AnswerInv ==
  \A t \in Tasks : task[t].at = "answer" =>
    /\ task[t].op \in {"request", "unpair", "pair"}
    /\ ~broken
    /\ \E p \in Requests : Own(t, p)

\* One unpair request at most is ever made.
UnpairInv ==
  /\ \A p, q \in Requests : p.kind = "unpair" /\ q.kind = "unpair" => p = q
  /\ \A t, u \in Tasks : task[t].op = "unpair" /\ task[u].op = "unpair" => t = u
  /\ \A t \in Tasks, p \in Requests :
       task[t].op = "unpair" /\ task[t].at = "lock" => p.kind # "unpair"

\* Encrypted replies answer requests that were carried out, once.
ReplyInv ==
  /\ \A r \in replies : r.kind = "data" =>
       \E p \in Requests \cap seen : r = Reply(p, "data", p.ctr + 1)
  /\ \A r \in replies : r.kind = "empty" =>
       \E p \in Requests \cap seen : p.kind = "unpair"
  /\ \A t \in Tasks : future[t].kind \in {"data", "empty"} => future[t] \in replies

ExecutedInv ==
  \A c \in Calls : executed[c] = IF \E p \in Requests \cap seen : p.call = c THEN 1 ELSE 0

\* How calls have ended.
OutcomeInv ==
  \A c \in Calls : /\ outcome[c] # "alien"
                   /\ outcome[c] = "ok" => \E p \in Requests \cap seen : p.call = c
                   /\ outcome[c] = "expired" => \A p \in Requests : p.call # c

\* A handshake has one hello, which the device takes once: it never comes back to a
\* key that it has used.
Known(S, k) == \E p \in S : p.kind = "hello" /\ p.key = k
HelloInv ==
  /\ \A p \in sent : p.key <= starts
  /\ \A t \in Tasks, p \in sent :
       task[t].at = "lock" /\ task[t].key # 0 => p.key # task[t].key
  /\ \A p, q \in sent : p.kind = "hello" /\ q.kind = "hello" /\ p.key = q.key => p = q
  /\ device.offer # 0 => /\ Known(seen, device.offer)
                         /\ device.key = 0
                         /\ \A p \in Requests \cap seen : p.key # device.offer
  /\ device.key # 0 => Known(seen, device.key)
  /\ \A p \in Requests \cap seen : Known(seen, p.key)

\* The device's counter follows the last request it has carried out under its key.
DeviceInv ==
  device.key # 0 =>
    /\ \A p \in Requests \cap seen : p.key = device.key => p.ctr < device.ctr
    /\ \/ device.ctr = 0
       \/ \E p \in Requests :
            /\ p.key = device.key
            /\ p.ctr + 2 = device.ctr \/ (p.kind = "unpair" /\ p.ctr + 1 = device.ctr)

\* Between exchanges the last request under a cipher that may be used has been
\* carried out, and was no request to unpair.
LastInv ==
  lock = None /\ Usable =>
    \/ cipher.ctr = 0
    \/ \E p \in Requests \cap seen : p.key = cipher.key /\ p.ctr + 2 = cipher.ctr
PartingInv ==
  \A p \in Requests : p.kind = "unpair" /\ p.key = cipher.key =>
    broken \/ \E t \in Tasks : task[t].at = "answer" /\ task[t].op = "unpair"

IInv ==
  /\ TypeOK
  /\ LockInv
  /\ CallInv
  /\ KeyInv
  /\ CounterInv
  /\ AnswerInv
  /\ UnpairInv
  /\ ReplyInv
  /\ ExecutedInv
  /\ OutcomeInv
  /\ HelloInv
  /\ DeviceInv
  /\ LastInv
  /\ PartingInv

-----------------------------------------------------------------------------
(* Type correctness.                                                       *)

Outcomes == {"none", "ok", "alien", "expired", "failed"}

\* A call that ends leaves typed records.
LEMMA FinishType ==
  ASSUME TypeOK, NEW t \in Tasks, NEW out \in Outcomes, Finish(t, out)
  PROVE  /\ task' \in [Tasks -> TaskType]
         /\ future' \in [Tasks -> FutureType]
         /\ outcome' \in [Calls -> Outcomes]
<1>1. Idle \in TaskType
  BY V3Assumption DEF V3Assumption, Idle, TaskType, Points
<1>2. NoReply \in FutureType
  BY DEF NoReply, FutureType
<1>. QED
  BY <1>1, <1>2 DEF Finish, TypeOK, Outcomes

\* A task that sends waits with a message id and its first attempt.
LEMMA WaitingRecord ==
  ASSUME NEW r \in TaskType, NEW at \in WaitPoints, NEW i \in MsgIds
  PROVE  [r EXCEPT !.at = at, !.id = i, !.attempt = 1] \in TaskType
<1>1. 1 \in 0..Attempts
  BY V3Assumption DEF V3Assumption
<1>. QED
  BY <1>1 DEF TaskType, Points

\* So does an exchange that starts.
LEMMA ExchangeType ==
  ASSUME TypeOK, NEW t \in Tasks, NEW at \in WaitPoints,
         NEW kind \in Encrypted \cup {"hello", "proof"},
         NEW key \in Keys \cup {0}, NEW ctr \in Nat, Exchange(t, at, kind, key, ctr)
  PROVE  /\ task' \in [Tasks -> TaskType]
         /\ future' \in [Tasks -> FutureType]
         /\ sent' \subseteq PacketType
         /\ sent \subseteq sent'
<1>1. NoReply \in FutureType
  BY DEF NoReply, FutureType
<1>2. PICK i \in MsgIds :
         /\ sent' = sent \cup {[kind |-> kind, id |-> i, key |-> key, ctr |-> ctr,
                                call |-> task[t].call]}
         /\ task' = [task EXCEPT ![t].at = at, ![t].id = i, ![t].attempt = 1]
         /\ future' = [future EXCEPT ![t] = NoReply]
  BY DEF Exchange
<1>3. task[t] \in TaskType
  BY DEF TypeOK
<1>4. [kind |-> kind, id |-> i, key |-> key, ctr |-> ctr, call |-> task[t].call] \in PacketType
  BY <1>3 DEF PacketType, TaskType
<1>5. [task[t] EXCEPT !.at = at, !.id = i, !.attempt = 1] \in TaskType
  BY <1>3, WaitingRecord
<1>. QED
  BY <1>1, <1>2, <1>4, <1>5 DEF TypeOK

\* What Fail and SendEncrypted come to.
LEMMA FailEffect ==
  ASSUME NEW t, NEW cause, NEW out, Fail(t, cause, out)
  PROVE  /\ lock' = None
         /\ Finish(t, out)
         /\ broken' = TRUE
  BY DEF Fail, Return, BreaksOn

\* To send fails and leaves the cipher broken, or leaves the task waiting for the answer.
LEMMA SendEncryptedEffect ==
  ASSUME NEW t, NEW kind, NEW c, SendEncrypted(t, kind, c)
  PROVE  \/ /\ lock' = None
            /\ Finish(t, "failed")
            /\ broken' = TRUE
            /\ cipher' \in {c, Advance(c)}
            /\ sent' = sent
         \/ /\ lock' = t
            /\ Exchange(t, "answer", kind, c.key, c.ctr)
            /\ broken' = FALSE
            /\ cipher' = Advance(c)
            /\ outcome' = outcome
            /\ ~closed
<1>1. CASE c.ctr >= CounterLimit \/ Refused
  BY <1>1, FailEffect DEF SendEncrypted
<1>2. CASE ~(c.ctr >= CounterLimit \/ Refused)
  BY <1>2 DEF SendEncrypted, Refused
<1>. QED
  BY <1>1, <1>2

\* Either way the types are kept.
LEMMA SendEncryptedType ==
  ASSUME TypeOK, NEW t \in Tasks, NEW kind \in Encrypted,
         NEW c \in [key : Keys \cup {0}, ctr : Nat], SendEncrypted(t, kind, c)
  PROVE  /\ lock' \in Tasks \cup {None}
         /\ task' \in [Tasks -> TaskType]
         /\ future' \in [Tasks -> FutureType]
         /\ outcome' \in [Calls -> Outcomes]
         /\ cipher' \in [key : Keys \cup {0}, ctr : Nat]
         /\ broken' \in BOOLEAN
         /\ sent' \subseteq PacketType
         /\ sent \subseteq sent'
<1>1. Advance(c) \in [key : Keys \cup {0}, ctr : Nat]
  BY DEF Advance
<1>2. CASE /\ lock' = None
           /\ Finish(t, "failed")
           /\ broken' = TRUE
           /\ cipher' \in {c, Advance(c)}
           /\ sent' = sent
  BY <1>1, <1>2, FinishType DEF Outcomes, TypeOK
<1>3. CASE /\ lock' = t
           /\ Exchange(t, "answer", kind, c.key, c.ctr)
           /\ broken' = FALSE
           /\ cipher' = Advance(c)
           /\ outcome' = outcome
  <2>1. /\ task' \in [Tasks -> TaskType]
        /\ future' \in [Tasks -> FutureType]
        /\ sent' \subseteq PacketType
        /\ sent \subseteq sent'
    BY <1>3, ExchangeType DEF WaitPoints, Encrypted
  <2>. QED
    BY <1>1, <1>3, <2>1 DEF Outcomes, TypeOK
<1>. QED
  BY <1>2, <1>3, SendEncryptedEffect

\* The variables have their types at first.
LEMMA TypeInit == Init => TypeOK
<1>1. Idle \in TaskType
  BY V3Assumption DEF V3Assumption, Idle, TaskType, Points
<1>2. NoReply \in FutureType
  BY DEF NoReply, FutureType
<1>3. 0 \in 0..MaxCalls /\ 0 \in 0..MaxHandshakes
  BY V3Assumption DEF V3Assumption
<1>4. ASSUME Init
      PROVE  /\ lock \in Tasks \cup {None}
             /\ task \in [Tasks -> TaskType]
             /\ future \in [Tasks -> FutureType]
             /\ outcome \in [Calls -> {"none", "ok", "alien", "expired", "failed"}]
             /\ executed \in [Calls -> Nat]
  BY <1>1, <1>2, <1>4 DEF Init
<1>5. ASSUME Init
      PROVE  /\ cipher \in [key : Keys \cup {0}, ctr : Nat]
             /\ device \in [offer : Keys \cup {0}, key : Keys \cup {0}, ctr : Nat]
             /\ broken \in BOOLEAN
             /\ closed \in BOOLEAN
             /\ sent \subseteq PacketType
             /\ replies \subseteq ReplyType
             /\ seen \subseteq sent
  BY <1>5 DEF Init, NoCipher
<1>6. Init => calls = 0 /\ starts = 0
  BY DEF Init
<1>. QED
  BY <1>3, <1>4, <1>5, <1>6 DEF TypeOK

\* Every step keeps the types.
LEMMA TypeNext == TypeOK /\ [Next]_vars => TypeOK'
<1>. SUFFICES ASSUME TypeOK, [Next]_vars PROVE TypeOK'
  OBVIOUS
<1>. USE DEF Outcomes
<1>1. ASSUME NEW t \in Tasks, NEW op \in Ops, Begin(t, op) PROVE TypeOK'
  <2>1. [Idle EXCEPT !.op = op, !.at = "lock",
                     !.key = IF op \in Handshaking THEN starts' ELSE 0,
                     !.call = IF op = "auth" THEN 0 ELSE calls'] \in TaskType
    <3>1. /\ (IF op \in Handshaking THEN starts' ELSE 0) \in Keys \cup {0}
          /\ (IF op = "auth" THEN 0 ELSE calls') \in Calls \cup {0}
      BY <1>1, V3Assumption DEF V3Assumption, Begin, TypeOK, Keys, Calls
    <3>2. 0 \in 0..Attempts
      BY V3Assumption DEF V3Assumption
    <3>. QED
      BY <3>1, <3>2 DEF TaskType, Points, Idle
  <2>. QED
    BY <1>1, <2>1, V3Assumption DEF V3Assumption, Begin, TypeOK, peer
<1>2. ASSUME NEW t \in Tasks, StartHandshake(t) PROVE TypeOK'
  <2>1. NoCipher \in [key : Keys \cup {0}, ctr : Nat]
    BY DEF NoCipher
  <2>2. CASE Refused
    BY <1>2, <2>1, <2>2, FinishType, FailEffect DEF StartHandshake, TypeOK, peer
  <2>3. CASE ~Refused
    <3>1. Exchange(t, "challenge", "hello", task[t].key, 0)
      BY <1>2, <2>3 DEF StartHandshake
    <3>2. task[t].key \in Keys \cup {0}
      BY DEF TypeOK, TaskType
    <3>. QED
      BY <1>2, <2>1, <2>3, <3>1, <3>2, ExchangeType DEF StartHandshake, TypeOK, peer, WaitPoints
  <2>. QED
    BY <2>2, <2>3
<1>3. ASSUME NEW t \in Tasks, StartRequest(t) PROVE TypeOK'
  <2>1. CASE ~Usable
    BY <1>3, <2>1, FinishType DEF StartRequest, Return, TypeOK, peer
  <2>2. CASE Usable
    <3>1. SendEncrypted(t, task[t].op, cipher) /\ task[t].op \in Encrypted
      BY <1>3, <2>2 DEF StartRequest, Encrypted
    <3>. QED
      BY <1>3, <3>1, SendEncryptedType DEF StartRequest, TypeOK, peer
  <2>. QED
    BY <2>1, <2>2
<1>4. ASSUME NEW t \in Tasks, Retransmit(t) PROVE TypeOK'
  <2>1. task[t] \in TaskType /\ task[t].attempt # Attempts
    BY <1>4 DEF Retransmit, LastAttempt, TypeOK
  <2>2. [task[t] EXCEPT !.attempt = @ + 1] \in TaskType
    BY <2>1, V3Assumption DEF V3Assumption, TaskType
  <2>. QED
    BY <1>4, <2>2 DEF Retransmit, TypeOK, peer
<1>5. ASSUME NEW t \in Tasks, Timeout(t) PROVE TypeOK'
  BY <1>5, FinishType, FailEffect DEF Timeout, TimeoutOutcome, TypeOK, peer
<1>6. ASSUME NEW t \in Tasks, Cancel(t) PROVE TypeOK'
  BY <1>6, FinishType, FailEffect DEF Cancel, TypeOK, peer
<1>7. ASSUME NEW r \in replies, Deliver(r) PROVE TypeOK'
  <2>1. r \in FutureType
    BY DEF TypeOK, FutureType, ReplyType
  <2>. QED
    BY <1>7, <2>1 DEF Deliver, TypeOK, peer
<1>8. ASSUME NEW t \in Tasks, ReceiveChallenge(t) PROVE TypeOK'
  <2>1. CASE future[t].kind = "challenge" /\ ~Refused
    <3>. DEFINE k == IF future[t].key = task[t].key THEN task[t].key ELSE 0
    <3>1. Exchange(t, "verdict", "proof", k, 0)
      BY <1>8, <2>1 DEF ReceiveChallenge
    <3>2. k \in Keys \cup {0}
      BY DEF TypeOK, TaskType
    <3>. HIDE DEF k
    <3>. QED
      BY <1>8, <2>1, <3>1, <3>2, ExchangeType DEF ReceiveChallenge, TypeOK, peer, WaitPoints
  <2>2. CASE ~(future[t].kind = "challenge" /\ ~Refused)
    BY <1>8, <2>2, FinishType, FailEffect DEF ReceiveChallenge, TypeOK, peer
  <2>. QED
    BY <2>1, <2>2
<1>9. ASSUME NEW t \in Tasks, ReceiveVerdict(t) PROVE TypeOK'
  <2>. DEFINE fresh == [key |-> task[t].key, ctr |-> 0]
  <2>1. fresh \in [key : Keys \cup {0}, ctr : Nat]
    BY DEF TypeOK, TaskType
  <2>2. \/ SendEncrypted(t, "token", fresh)
        \/ /\ Return(t, "ok")
           /\ cipher' = fresh
           /\ broken' = FALSE
           /\ UNCHANGED sent
        \/ /\ Fail(t, "error", "failed")
           /\ UNCHANGED <<cipher, sent>>
    BY <1>9 DEF ReceiveVerdict
  <2>3. UNCHANGED <<closed, calls, starts, peer>>
    BY <1>9 DEF ReceiveVerdict
  <2>. HIDE DEF fresh
  <2>4. CASE SendEncrypted(t, "token", fresh)
    BY <2>1, <2>3, <2>4, SendEncryptedType DEF TypeOK, peer, Encrypted
  <2>5. CASE Return(t, "ok") /\ cipher' = fresh /\ broken' = FALSE /\ UNCHANGED sent
    BY <2>1, <2>3, <2>5, FinishType DEF Return, TypeOK, peer
  <2>6. CASE Fail(t, "error", "failed") /\ UNCHANGED <<cipher, sent>>
    BY <2>3, <2>6, FinishType, FailEffect DEF TypeOK, peer
  <2>. QED
    BY <2>2, <2>4, <2>5, <2>6
<1>10. ASSUME NEW t \in Tasks, ReceiveAnswer(t) PROVE TypeOK'
  <2>1. Advance(cipher) \in [key : Keys \cup {0}, ctr : Nat]
    BY DEF Advance, TypeOK
  <2>2. CASE Decrypts(future[t])
    BY <1>10, <2>1, <2>2, FinishType DEF ReceiveAnswer, Return, TypeOK, peer
  <2>3. CASE ~Decrypts(future[t])
    BY <1>10, <2>3, FinishType, FailEffect DEF ReceiveAnswer, TypeOK, peer
  <2>. QED
    BY <2>2, <2>3
<1>11. ASSUME NEW t \in Tasks, ReceiveUnpair(t) PROVE TypeOK'
  BY <1>11, FinishType DEF ReceiveUnpair, Return, NoCipher, TypeOK, peer
<1>12. CASE Close
  <2>1. [NoReply EXCEPT !.kind = "closed"] \in FutureType
    BY DEF NoReply, FutureType
  <2>. QED
    BY <1>12, <2>1 DEF Close, TypeOK, peer
<1>13. ASSUME NEW p \in sent, DeviceHandle(p) PROVE TypeOK'
  <2>1. p \in PacketType
    BY DEF TypeOK
  <2>2. UNCHANGED client /\ seen' \subseteq sent'
    BY <1>13 DEF DeviceHandle, TypeOK, client
  <2>3. /\ device' \in [offer : Keys \cup {0}, key : Keys \cup {0}, ctr : Nat]
        /\ replies' \subseteq ReplyType
        /\ executed' \in [Calls -> Nat]
    <3>1. CASE DeviceHello(p)
      BY <2>1, <3>1 DEF DeviceHello, Reply, TypeOK, PacketType, ReplyType, ReplyKinds
    <3>2. CASE DeviceProof(p)
      BY <2>1, <3>2 DEF DeviceProof, Reply, TypeOK, PacketType, ReplyType, ReplyKinds
    <3>3. CASE DeviceExecute(p)
      <4>1. executed' \in [Calls -> Nat]
        <5>1. executed' = [executed EXCEPT ![p.call] = @ + 1]
          BY <3>3 DEF DeviceExecute
        <5>2. executed \in [Calls -> Nat]
          BY DEF TypeOK
        <5>3. CASE p.call \in Calls
          BY <5>1, <5>2, <5>3
        <5>4. CASE p.call \notin Calls
          BY <5>1, <5>2, <5>4
        <5>. QED
          BY <5>3, <5>4
      <4>2. Reply(p, "data", p.ctr + 1) \in ReplyType /\ Reply(p, "empty", 0) \in ReplyType
        BY <2>1 DEF Reply, PacketType, ReplyType, ReplyKinds
      <4>3. device' \in [offer : Keys \cup {0}, key : Keys \cup {0}, ctr : Nat]
        BY <3>3 DEF DeviceExecute, TypeOK
      <4>. QED
        BY <3>3, <4>1, <4>2, <4>3 DEF DeviceExecute, TypeOK
    <3>. QED
      BY <1>13, <3>1, <3>2, <3>3 DEF DeviceHandle
  <2>. QED
    BY <2>2, <2>3 DEF client, TypeOK
<1>14. ASSUME NEW p \in sent, DeviceRefuse(p) PROVE TypeOK'
  <2>1. [NoReply EXCEPT !.kind = "status", !.id = p.id] \in ReplyType
    BY DEF TypeOK, NoReply, PacketType, ReplyType, ReplyKinds
  <2>. QED
    BY <1>14, <2>1 DEF DeviceRefuse, TypeOK, client
<1>15. CASE DeviceRestart
  BY <1>15 DEF DeviceRestart, TypeOK, client
<1>16. CASE UNCHANGED vars
  BY <1>16 DEF vars, client, peer, TypeOK
<1>. QED
  BY <1>1, <1>2, <1>3, <1>4, <1>5, <1>6, <1>7, <1>8, <1>9, <1>10, <1>11, <1>12, <1>13,
     <1>14, <1>15, <1>16 DEF Next, Step

\* Every reachable state is well typed: the attempts of a datagram and the bounds of
\* the model are kept by every interleaving.
THEOREM TypeCorrect == Spec => []TypeOK
<1>. QED
  BY TypeInit, TypeNext, PTL DEF Spec

-----------------------------------------------------------------------------
(* The shapes of a step, which are all the invariant needs to know of it.  *)

\* No wait, request, key or cipher is touched and no encrypted reply is made; the
\* device may restart.
Off == [offer |-> 0, key |-> 0, ctr |-> 0]
Quiet ==
  /\ \A u \in Tasks : /\ task'[u].op = task[u].op
                      /\ task'[u].at = task[u].at
                      /\ task'[u].call = task[u].call
                      /\ task'[u].key = task[u].key
                      /\ task[u] = Idle => task'[u] = Idle
  /\ UNCHANGED <<lock, cipher, broken, calls, starts, outcome, sent, seen, executed>>
  /\ replies \subseteq replies'
  /\ \A r \in replies' : r.kind \in {"data", "empty"} => r \in replies
  /\ device' \in {device, Off}
  /\ \A u \in Tasks : future'[u].kind \in {"data", "empty"} =>
       future'[u] = future[u] \/ future'[u] \in replies

\* Only task t moves, and the device does not.
Only(t) ==
  /\ \A u \in Tasks \ {t} : task'[u] = task[u] /\ future'[u] = future[u]
  /\ future'[t].kind = "none" \/ future'[t] = future[t]
  /\ UNCHANGED peer

\* A call begins.
Begun(t) ==
  /\ Only(t)
  /\ task[t].at = "idle"
  /\ task'[t].at = "lock"
  /\ task'[t].op \in Ops
  /\ task'[t].op \in Handshaking => starts' = starts + 1 /\ task'[t].key = starts + 1
  /\ task'[t].op \notin Handshaking => starts' = starts /\ task'[t].key = 0
  /\ task'[t].op = "auth" => calls' = calls /\ task'[t].call = 0
  /\ task'[t].op # "auth" => calls' = calls + 1 /\ task'[t].call = calls + 1
  /\ task'[t].op = "unpair" => /\ \A p \in sent : p.kind # "unpair"
                              /\ \A u \in Tasks : task[u].op # "unpair"
  /\ UNCHANGED <<lock, cipher, broken, outcome, sent>>

\* A call ends.
Over(t, out) ==
  /\ Only(t)
  /\ task'[t] = Idle
  /\ outcome' = IF task[t].call = 0 THEN outcome ELSE [outcome EXCEPT ![task[t].call] = out]
  /\ UNCHANGED <<calls, starts, sent>>

\* It ends before it has done anything.
Dropped(t) ==
  /\ task[t].at = "lock"
  /\ \/ Over(t, "failed")
     \/ Over(t, "expired") /\ lock = None
  /\ UNCHANGED <<lock, cipher, broken>>

\* It fails and breaks the cipher.
Fresh(t) == [key |-> task[t].key, ctr |-> 0]
Broke(t) ==
  /\ Waiting(t) \/ (task[t].at = "lock" /\ lock = None)
  /\ Over(t, "failed")
  /\ lock' = None
  /\ broken' = TRUE
  /\ \/ cipher' \in {NoCipher, cipher, Advance(cipher)}
     \/ task[t].at = "verdict" /\ cipher' \in {Fresh(t), Advance(Fresh(t))}

\* It returns a decrypted answer, or unpairs, or authenticates.
Answered(t) ==
  /\ task[t].at = "answer"
  /\ task[t].op # "unpair"
  /\ Decrypts(future[t])
  /\ Over(t, IF future[t].call = task[t].call THEN "ok" ELSE "alien")
  /\ lock' = None
  /\ cipher' = Advance(cipher)
  /\ broken' = broken
Unpaired(t) ==
  /\ task[t].at = "answer"
  /\ task[t].op = "unpair"
  /\ future[t].kind = "empty" \/ Decrypts(future[t])
  /\ Over(t, "ok")
  /\ lock' = None
  /\ cipher' = NoCipher
  /\ broken' = TRUE
Authenticated(t) ==
  /\ task[t].at = "verdict"
  /\ task[t].op # "pair"
  /\ Over(t, "ok")
  /\ lock' = None
  /\ cipher' = Fresh(t)
  /\ broken' = FALSE

\* It starts a wait.
Waits(t, at) ==
  /\ Only(t)
  /\ task'[t].at = at
  /\ task'[t].op = task[t].op
  /\ task'[t].call = task[t].call
  /\ task'[t].key = task[t].key
  /\ lock' = t
  /\ UNCHANGED <<calls, starts, outcome>>

\* It sends a message of a handshake.
Greeted(t) ==
  /\ \/ /\ task[t].at = "lock"
        /\ lock = None
        /\ task[t].op \in Handshaking
        /\ Waits(t, "challenge")
        /\ cipher' = NoCipher
        /\ broken' = TRUE
     \/ /\ task[t].at = "challenge"
        /\ Waits(t, "verdict")
        /\ UNCHANGED <<cipher, broken>>
  /\ sent \subseteq sent'
  /\ \A p \in sent' \ sent : p.kind \in {"hello", "proof"}
  /\ \E q : /\ sent' = sent \cup {q}
            /\ \/ q.kind = "hello" /\ q.key = task[t].key /\ task[t].at = "lock"
               \/ q.kind = "proof" /\ q.key \in {0, task[t].key}

\* It sends a request under the cipher c.
Asked(t, c) ==
  /\ \/ task[t].at = "lock" /\ task[t].op \in {"request", "unpair"} /\ c = cipher
        /\ lock = None /\ Usable
     \/ task[t].at = "verdict" /\ task[t].op = "pair" /\ c = Fresh(t)
  /\ Waits(t, "answer")
  /\ cipher' = Advance(c)
  /\ broken' = FALSE
  /\ \E i \in MsgIds :
       sent' = sent \cup {[kind |-> IF task[t].op = "pair" THEN "token" ELSE task[t].op,
                          id |-> i, key |-> c.key, ctr |-> c.ctr, call |-> task[t].call]}

\* The device handles a datagram.
Handled(p) ==
  /\ p \in sent \ seen
  /\ UNCHANGED client
  /\ seen' = seen \cup {p}
  /\ replies \subseteq replies'
  /\ \/ /\ p.kind \notin Encrypted
        /\ \A r \in replies' \ replies : r.kind \notin {"data", "empty"}
        /\ UNCHANGED executed
     \/ /\ p.kind \in Encrypted
        /\ executed' = [executed EXCEPT ![p.call] = @ + 1]
        /\ \A r \in replies' \ replies :
             \/ r = Reply(p, "data", p.ctr + 1)
             \/ p.kind = "unpair" /\ r.kind = "empty"
  /\ \/ /\ p.kind = "hello"
        /\ device' = [offer |-> p.key, key |-> 0, ctr |-> 0]
     \/ /\ p.kind = "proof" /\ p.key # 0 /\ p.key = device.offer
        /\ device' = [offer |-> 0, key |-> p.key, ctr |-> 0]
     \/ /\ p.kind \in Encrypted /\ p.key = device.key /\ p.ctr = device.ctr
        /\ device' = [device EXCEPT !.ctr = p.ctr + 2]
     \/ /\ p.kind = "unpair" /\ p.key = device.key /\ p.ctr = device.ctr
        /\ device' = [device EXCEPT !.ctr = p.ctr + 1]

Shape ==
  \/ Quiet
  \/ \E t \in Tasks : \/ Begun(t) \/ Dropped(t) \/ Broke(t)
                      \/ Answered(t) \/ Unpaired(t) \/ Authenticated(t)
                      \/ Greeted(t) \/ Asked(t, cipher) \/ Asked(t, Fresh(t))
  \/ \E p \in sent : Handled(p)

\* A task that finishes is over.
LEMMA FinishOver ==
  ASSUME TypeOK, NEW t \in Tasks, NEW out, Finish(t, out), UNCHANGED <<calls, starts, sent, peer>>
  PROVE  Over(t, out)
  BY DEF Finish, Over, Only, TypeOK, NoReply

\* A failure leaves the cipher broken or absent.
LEMMA FailBroke ==
  ASSUME TypeOK, NEW t \in Tasks, NEW cause, Fail(t, cause, "failed"),
         Waiting(t) \/ (task[t].at = "lock" /\ lock = None),
         cipher' \in {NoCipher, cipher, Advance(cipher)},
         UNCHANGED <<calls, starts, sent, peer>>
  PROVE  Broke(t)
  BY FailEffect, FinishOver DEF Broke

\* An exchange leaves its task waiting, with one message sent.
LEMMA ExchangeWaits ==
  ASSUME TypeOK, NEW t \in Tasks, NEW at, NEW kind, NEW key, NEW ctr,
         Exchange(t, at, kind, key, ctr), lock' = t, UNCHANGED <<calls, starts, outcome, peer>>
  PROVE  /\ Waits(t, at)
         /\ \E i \in MsgIds :
              sent' = sent \cup {[kind |-> kind, id |-> i, key |-> key, ctr |-> ctr,
                                 call |-> task[t].call]}
<1>1. PICK i \in MsgIds :
         /\ sent' = sent \cup {[kind |-> kind, id |-> i, key |-> key, ctr |-> ctr,
                                call |-> task[t].call]}
         /\ task' = [task EXCEPT ![t].at = at, ![t].id = i, ![t].attempt = 1]
         /\ future' = [future EXCEPT ![t] = NoReply]
  BY DEF Exchange
<1>2. task[t] \in TaskType
  BY DEF TypeOK
<1>3. /\ task'[t].at = at
      /\ task'[t].op = task[t].op
      /\ task'[t].call = task[t].call
      /\ task'[t].key = task[t].key
  BY <1>1, <1>2 DEF TypeOK, TaskType
<1>4. Only(t)
  BY <1>1 DEF Only, NoReply, TypeOK
<1>. QED
  BY <1>1, <1>3, <1>4 DEF Waits

\* Every step has one of the shapes.
LEMMA StepShape == TypeOK /\ LockInv /\ [Next]_vars => Shape
<1>. SUFFICES ASSUME TypeOK, LockInv, [Next]_vars PROVE Shape
  OBVIOUS
<1>0. \A t \in Tasks : task[t] \in TaskType
  BY DEF TypeOK
<1>1. ASSUME NEW t \in Tasks, NEW op \in Ops, Begin(t, op) PROVE Begun(t)
  <2>. DEFINE b == [Idle EXCEPT !.op = op, !.at = "lock",
                      !.key = IF op \in Handshaking THEN starts' ELSE 0,
                      !.call = IF op = "auth" THEN 0 ELSE calls']
  <2>1. task' = [task EXCEPT ![t] = b]
    BY <1>1 DEF Begin
  <2>2. /\ b.op = op
        /\ b.at = "lock"
        /\ b.key = IF op \in Handshaking THEN starts' ELSE 0
        /\ b.call = IF op = "auth" THEN 0 ELSE calls'
    BY DEF Idle
  <2>. HIDE DEF b
  <2>3. task'[t] = b /\ \A u \in Tasks \ {t} : task'[u] = task[u]
    BY <2>1 DEF TypeOK
  <2>. QED
    BY <1>1, <2>2, <2>3 DEF Begin, Begun, Only
<1>2. ASSUME NEW t \in Tasks, StartHandshake(t) PROVE Broke(t) \/ Greeted(t)
  <2>1. CASE Refused
    BY <1>2, <2>1, FailBroke DEF StartHandshake
  <2>2. CASE ~Refused
    <3>1. /\ Exchange(t, "challenge", "hello", task[t].key, 0)
          /\ lock' = t
          /\ UNCHANGED <<calls, starts, outcome, peer>>
      BY <1>2, <2>2 DEF StartHandshake
    <3>2. Waits(t, "challenge")
      BY <3>1, ExchangeWaits
    <3>3. \E q : sent' = sent \cup {q} /\ q.kind = "hello" /\ q.key = task[t].key
      <4>1. PICK i \in MsgIds :
              sent' = sent \cup {[kind |-> "hello", id |-> i, key |-> task[t].key, ctr |-> 0,
                                  call |-> task[t].call]}
        BY <3>1, ExchangeWaits
      <4>. WITNESS [kind |-> "hello", id |-> i, key |-> task[t].key, ctr |-> 0,
                    call |-> task[t].call]
      <4>. QED
        BY <4>1
    <3>. QED
      BY <1>2, <2>2, <3>2, <3>3 DEF StartHandshake, Greeted
  <2>. QED
    BY <2>1, <2>2
<1>3. ASSUME NEW t \in Tasks, StartRequest(t) PROVE Dropped(t) \/ Broke(t) \/ Asked(t, cipher)
  <2>1. CASE ~Usable
    BY <1>3, <2>1, FinishOver DEF StartRequest, Return, Dropped
  <2>2. CASE Usable
    <3>1. SendEncrypted(t, task[t].op, cipher) /\ UNCHANGED <<calls, starts, peer>>
      BY <1>3, <2>2 DEF StartRequest
    <3>2. CASE /\ lock' = None
               /\ Finish(t, "failed")
               /\ broken' = TRUE
               /\ cipher' \in {cipher, Advance(cipher)}
               /\ sent' = sent
      BY <1>3, <3>1, <3>2, FinishOver DEF StartRequest, Broke
    <3>3. CASE /\ lock' = t
               /\ Exchange(t, "answer", task[t].op, cipher.key, cipher.ctr)
               /\ broken' = FALSE
               /\ cipher' = Advance(cipher)
               /\ outcome' = outcome
      <4>1. /\ Waits(t, "answer")
            /\ \E i \in MsgIds :
                 sent' = sent \cup {[kind |-> task[t].op, id |-> i, key |-> cipher.key,
                                    ctr |-> cipher.ctr, call |-> task[t].call]}
        BY <3>1, <3>3, ExchangeWaits
      <4>2. task[t].op # "pair" /\ task[t].op \in {"request", "unpair"}
        BY <1>3 DEF StartRequest
      <4>. QED
        BY <1>3, <2>2, <3>3, <4>1, <4>2 DEF StartRequest, Asked
    <3>. QED
      BY <3>1, <3>2, <3>3, SendEncryptedEffect
  <2>. QED
    BY <2>1, <2>2
<1>4. ASSUME NEW t \in Tasks, Retransmit(t) PROVE Quiet
  <2>1. task' = [task EXCEPT ![t].attempt = @ + 1] /\ task[t] # Idle
    BY <1>4 DEF Retransmit, Waiting, WaitPoints, Idle
  <2>2. \A u \in Tasks : /\ task'[u].op = task[u].op
                         /\ task'[u].at = task[u].at
                         /\ task'[u].call = task[u].call
                         /\ task'[u].key = task[u].key
                         /\ task[u] = Idle => task'[u] = Idle
    BY <1>0, <2>1 DEF TypeOK, TaskType
  <2>. QED
    BY <1>4, <2>2 DEF Retransmit, Quiet, peer
<1>5. ASSUME NEW t \in Tasks, Timeout(t) PROVE Broke(t)
  BY <1>5, FailBroke DEF Timeout, TimeoutOutcome
<1>6. ASSUME NEW t \in Tasks, Cancel(t) PROVE Dropped(t) \/ Broke(t)
  BY <1>6, FailBroke, FinishOver DEF Cancel, Dropped
<1>7. ASSUME NEW r \in replies, Deliver(r) PROVE Quiet
  BY <1>7 DEF Deliver, Quiet, peer, TypeOK
<1>8. ASSUME NEW t \in Tasks, ReceiveChallenge(t) PROVE Broke(t) \/ Greeted(t)
  <2>1. CASE future[t].kind = "challenge" /\ ~Refused
    <3>. DEFINE k == IF future[t].key = task[t].key THEN task[t].key ELSE 0
    <3>1. /\ Exchange(t, "verdict", "proof", k, 0)
          /\ UNCHANGED <<lock, broken, outcome, cipher, calls, starts, peer>>
          /\ task[t].at = "challenge"
      BY <1>8, <2>1 DEF ReceiveChallenge
    <3>2. lock' = t
      BY <3>1 DEF LockInv, Waiting, WaitPoints
    <3>. HIDE DEF k
    <3>3. Waits(t, "verdict")
      BY <3>1, <3>2, ExchangeWaits
    <3>4. \E q : sent' = sent \cup {q} /\ q.kind = "proof" /\ q.key = k
      <4>1. PICK i \in MsgIds :
              sent' = sent \cup {[kind |-> "proof", id |-> i, key |-> k, ctr |-> 0,
                                  call |-> task[t].call]}
        BY <3>1, <3>2, ExchangeWaits
      <4>. WITNESS [kind |-> "proof", id |-> i, key |-> k, ctr |-> 0,
                    call |-> task[t].call]
      <4>. QED
        BY <4>1
    <3>5. k \in {0, task[t].key}
      BY DEF k
    <3>. QED
      BY <3>1, <3>3, <3>4, <3>5 DEF Greeted
  <2>2. CASE ~(future[t].kind = "challenge" /\ ~Refused)
    BY <1>8, <2>2, FailBroke DEF ReceiveChallenge, Waiting, WaitPoints
  <2>. QED
    BY <2>1, <2>2
<1>9. ASSUME NEW t \in Tasks, ReceiveVerdict(t)
      PROVE  Broke(t) \/ Authenticated(t) \/ Asked(t, Fresh(t))
  <2>1. /\ task[t].at = "verdict"
        /\ Waiting(t)
        /\ UNCHANGED <<calls, starts, peer>>
    BY <1>9 DEF ReceiveVerdict, Waiting, WaitPoints
  <2>2. \/ task[t].op = "pair" /\ SendEncrypted(t, "token", Fresh(t))
        \/ /\ task[t].op # "pair"
           /\ Return(t, "ok")
           /\ cipher' = Fresh(t)
           /\ broken' = FALSE
           /\ sent' = sent
        \/ Fail(t, "error", "failed") /\ cipher' = cipher /\ sent' = sent
    BY <1>9 DEF ReceiveVerdict, Fresh
  <2>3. CASE task[t].op = "pair" /\ SendEncrypted(t, "token", Fresh(t))
    <3>1. CASE /\ lock' = None
               /\ Finish(t, "failed")
               /\ broken' = TRUE
               /\ cipher' \in {Fresh(t), Advance(Fresh(t))}
               /\ sent' = sent
      BY <2>1, <3>1, FinishOver DEF Broke
    <3>2. CASE /\ lock' = t
               /\ Exchange(t, "answer", "token", Fresh(t).key, Fresh(t).ctr)
               /\ broken' = FALSE
               /\ cipher' = Advance(Fresh(t))
               /\ outcome' = outcome
      <4>1. /\ Waits(t, "answer")
            /\ \E i \in MsgIds :
                 sent' = sent \cup {[kind |-> "token", id |-> i, key |-> Fresh(t).key,
                                    ctr |-> Fresh(t).ctr, call |-> task[t].call]}
        BY <2>1, <3>2, ExchangeWaits
      <4>. QED
        BY <2>1, <2>3, <3>2, <4>1 DEF Asked
    <3>. QED
      BY <2>3, <3>1, <3>2, SendEncryptedEffect
  <2>4. CASE /\ task[t].op # "pair"
             /\ Return(t, "ok")
             /\ cipher' = Fresh(t)
             /\ broken' = FALSE
             /\ sent' = sent
    BY <2>1, <2>4, FinishOver DEF Return, Authenticated
  <2>5. CASE Fail(t, "error", "failed") /\ cipher' = cipher /\ sent' = sent
    BY <2>1, <2>5, FailBroke
  <2>. QED
    BY <2>2, <2>3, <2>4, <2>5
<1>10. ASSUME NEW t \in Tasks, ReceiveAnswer(t) PROVE Answered(t) \/ Broke(t)
  <2>1. CASE Decrypts(future[t])
    BY <1>10, <2>1, FinishOver DEF ReceiveAnswer, Return, Answered
  <2>2. CASE ~Decrypts(future[t])
    BY <1>10, <2>2, FailBroke DEF ReceiveAnswer, Waiting, WaitPoints
  <2>. QED
    BY <2>1, <2>2
<1>11. ASSUME NEW t \in Tasks, ReceiveUnpair(t) PROVE Unpaired(t) \/ Broke(t)
  <2>1. CASE future[t].kind = "empty" \/ Decrypts(future[t])
    BY <1>11, <2>1, FinishOver DEF ReceiveUnpair, Return, Unpaired
  <2>2. CASE ~(future[t].kind = "empty" \/ Decrypts(future[t]))
    BY <1>11, <2>2, FinishOver DEF ReceiveUnpair, Return, Broke, Waiting, WaitPoints
  <2>. QED
    BY <2>1, <2>2
<1>12. CASE Close
  <2>1. \A u \in Tasks : future'[u].kind \in {"data", "empty"} => future'[u] = future[u]
    BY <1>12 DEF Close, NoReply
  <2>. QED
    BY <1>12, <2>1 DEF Close, Quiet, Shape, peer
<1>13. ASSUME NEW p \in sent, DeviceHandle(p) PROVE Handled(p)
  <2>1. /\ p \in sent \ seen
        /\ UNCHANGED client
        /\ seen' = seen \cup {p}
    BY <1>13 DEF DeviceHandle
  <2>2. CASE DeviceHello(p)
    BY <2>1, <2>2 DEF DeviceHello, Reply, Handled, Encrypted
  <2>3. CASE DeviceProof(p)
    BY <2>1, <2>3 DEF DeviceProof, Reply, Handled, Encrypted
  <2>4. CASE DeviceExecute(p)
    BY <2>1, <2>4 DEF DeviceExecute, Reply, Handled, Encrypted
  <2>. QED
    BY <1>13, <2>2, <2>3, <2>4 DEF DeviceHandle
<1>14. ASSUME NEW p \in sent, DeviceRefuse(p) PROVE Quiet
  <2>1. \A r \in replies' : r.kind \in {"data", "empty"} => r \in replies
    BY <1>14 DEF DeviceRefuse, NoReply
  <2>. QED
    BY <1>14, <2>1 DEF DeviceRefuse, Quiet, client
<1>15. CASE DeviceRestart
  BY <1>15 DEF DeviceRestart, Quiet, Shape, client, Off
<1>16. CASE UNCHANGED vars
  BY <1>16 DEF vars, client, peer, Quiet, Shape
<1>. QED
  BY <1>1, <1>2, <1>3, <1>4, <1>5, <1>6, <1>7, <1>8, <1>9, <1>10, <1>11, <1>12, <1>13,
     <1>14, <1>15, <1>16 DEF Next, Step, Shape

-----------------------------------------------------------------------------
(* Each part of the invariant is kept by each shape.                       *)

\* Only a step that asks makes a request.
NoneMade == Requests' = Requests
Packet(t, c, i) == [kind |-> IF task[t].op = "pair" THEN "token" ELSE task[t].op,
                    id |-> i, key |-> c.key, ctr |-> c.ctr, call |-> task[t].call]

\* No other step of a task sends a request,
LEMMA NoneMadeBy ==
  ASSUME NEW t, Begun(t) \/ Dropped(t) \/ Broke(t) \/ Answered(t) \/ Unpaired(t)
                \/ Authenticated(t) \/ Greeted(t)
  PROVE  NoneMade
<1>1. CASE Greeted(t)
  BY <1>1 DEF Greeted, NoneMade, Requests, Encrypted
<1>2. CASE sent' = sent
  BY <1>2 DEF NoneMade, Requests
<1>. QED
  BY <1>1, <1>2 DEF Begun, Dropped, Broke, Answered, Unpaired, Authenticated, Over

\* nor does a step that leaves the tasks alone,
LEMMA QuietMakesNone == Quiet => NoneMade
  BY DEF Quiet, NoneMade, Requests

\* nor what the bulb does with a message.
LEMMA HandledMakesNone == ASSUME NEW p, Handled(p) PROVE NoneMade
  BY DEF Handled, client, NoneMade, Requests

\* A task that asks sends one request.
LEMMA AskedMakesOne ==
  ASSUME NEW t, NEW c, Asked(t, c)
  PROVE  \E i \in MsgIds : Requests' = Requests \cup {Packet(t, c, i)}
<1>1. PICK i \in MsgIds : sent' = sent \cup {Packet(t, c, i)}
  BY DEF Asked, Packet
<1>2. Packet(t, c, i).kind \in Encrypted
  BY DEF Packet, Asked, Encrypted
<1>. QED
  BY <1>1, <1>2 DEF Requests

\* Every step keeps LockInv,
LEMMA LockKept == TypeOK /\ LockInv /\ Shape => LockInv'
<1>. SUFFICES ASSUME TypeOK, LockInv, Shape PROVE LockInv'
  OBVIOUS
<1>. USE DEF LockInv, Waiting, WaitPoints
<1>1. CASE Quiet
  BY <1>1 DEF Quiet
<1>2. ASSUME NEW p \in sent, Handled(p) PROVE LockInv'
  BY <1>2 DEF Handled, client
<1>3. ASSUME NEW t \in Tasks, Begun(t) PROVE LockInv'
  BY <1>3 DEF Begun, Only
<1>4. ASSUME NEW t \in Tasks, Dropped(t) PROVE LockInv'
  BY <1>4 DEF Dropped, Over, Only, Idle
<1>5. ASSUME NEW t \in Tasks, Broke(t) \/ Answered(t) \/ Unpaired(t) \/ Authenticated(t)
      PROVE  LockInv'
  <2>1. /\ lock \in {t, None}
        /\ lock' = None
        /\ task'[t].at = "idle"
        /\ \A u \in Tasks \ {t} : task'[u] = task[u]
    BY <1>5 DEF Broke, Answered, Unpaired, Authenticated, Over, Only, Idle
  <2>. QED
    BY <2>1, V3Assumption DEF V3Assumption
<1>6. ASSUME NEW t \in Tasks, Greeted(t) \/ Asked(t, cipher) \/ Asked(t, Fresh(t))
      PROVE  LockInv'
  <2>1. /\ lock \in {t, None}
        /\ lock' = t
        /\ task'[t].at \in WaitPoints
        /\ \A u \in Tasks \ {t} : task'[u] = task[u]
    BY <1>6 DEF Greeted, Asked, Waits, Only
  <2>. QED
    BY <2>1, V3Assumption DEF V3Assumption
<1>. QED
  BY <1>1, <1>2, <1>3, <1>4, <1>5, <1>6 DEF Shape

\* A call that ends is forgotten by its task and has an outcome.
LEMMA OverEffect ==
  ASSUME TypeOK, CallInv, NEW t \in Tasks, NEW out \in Outcomes, Over(t, out)
  PROVE  /\ \A c \in Calls : outcome'[c] = IF c = task[t].call THEN out ELSE outcome[c]
         /\ task'[t].at = "idle"
         /\ task'[t].op = "none"
         /\ task'[t].call = 0
         /\ task'[t].key = 0
<1>1. 0 \notin Calls
  BY DEF Calls
<1>. QED
  BY <1>1 DEF Over, TypeOK, Idle

\* CallInv,
LEMMA CallKept == TypeOK /\ TypeOK' /\ CallInv /\ Shape => CallInv'
<1>. SUFFICES ASSUME TypeOK, TypeOK', CallInv, Shape PROVE CallInv'
  OBVIOUS
<1>0. /\ calls \in Nat
      /\ \A c \in Calls : c \in Nat \ {0}
      /\ \A t \in Tasks : task[t].call \in Calls \cup {0}
  BY V3Assumption DEF V3Assumption, TypeOK, TaskType, Calls
<1>1. CASE Quiet
  <2>1. NoneMade
    BY <1>1, QuietMakesNone
  <2>. QED
    BY <1>1, <2>1 DEF Quiet, NoneMade, CallInv
<1>2. ASSUME NEW p \in sent, Handled(p) PROVE CallInv'
  <2>1. NoneMade
    BY <1>2, HandledMakesNone
  <2>. QED
    BY <1>2, <2>1 DEF Handled, client, NoneMade, CallInv
<1>3. ASSUME NEW t \in Tasks, Begun(t) PROVE CallInv'
  <2>1. NoneMade
    BY <1>3, NoneMadeBy
  <2>2. /\ task'[t].at = "lock"
        /\ task'[t].op \in Ops
        /\ task'[t].op = "auth" => task'[t].call = 0 /\ calls' = calls
        /\ task'[t].op # "auth" => task'[t].call = calls + 1 /\ calls' = calls + 1
        /\ \A u \in Tasks \ {t} : task'[u] = task[u]
        /\ outcome' = outcome
    BY <1>3 DEF Begun, Only
  <2>3. calls' \in Nat /\ calls <= calls'
    BY <1>0, <2>2
  <2>4. \A u \in Tasks : task'[u].call <= calls'
    BY <1>0, <2>2, <2>3 DEF CallInv
  <2>5. /\ \A u \in Tasks : task'[u].at = "idle" => task'[u] = Idle
        /\ \A u \in Tasks : task'[u].op \in {"request", "unpair", "pair"} => task'[u].call # 0
        /\ \A u \in Tasks : task'[u].op \in {"none", "auth"} => task'[u].call = 0
    BY <1>0, <2>2 DEF CallInv, Ops
  <2>6. \A u, v \in Tasks : task'[u].call = task'[v].call /\ task'[u].call # 0 => u = v
    BY <1>0, <2>2 DEF CallInv
  <2>7. \A u \in Tasks : task'[u].call # 0 => outcome'[task'[u].call] = "none"
    <3>1. calls + 1 <= MaxCalls => calls + 1 \in Calls /\ outcome[calls + 1] = "none"
      BY <1>0, V3Assumption DEF V3Assumption, CallInv, Calls
    <3>2. calls' <= MaxCalls
      BY V3Assumption DEF V3Assumption, TypeOK
    <3>3. task'[t].call # 0 => outcome'[task'[t].call] = "none"
      BY <2>2, <3>1, <3>2
    <3>. QED
      BY <2>2, <3>3 DEF CallInv
  <2>8. \A c \in Calls : c > calls' => outcome'[c] = "none"
    BY <1>0, <2>2 DEF CallInv
  <2>9. \A q \in Requests' : q.call \in 1..calls'
    BY <1>0, <2>1, <2>3 DEF CallInv, NoneMade
  <2>10. \A u \in Tasks, q \in Requests' : task'[u].at \in Unsent => q.call # task'[u].call
    BY <1>0, <2>1, <2>2 DEF CallInv, NoneMade
  <2>11. \A p, q \in Requests' : p.call = q.call => p = q
    BY <2>1 DEF CallInv, NoneMade
  <2>. QED
    BY <2>4, <2>5, <2>6, <2>7, <2>8, <2>9, <2>10, <2>11 DEF CallInv
<1>4. ASSUME NEW t \in Tasks, NEW out \in Outcomes, Over(t, out), NoneMade PROVE CallInv'
  <2>1. /\ \A c \in Calls : outcome'[c] = IF c = task[t].call THEN out ELSE outcome[c]
        /\ task'[t] = Idle
        /\ task'[t].op = "none"
        /\ task'[t].at = "idle"
        /\ task'[t].call = 0
        /\ \A u \in Tasks \ {t} : task'[u] = task[u]
        /\ calls' = calls
    BY <1>4, OverEffect DEF Over, Only
  <2>2. \A u \in Tasks : task'[u].call # 0 => outcome'[task'[u].call] = "none"
    BY <1>0, <2>1 DEF CallInv
  <2>3. \A c \in Calls : c > calls' => outcome'[c] = "none"
    BY <1>0, <2>1 DEF CallInv
  <2>4. /\ \A u \in Tasks : task'[u].call <= calls'
        /\ \A u \in Tasks : task'[u].at = "idle" => task'[u] = Idle
        /\ \A u \in Tasks : task'[u].op \in {"request", "unpair", "pair"} => task'[u].call # 0
        /\ \A u \in Tasks : task'[u].op \in {"none", "auth"} => task'[u].call = 0
        /\ \A u, v \in Tasks : task'[u].call = task'[v].call /\ task'[u].call # 0 => u = v
    BY <1>0, <2>1 DEF CallInv
  <2>5. /\ \A q \in Requests' : q.call \in 1..calls'
        /\ \A u \in Tasks, q \in Requests' : task'[u].at \in Unsent => q.call # task'[u].call
        /\ \A p, q \in Requests' : p.call = q.call => p = q
    BY <1>4, <2>1 DEF CallInv, NoneMade, Unsent
  <2>. QED
    BY <2>2, <2>3, <2>4, <2>5 DEF CallInv
<1>5. ASSUME NEW t \in Tasks,
             Dropped(t) \/ Broke(t) \/ Answered(t) \/ Unpaired(t) \/ Authenticated(t)
      PROVE  CallInv'
  <2>1. NoneMade
    BY <1>5, NoneMadeBy
  <2>2. \E out \in Outcomes : Over(t, out)
    BY <1>5 DEF Dropped, Broke, Answered, Unpaired, Authenticated, Outcomes
  <2>. QED
    BY <1>4, <2>1, <2>2
<1>6. ASSUME NEW t \in Tasks, Greeted(t) PROVE CallInv'
  <2>1. NoneMade
    BY <1>6, NoneMadeBy
  <2>2. /\ task'[t].op = task[t].op
        /\ task'[t].call = task[t].call
        /\ task[t].at \in Unsent
        /\ task'[t].at \in Unsent
        /\ task'[t].at # "idle"
        /\ \A u \in Tasks \ {t} : task'[u] = task[u]
        /\ UNCHANGED <<calls, outcome>>
    BY <1>6 DEF Greeted, Waits, Only, Unsent
  <2>3. /\ \A u \in Tasks : task'[u].call = task[u].call /\ task'[u].op = task[u].op
        /\ \A u \in Tasks : task'[u].at \in Unsent => task[u].at \in Unsent
        /\ \A u \in Tasks : task'[u].at = "idle" => task'[u] = Idle
    BY <2>2 DEF CallInv
  <2>. QED
    BY <2>1, <2>2, <2>3 DEF CallInv, NoneMade
<1>7. ASSUME NEW t \in Tasks, NEW c, Asked(t, c) PROVE CallInv'
  <2>1. PICK i \in MsgIds : Requests' = Requests \cup {Packet(t, c, i)}
    BY <1>7, AskedMakesOne
  <2>2. /\ task'[t].op = task[t].op
        /\ task'[t].call = task[t].call
        /\ task[t].at \in Unsent
        /\ task[t].op \in {"request", "unpair", "pair"}
        /\ task'[t].at = "answer"
        /\ \A u \in Tasks \ {t} : task'[u] = task[u]
        /\ UNCHANGED <<calls, outcome>>
    BY <1>7 DEF Asked, Waits, Only, Unsent
  <2>3. Packet(t, c, i).call = task[t].call
    BY DEF Packet
  <2>4. /\ \A u \in Tasks : task'[u].call = task[u].call /\ task'[u].op = task[u].op
        /\ \A u \in Tasks : task'[u].at \in Unsent => task[u].at \in Unsent /\ u # t
        /\ \A u \in Tasks : task'[u].at = "idle" => task'[u] = Idle
    BY <2>2 DEF CallInv, Unsent
  <2>5. task[t].call \in 1..calls
    BY <1>0, <2>2 DEF CallInv
  <2>6. \A u \in Tasks, q \in Requests' : task'[u].at \in Unsent => q.call # task'[u].call
    BY <2>1, <2>3, <2>4, <2>5 DEF CallInv
  <2>7. \A p, q \in Requests' : p.call = q.call => p = q
    BY <2>1, <2>2, <2>3 DEF CallInv
  <2>8. \A q \in Requests' : q.call \in 1..calls'
    BY <2>1, <2>2, <2>3, <2>5 DEF CallInv
  <2>9. /\ \A u \in Tasks : task'[u].call <= calls'
        /\ \A u \in Tasks : task'[u].op \in {"request", "unpair", "pair"} => task'[u].call # 0
        /\ \A u \in Tasks : task'[u].op \in {"none", "auth"} => task'[u].call = 0
        /\ \A u, v \in Tasks : task'[u].call = task'[v].call /\ task'[u].call # 0 => u = v
        /\ \A u \in Tasks : task'[u].call # 0 => outcome'[task'[u].call] = "none"
        /\ \A d \in Calls : d > calls' => outcome'[d] = "none"
    BY <2>2, <2>4 DEF CallInv
  <2>. QED
    BY <2>4, <2>6, <2>7, <2>8, <2>9 DEF CallInv
<1>. QED
  BY <1>1, <1>2, <1>3, <1>5, <1>6, <1>7 DEF Shape

\* The keys of handshakes: a task takes a new one, and its cipher is fresh.
LEMMA KeyKept == TypeOK /\ TypeOK' /\ LockInv /\ KeyInv /\ CallInv /\ Shape => KeyInv'
<1>. SUFFICES ASSUME TypeOK, TypeOK', LockInv, KeyInv, CallInv, Shape PROVE KeyInv'
  OBVIOUS
<1>0. /\ starts \in Nat
      /\ cipher.key \in Nat
      /\ \A t \in Tasks : task[t].key \in Nat
  BY V3Assumption DEF V3Assumption, TypeOK, TaskType, Keys
<1>1. CASE Quiet
  <2>1. NoneMade
    BY <1>1, QuietMakesNone
  <2>. QED
    BY <1>1, <2>1 DEF Quiet, NoneMade, KeyInv
<1>2. ASSUME NEW p \in sent, Handled(p) PROVE KeyInv'
  <2>1. NoneMade
    BY <1>2, HandledMakesNone
  <2>. QED
    BY <1>2, <2>1 DEF Handled, client, NoneMade, KeyInv
<1>3. ASSUME NEW t \in Tasks, Begun(t) PROVE KeyInv'
  <2>1. NoneMade
    BY <1>3, NoneMadeBy
  <2>2. /\ task'[t].at = "lock"
        /\ task'[t].op \in Handshaking => starts' = starts + 1 /\ task'[t].key = starts + 1
        /\ task'[t].op \notin Handshaking => starts' = starts /\ task'[t].key = 0
        /\ \A u \in Tasks \ {t} : task'[u] = task[u]
        /\ cipher' = cipher
    BY <1>3 DEF Begun, Only
  <2>3. /\ \A u \in Tasks : task'[u].key <= starts'
        /\ \A u \in Tasks : task'[u].at \in {"challenge", "verdict"} => task'[u].op \in Handshaking
        /\ \A u \in Tasks : task'[u].op \in Handshaking => task'[u].key # 0
        /\ cipher'.key <= starts'
    BY <1>0, <2>2 DEF KeyInv
  <2>4. \A u, v \in Tasks : task'[u].key = task'[v].key /\ task'[u].key # 0 => u = v
    BY <1>0, <2>2 DEF KeyInv
  <2>5. \A p \in Requests' : p.key \in 1..starts'
    BY <1>0, <2>1, <2>2 DEF KeyInv, NoneMade
  <2>6. \A u \in Tasks : task'[u].at \in Unsent /\ task'[u].key # 0 =>
         /\ cipher'.key # task'[u].key
         /\ \A p \in Requests' : p.key # task'[u].key
    BY <1>0, <2>1, <2>2 DEF KeyInv, NoneMade
  <2>. QED
    BY <2>3, <2>4, <2>5, <2>6 DEF KeyInv
\* The cipher keeps its key, drops it, or takes that of a task whose call ends.
<1>4. ASSUME NEW t \in Tasks, NEW out, Over(t, out), NoneMade,
             \/ cipher'.key \in {0, cipher.key}
             \/ task[t].at = "verdict" /\ cipher'.key = task[t].key
      PROVE  KeyInv'
  <2>1. /\ task'[t].op = "none"
        /\ task'[t].at = "idle"
        /\ task'[t].key = 0
        /\ \A u \in Tasks \ {t} : task'[u] = task[u]
        /\ starts' = starts
    BY <1>4 DEF Over, Only, Idle
  <2>2. /\ \A u \in Tasks : task'[u].key <= starts'
        /\ \A u \in Tasks : task'[u].at \in {"challenge", "verdict"} => task'[u].op \in Handshaking
        /\ \A u \in Tasks : task'[u].op \in Handshaking => task'[u].key # 0
        /\ \A u, v \in Tasks : task'[u].key = task'[v].key /\ task'[u].key # 0 => u = v
        /\ \A p \in Requests' : p.key \in 1..starts'
    BY <1>0, <1>4, <2>1 DEF KeyInv, NoneMade, Handshaking
  <2>3. cipher'.key <= starts'
    BY <1>0, <1>4, <2>1 DEF KeyInv
  <2>4. \A u \in Tasks : task'[u].at \in Unsent /\ task'[u].key # 0 =>
         /\ cipher'.key # task'[u].key
         /\ \A p \in Requests' : p.key # task'[u].key
    BY <1>0, <1>4, <2>1 DEF KeyInv, NoneMade
  <2>. QED
    BY <2>2, <2>3, <2>4 DEF KeyInv
<1>5. ASSUME NEW t \in Tasks,
             Dropped(t) \/ Broke(t) \/ Answered(t) \/ Unpaired(t) \/ Authenticated(t)
      PROVE  KeyInv'
  <2>1. NoneMade
    BY <1>5, NoneMadeBy
  <2>2. \E out : Over(t, out)
    BY <1>5 DEF Dropped, Broke, Answered, Unpaired, Authenticated
  <2>3. \/ cipher'.key \in {0, cipher.key}
        \/ task[t].at = "verdict" /\ cipher'.key = task[t].key
    BY <1>5 DEF Dropped, Broke, Answered, Unpaired, Authenticated, NoCipher, Fresh, Advance, TypeOK
  <2>. QED
    BY <1>4, <2>1, <2>2, <2>3
<1>6. ASSUME NEW t \in Tasks, Greeted(t) PROVE KeyInv'
  <2>1. NoneMade
    BY <1>6, NoneMadeBy
  <2>2. /\ task'[t].op = task[t].op
        /\ task'[t].key = task[t].key
        /\ task[t].at \in Unsent
        /\ task[t].op \in Handshaking
        /\ cipher'.key \in {0, cipher.key}
        /\ \A u \in Tasks \ {t} : task'[u] = task[u]
        /\ starts' = starts
    BY <1>6 DEF Greeted, Waits, Only, Unsent, NoCipher, KeyInv
  <2>3. \A u \in Tasks : /\ task'[u].key = task[u].key /\ task'[u].op = task[u].op
                         /\ task'[u].at \in Unsent => task[u].at \in Unsent
    BY <2>2
  <2>. QED
    BY <1>0, <2>1, <2>2, <2>3 DEF KeyInv, NoneMade
<1>7. ASSUME NEW t \in Tasks, NEW c, Asked(t, c), c \in {cipher, Fresh(t)} PROVE KeyInv'
  <2>1. PICK i \in MsgIds : Requests' = Requests \cup {Packet(t, c, i)}
    BY <1>7, AskedMakesOne
  <2>2. /\ task'[t].op = task[t].op
        /\ task'[t].key = task[t].key
        /\ task'[t].at = "answer"
        /\ \A u \in Tasks \ {t} : task'[u] = task[u]
        /\ starts' = starts
    BY <1>7 DEF Asked, Waits, Only
  <2>3. Packet(t, c, i).key = c.key
    BY DEF Packet
  <2>4. /\ \A u \in Tasks : task'[u].key = task[u].key /\ task'[u].op = task[u].op
        /\ \A u \in Tasks : task'[u].at \in Unsent => task[u].at \in Unsent /\ u # t
        /\ \A u \in Tasks : task'[u].at \in {"challenge", "verdict"}
                              => task[u].at \in {"challenge", "verdict"}
    BY <2>2 DEF Unsent
  <2>5. cipher'.key = c.key /\ c.key \in 1..starts
    BY <1>0, <1>7 DEF Asked, Advance, Usable, Fresh, Handshaking, KeyInv, TypeOK
  <2>6. \A u \in Tasks \ {t} : task[u].at \in Unsent /\ task[u].key # 0 => c.key # task[u].key
    BY <1>7 DEF KeyInv, Fresh
  <2>. QED
    BY <1>0, <2>1, <2>2, <2>3, <2>4, <2>5, <2>6 DEF KeyInv
<1>. QED
  BY <1>1, <1>2, <1>3, <1>5, <1>6, <1>7 DEF Shape

\* The counters of requests are even and in order, for none is asked until the
\* answer to the last one came, at the odd counter between them.
LEMMA CounterKept ==
  TypeOK /\ LockInv /\ KeyInv /\ CounterInv /\ AnswerInv /\ Shape => CounterInv'
<1>. SUFFICES ASSUME TypeOK, LockInv, KeyInv, CounterInv, AnswerInv, Shape PROVE CounterInv'
  OBVIOUS
<1>0. /\ cipher.ctr \in Nat
      /\ \A p \in Requests : p.key # 0 /\ p.ctr \in Nat
  BY DEF TypeOK, KeyInv, Requests, PacketType
<1>1. ASSUME NoneMade, UNCHANGED <<lock, cipher, broken>> PROVE CounterInv'
  BY <1>1 DEF NoneMade, CounterInv, Usable
<1>2. CASE Quiet
  BY <1>1, <1>2, QuietMakesNone DEF Quiet
<1>3. ASSUME NEW p \in sent, Handled(p) PROVE CounterInv'
  BY <1>1, <1>3, HandledMakesNone DEF Handled, client
<1>4. ASSUME NEW t \in Tasks, Begun(t) \/ Dropped(t) PROVE CounterInv'
  BY <1>1, <1>4, NoneMadeBy DEF Begun, Dropped
<1>5. ASSUME NEW t \in Tasks, task[t].at = "verdict"
      PROVE  \A p \in Requests : p.key # task[t].key
  BY <1>5 DEF KeyInv, Unsent
<1>6. ASSUME NoneMade, lock' # None \/ ~Usable' \/ cipher'.ctr % 2 = 0,
             \/ cipher'.key = 0
             \/ cipher'.key = cipher.key /\ cipher'.ctr \in Nat /\ cipher'.ctr >= cipher.ctr
             \/ \E t \in Tasks : task[t].at = "verdict" /\ cipher'.key = task[t].key
      PROVE  CounterInv'
  <2>1. \A p \in Requests : p.key = cipher'.key => p.ctr < cipher'.ctr
    BY <1>0, <1>5, <1>6 DEF CounterInv
  <2>. QED
    BY <1>6, <2>1 DEF NoneMade, CounterInv
<1>7. ASSUME NEW t \in Tasks, Broke(t) PROVE CounterInv'
  <2>1. ~Usable'
    BY <1>7 DEF Broke, Usable
  <2>2. \/ cipher'.key = 0
        \/ cipher'.key = cipher.key /\ cipher'.ctr \in Nat /\ cipher'.ctr >= cipher.ctr
        \/ task[t].at = "verdict" /\ cipher'.key = task[t].key
    BY <1>0, <1>7 DEF Broke, NoCipher, Advance, Fresh, TypeOK
  <2>. QED
    BY <1>6, <1>7, <2>1, <2>2, NoneMadeBy
<1>8. ASSUME NEW t \in Tasks, Answered(t) PROVE CounterInv'
  <2>1. PICK p \in Requests : p.ctr + 1 = cipher.ctr
    BY <1>8 DEF Answered, AnswerInv, Own
  <2>2. cipher'.key = cipher.key /\ cipher'.ctr = cipher.ctr + 1
    BY <1>8 DEF Answered, Advance, TypeOK
  <2>3. (cipher.ctr + 1) % 2 = 0
    BY <1>0, <2>1 DEF CounterInv
  <2>. QED
    BY <1>0, <1>6, <1>8, <2>2, <2>3, NoneMadeBy
<1>9. ASSUME NEW t \in Tasks, Unpaired(t) PROVE CounterInv'
  <2>1. ~Usable' /\ cipher'.key = 0
    BY <1>9 DEF Unpaired, NoCipher, Usable
  <2>2. NoneMade
    BY <1>9, NoneMadeBy
  <2>. QED
    BY <1>6, <2>1, <2>2
<1>10. ASSUME NEW t \in Tasks, Authenticated(t) PROVE CounterInv'
  <2>1. NoneMade
    BY <1>10, NoneMadeBy
  <2>2. cipher'.key = task[t].key /\ cipher'.ctr % 2 = 0 /\ task[t].at = "verdict"
    BY <1>10 DEF Authenticated, Fresh
  <2>. QED
    BY <1>6, <2>1, <2>2
<1>11. ASSUME NEW t \in Tasks, Greeted(t) PROVE CounterInv'
  <2>1. lock' # None
    BY <1>11, V3Assumption DEF V3Assumption, Greeted, Waits
  <2>2. \/ cipher'.key = 0
        \/ cipher' = cipher
    BY <1>11 DEF Greeted, NoCipher
  <2>. QED
    BY <1>0, <1>6, <1>11, <2>1, <2>2, NoneMadeBy
<1>12. ASSUME NEW t \in Tasks, NEW c, Asked(t, c), c \in {cipher, Fresh(t)} PROVE CounterInv'
  <2>1. PICK i \in MsgIds : Requests' = Requests \cup {Packet(t, c, i)}
    BY <1>12, AskedMakesOne
  <2>2. Packet(t, c, i).key = c.key /\ Packet(t, c, i).ctr = c.ctr
    BY DEF Packet
  <2>3. lock' # None
    BY <1>12, V3Assumption DEF V3Assumption, Asked, Waits
  <2>4. c.ctr \in Nat /\ c.ctr % 2 = 0
    BY <1>0, <1>12 DEF Asked, CounterInv, Fresh
  <2>5. cipher'.key = c.key /\ cipher'.ctr = c.ctr + 1
    BY <1>12 DEF Asked, Advance, Fresh, TypeOK
  <2>6. \A p \in Requests : p.key = c.key => p.ctr < c.ctr
    BY <1>5, <1>12 DEF Asked, CounterInv, Fresh
  <2>7. \A p, q \in Requests' : p.key = q.key /\ p.ctr = q.ctr => p = q
    BY <1>0, <2>1, <2>2, <2>4, <2>6 DEF CounterInv
  <2>8. \A p \in Requests' : p.ctr % 2 = 0 /\ (p.key = cipher'.key => p.ctr < cipher'.ctr)
    BY <1>0, <2>1, <2>2, <2>4, <2>5, <2>6 DEF CounterInv
  <2>. QED
    BY <2>3, <2>7, <2>8 DEF CounterInv
<1>. QED
  BY <1>2, <1>3, <1>4, <1>7, <1>8, <1>9, <1>10, <1>11, <1>12 DEF Shape

\* A task waits for the answer to the last request made.
LEMMA AnswerKept == TypeOK /\ LockInv /\ AnswerInv /\ Shape => AnswerInv'
<1>. SUFFICES ASSUME TypeOK, LockInv, AnswerInv, Shape PROVE AnswerInv'
  OBVIOUS
<1>1. ASSUME NoneMade, UNCHANGED <<cipher, broken>>,
             \A u \in Tasks : task'[u].at = "answer" =>
               /\ task[u].at = "answer"
               /\ task'[u].op = task[u].op
               /\ task'[u].call = task[u].call
      PROVE  AnswerInv'
  BY <1>1 DEF NoneMade, AnswerInv, Own
<1>2. CASE Quiet
  BY <1>1, <1>2, QuietMakesNone DEF Quiet
<1>3. ASSUME NEW p \in sent, Handled(p) PROVE AnswerInv'
  BY <1>1, <1>3, HandledMakesNone DEF Handled, client
<1>4. ASSUME NEW t \in Tasks, Begun(t) \/ Dropped(t) PROVE AnswerInv'
  BY <1>1, <1>4, NoneMadeBy DEF Begun, Dropped, Over, Only, Idle
<1>5. ASSUME NEW t \in Tasks,
             Broke(t) \/ Answered(t) \/ Unpaired(t) \/ Authenticated(t) \/ Greeted(t)
      PROVE  AnswerInv'
  <2>1. lock \in {t, None}
    BY <1>5 DEF Broke, Answered, Unpaired, Authenticated, Greeted, LockInv, Waiting, WaitPoints
  <2>2. \A u \in Tasks \ {t} : task'[u].at # "answer"
    BY <1>5, <2>1, V3Assumption DEF V3Assumption, Broke, Answered, Unpaired, Authenticated,
       Greeted, Waits, Over, Only, LockInv, Waiting, WaitPoints
  <2>3. task'[t].at # "answer"
    BY <1>5 DEF Broke, Answered, Unpaired, Authenticated, Greeted, Waits, Over, Idle
  <2>. QED
    BY <2>2, <2>3 DEF AnswerInv
<1>6. ASSUME NEW t \in Tasks, NEW c, Asked(t, c), c \in {cipher, Fresh(t)} PROVE AnswerInv'
  <2>1. PICK i \in MsgIds : Requests' = Requests \cup {Packet(t, c, i)}
    BY <1>6, AskedMakesOne
  <2>2. \A u \in Tasks \ {t} : task'[u].at # "answer"
    BY <1>6, V3Assumption DEF V3Assumption, Asked, Waits, Only, LockInv, Waiting, WaitPoints
  <2>3. /\ task'[t].op = task[t].op
        /\ task'[t].call = task[t].call
        /\ task[t].op \in {"request", "unpair", "pair"}
        /\ ~broken'
    BY <1>6 DEF Asked, Waits
  <2>4. cipher'.key = c.key /\ cipher'.ctr = c.ctr + 1
    BY <1>6 DEF Asked, Advance, Fresh, TypeOK
  <2>5. /\ Packet(t, c, i).call = task[t].call
        /\ Packet(t, c, i).key = c.key
        /\ Packet(t, c, i).ctr = c.ctr
        /\ task[t].op = "unpair" => Packet(t, c, i).kind = "unpair"
    BY DEF Packet
  <2>. QED
    BY <2>1, <2>2, <2>3, <2>4, <2>5 DEF AnswerInv, Own
<1>. QED
  BY <1>2, <1>3, <1>4, <1>5, <1>6 DEF Shape

\* One unpair is made at most.
LEMMA UnpairKept == TypeOK /\ UnpairInv /\ Shape => UnpairInv'
<1>. SUFFICES ASSUME TypeOK, UnpairInv, Shape PROVE UnpairInv'
  OBVIOUS
<1>1. ASSUME NoneMade,
             \A u \in Tasks : task'[u].op = "unpair" =>
               /\ task[u].op = "unpair"
               /\ task'[u].at = "lock" => task[u].at = "lock"
      PROVE  UnpairInv'
  BY <1>1 DEF NoneMade, UnpairInv
<1>2. CASE Quiet
  BY <1>1, <1>2, QuietMakesNone DEF Quiet
<1>3. ASSUME NEW p \in sent, Handled(p) PROVE UnpairInv'
  BY <1>1, <1>3, HandledMakesNone DEF Handled, client
<1>4. ASSUME NEW t \in Tasks,
             \/ Dropped(t) \/ Broke(t) \/ Answered(t) \/ Unpaired(t) \/ Authenticated(t)
             \/ Greeted(t)
      PROVE  UnpairInv'
  <2>1. /\ \A u \in Tasks \ {t} : task'[u] = task[u]
        /\ task'[t].op = "none" \/ (task'[t].op = task[t].op /\ task'[t].at # "lock")
    BY <1>4 DEF Dropped, Broke, Answered, Unpaired, Authenticated, Greeted, Waits, Over, Only, Idle
  <2>. QED
    BY <1>1, <1>4, <2>1, NoneMadeBy
<1>5. ASSUME NEW t \in Tasks, Begun(t) PROVE UnpairInv'
  <2>1. /\ NoneMade
        /\ \A u \in Tasks \ {t} : task'[u] = task[u]
        /\ task'[t].op = "unpair" => /\ \A p \in Requests : p.kind # "unpair"
                                    /\ \A u \in Tasks : task[u].op # "unpair"
    BY <1>5, NoneMadeBy DEF Begun, Only, Requests
  <2>. QED
    BY <2>1 DEF NoneMade, UnpairInv
<1>6. ASSUME NEW t \in Tasks, NEW c, Asked(t, c) PROVE UnpairInv'
  <2>1. PICK i \in MsgIds : Requests' = Requests \cup {Packet(t, c, i)}
    BY <1>6, AskedMakesOne
  <2>2. /\ task'[t].op = task[t].op
        /\ task'[t].at = "answer"
        /\ task[t].op = "unpair" => task[t].at = "lock"
        /\ \A u \in Tasks \ {t} : task'[u] = task[u]
    BY <1>6 DEF Asked, Waits, Only
  <2>3. Packet(t, c, i).kind = "unpair" => task[t].op = "unpair"
    BY DEF Packet
  <2>. QED
    BY <2>1, <2>2, <2>3 DEF UnpairInv
<1>. QED
  BY <1>2, <1>3, <1>4, <1>5, <1>6 DEF Shape

\* Requests and the datagrams the device has answered only grow.
LEMMA GrowingSets ==
  ASSUME Shape
  PROVE  Requests \subseteq Requests' /\ Requests \cap seen \subseteq Requests' \cap seen'
<1>1. CASE Quiet
  BY <1>1, QuietMakesNone DEF NoneMade, Quiet
<1>2. ASSUME NEW p \in sent, Handled(p)
      PROVE  Requests \subseteq Requests' /\ seen \subseteq seen'
  BY <1>2, HandledMakesNone DEF NoneMade, Handled
<1>3. ASSUME NEW t \in Tasks,
             \/ Begun(t) \/ Dropped(t) \/ Broke(t) \/ Answered(t) \/ Unpaired(t)
             \/ Authenticated(t) \/ Greeted(t)
      PROVE  Requests \subseteq Requests' /\ seen \subseteq seen'
  BY <1>3, NoneMadeBy DEF NoneMade, Begun, Dropped, Broke, Answered, Unpaired, Authenticated,
     Greeted, Waits, Over, Only, peer
<1>4. ASSUME NEW t \in Tasks, NEW c, Asked(t, c)
      PROVE  Requests \subseteq Requests' /\ seen \subseteq seen'
  BY <1>4, AskedMakesOne DEF Asked, Waits, Only, peer
<1>. QED
  BY <1>1, <1>2, <1>3, <1>4 DEF Shape

\* The steps of the client leave the device's side alone.
LEMMA ClientStep ==
  ASSUME NEW t \in Tasks,
         \/ Begun(t) \/ Dropped(t) \/ Broke(t) \/ Answered(t) \/ Unpaired(t)
         \/ Authenticated(t) \/ Greeted(t) \/ Asked(t, cipher) \/ Asked(t, Fresh(t))
  PROVE  Only(t)
  BY DEF Begun, Dropped, Broke, Answered, Unpaired, Authenticated, Greeted, Asked, Waits, Over

\* ReplyInv
LEMMA ReplyKept == TypeOK /\ ReplyInv /\ Shape => ReplyInv'
<1>. SUFFICES ASSUME TypeOK, ReplyInv, Shape PROVE ReplyInv'
  OBVIOUS
<1>0. Requests \cap seen \subseteq Requests' \cap seen'
  BY GrowingSets
<1>1. CASE Quiet
  <2>1. /\ replies \subseteq replies'
        /\ \A r \in replies' : r.kind \in {"data", "empty"} => r \in replies
        /\ \A u \in Tasks : future'[u].kind \in {"data", "empty"} =>
             future'[u] = future[u] \/ future'[u] \in replies
    BY <1>1 DEF Quiet
  <2>. QED
    BY <1>0, <2>1 DEF ReplyInv
<1>2. ASSUME NEW t \in Tasks, Only(t) PROVE ReplyInv'
  <2>1. /\ \A u \in Tasks : future'[u].kind = "none" \/ future'[u] = future[u]
        /\ replies' = replies
    BY <1>2 DEF Only, peer
  <2>. QED
    BY <1>0, <2>1 DEF ReplyInv
<1>3. ASSUME NEW p \in sent, Handled(p) PROVE ReplyInv'
  <2>1. /\ future' = future
        /\ replies \subseteq replies'
        /\ p \in seen'
        /\ p \in sent'
    BY <1>3 DEF Handled, client
  <2>2. ASSUME NEW r \in replies' \ replies, r.kind \in {"data", "empty"}
        PROVE  /\ p \in Requests' \cap seen'
               /\ r.kind = "data" => r = Reply(p, "data", p.ctr + 1)
               /\ r.kind = "empty" => p.kind = "unpair"
    <3>1. p.kind \in Encrypted
      BY <1>3, <2>2 DEF Handled
    <3>2. Reply(p, "data", p.ctr + 1).kind = "data"
      BY DEF Reply
    <3>3. r = Reply(p, "data", p.ctr + 1) \/ (p.kind = "unpair" /\ r.kind = "empty")
      BY <1>3, <2>2, <3>1 DEF Handled
    <3>. QED
      BY <2>1, <3>1, <3>2, <3>3 DEF Requests
  <2>. QED
    BY <1>0, <2>1, <2>2 DEF ReplyInv
<1>. QED
  BY <1>1, <1>2, <1>3, ClientStep DEF Shape

\* What the device has carried out is what it has seen.
LEMMA ExecutedKept == TypeOK /\ CallInv /\ ExecutedInv /\ Shape => ExecutedInv'
<1>. SUFFICES ASSUME TypeOK, CallInv, ExecutedInv, Shape PROVE ExecutedInv'
  OBVIOUS
<1>1. ASSUME Requests' \cap seen' = Requests \cap seen, executed' = executed PROVE ExecutedInv'
  BY <1>1 DEF ExecutedInv
<1>2. CASE Quiet
  BY <1>1, <1>2, QuietMakesNone DEF Quiet, NoneMade
<1>3. ASSUME NEW t \in Tasks,
             \/ Begun(t) \/ Dropped(t) \/ Broke(t) \/ Answered(t) \/ Unpaired(t)
             \/ Authenticated(t) \/ Greeted(t)
      PROVE  ExecutedInv'
  BY <1>1, <1>3, NoneMadeBy, ClientStep DEF NoneMade, Only, peer
<1>4. ASSUME NEW t \in Tasks, Asked(t, cipher) \/ Asked(t, Fresh(t)) PROVE ExecutedInv'
  <2>1. PICK c, i : Requests' = Requests \cup {Packet(t, c, i)}
    BY <1>4, AskedMakesOne
  <2>2. task[t].at \in Unsent
    BY <1>4 DEF Asked, Unsent
  <2>3. Packet(t, c, i) \notin Requests
    BY <2>2 DEF CallInv, Packet
  <2>4. seen' = seen /\ executed' = executed
    BY <1>4, ClientStep DEF Only, peer
  <2>5. Packet(t, c, i) \notin seen
    <3>1. Packet(t, c, i).kind \in Encrypted
      BY <1>4 DEF Packet, Asked, Encrypted
    <3>. QED
      BY <2>3, <3>1 DEF TypeOK, Requests
  <2>. QED
    BY <1>1, <2>1, <2>4, <2>5
<1>5. ASSUME NEW p \in sent, Handled(p) PROVE ExecutedInv'
  <2>1. /\ NoneMade
        /\ seen' = seen \cup {p}
        /\ p \notin seen
    BY <1>5, HandledMakesNone DEF Handled
  <2>2. CASE p.kind \notin Encrypted
    BY <1>1, <1>5, <2>1, <2>2 DEF Handled, NoneMade, Requests
  <2>3. CASE p.kind \in Encrypted
    <3>1. p \in Requests
      BY <2>3 DEF Requests
    <3>2. p.call \in Calls
      BY <3>1, V3Assumption DEF V3Assumption, CallInv, TypeOK, Calls
    <3>3. executed' = [executed EXCEPT ![p.call] = @ + 1]
      BY <1>5, <2>3 DEF Handled
    <3>4. \A q \in Requests \cap seen : q.call # p.call
      BY <2>1, <3>1 DEF CallInv
    <3>5. executed'[p.call] = 1
      BY <3>2, <3>3, <3>4 DEF ExecutedInv, TypeOK
    <3>6. \A c \in Calls \ {p.call} : executed'[c] = executed[c]
      BY <3>3 DEF TypeOK
    <3>7. Requests' \cap seen' = (Requests \cap seen) \cup {p}
      BY <2>1, <3>1 DEF NoneMade
    <3>. QED
      BY <3>5, <3>6, <3>7 DEF ExecutedInv
  <2>. QED
    BY <2>2, <2>3
<1>. QED
  BY <1>2, <1>3, <1>4, <1>5 DEF Shape

\* A reply that decrypts for a waiting task answers the request it waits for.
LEMMA DecryptedIsOwn ==
  ASSUME TypeOK, CounterInv, AnswerInv, ReplyInv,
         NEW t \in Tasks, task[t].at = "answer", Decrypts(future[t])
  PROVE  /\ future[t].call = task[t].call
         /\ \E p \in Requests \cap seen : /\ p.call = task[t].call
                                        /\ p.key = cipher.key
                                        /\ p.ctr + 1 = cipher.ctr
<1>1. PICK p \in Requests : Own(t, p)
  BY DEF AnswerInv
<1>2. future[t].kind = "data" /\ future[t].key = cipher.key /\ future[t].ctr = cipher.ctr
  BY DEF Decrypts
<1>3. PICK q \in Requests \cap seen : future[t] = Reply(q, "data", q.ctr + 1)
  BY <1>2 DEF ReplyInv
<1>4. q.key = cipher.key /\ q.ctr + 1 = cipher.ctr /\ future[t].call = q.call
  BY <1>2, <1>3 DEF Reply
<1>5. q.ctr \in Nat /\ p.ctr \in Nat
  BY DEF TypeOK, Requests, PacketType
<1>6. p = q
  BY <1>1, <1>4, <1>5 DEF Own, CounterInv
<1>. QED
  BY <1>1, <1>3, <1>4, <1>6 DEF Own

\* and OutcomeInv.
LEMMA OutcomeKept ==
  TypeOK /\ LockInv /\ CallInv /\ KeyInv /\ CounterInv /\ AnswerInv /\ UnpairInv /\ ReplyInv
    /\ OutcomeInv /\ Shape => OutcomeInv'
<1>. SUFFICES ASSUME TypeOK, LockInv, CallInv, KeyInv, CounterInv, AnswerInv, UnpairInv,
                     ReplyInv, OutcomeInv, Shape
              PROVE  OutcomeInv'
  OBVIOUS
<1>0. Requests \cap seen \subseteq Requests' \cap seen'
  BY GrowingSets
<1>1. ASSUME NoneMade, outcome' = outcome PROVE OutcomeInv'
  BY <1>0, <1>1 DEF NoneMade, OutcomeInv
<1>2. CASE Quiet
  BY <1>1, <1>2, QuietMakesNone DEF Quiet
<1>3. ASSUME NEW p \in sent, Handled(p) PROVE OutcomeInv'
  BY <1>1, <1>3, HandledMakesNone DEF Handled, client
<1>4. ASSUME NEW t \in Tasks, Begun(t) \/ Greeted(t) PROVE OutcomeInv'
  BY <1>1, <1>4, NoneMadeBy DEF Begun, Greeted, Waits
<1>5. ASSUME NEW t \in Tasks, NEW out \in Outcomes, Over(t, out), NoneMade,
             task[t].call # 0 =>
               \/ out = "failed"
               \/ out = "ok" /\ \E p \in Requests \cap seen : p.call = task[t].call
               \/ out = "expired" /\ \A p \in Requests : p.call # task[t].call
      PROVE  OutcomeInv'
  <2>1. \A c \in Calls : outcome'[c] = IF c = task[t].call THEN out ELSE outcome[c]
    BY <1>5, OverEffect
  <2>2. \A c \in Calls : c # 0
    BY DEF Calls
  <2>. QED
    BY <1>0, <1>5, <2>1, <2>2 DEF NoneMade, OutcomeInv
<1>6. ASSUME NEW t \in Tasks, Dropped(t) PROVE OutcomeInv'
  <2>1. NoneMade
    BY <1>6, NoneMadeBy
  <2>2. \A p \in Requests : p.call # task[t].call
    BY <1>6 DEF Dropped, CallInv, Unsent
  <2>3. "failed" \in Outcomes /\ "expired" \in Outcomes
    BY DEF Outcomes
  <2>. QED
    BY <1>5, <1>6, <2>1, <2>2, <2>3 DEF Dropped
<1>7. ASSUME NEW t \in Tasks, Broke(t) PROVE OutcomeInv'
  <2>1. NoneMade
    BY <1>7, NoneMadeBy
  <2>2. "failed" \in Outcomes
    BY DEF Outcomes
  <2>. QED
    BY <1>5, <1>7, <2>1, <2>2 DEF Broke
<1>8. ASSUME NEW t \in Tasks, Answered(t) PROVE OutcomeInv'
  <2>1. NoneMade
    BY <1>8, NoneMadeBy
  <2>2. /\ future[t].call = task[t].call
        /\ \E p \in Requests \cap seen : p.call = task[t].call
    BY <1>8, DecryptedIsOwn DEF Answered
  <2>3. "ok" \in Outcomes
    BY DEF Outcomes
  <2>4. Over(t, "ok")
    BY <1>8, <2>2 DEF Answered
  <2>. QED
    BY <1>5, <2>1, <2>2, <2>3, <2>4
<1>9. ASSUME NEW t \in Tasks, Unpaired(t) PROVE OutcomeInv'
  <2>1. NoneMade
    BY <1>9, NoneMadeBy
  <2>2. task[t].at = "answer" /\ task[t].op = "unpair" /\ Over(t, "ok")
    BY <1>9 DEF Unpaired
  <2>3. \E p \in Requests \cap seen : p.call = task[t].call
    <3>1. CASE Decrypts(future[t])
      BY <2>2, <3>1, DecryptedIsOwn
    <3>2. CASE future[t].kind = "empty"
      <4>1. PICK p \in Requests : Own(t, p)
        BY <2>2 DEF AnswerInv
      <4>2. PICK q \in Requests \cap seen : q.kind = "unpair"
        BY <3>2 DEF ReplyInv
      <4>. QED
        BY <2>2, <4>1, <4>2 DEF UnpairInv, Own
    <3>. QED
      BY <1>9, <3>1, <3>2 DEF Unpaired
  <2>4. "ok" \in Outcomes
    BY DEF Outcomes
  <2>. QED
    BY <1>5, <2>1, <2>2, <2>3, <2>4
<1>10. ASSUME NEW t \in Tasks, Authenticated(t) PROVE OutcomeInv'
  <2>1. NoneMade
    BY <1>10, NoneMadeBy
  <2>2. task[t].call = 0
    BY <1>10 DEF Authenticated, KeyInv, CallInv, Handshaking
  <2>3. outcome' = outcome
    BY <1>10, <2>2 DEF Authenticated, Over
  <2>. QED
    BY <1>1, <2>1, <2>3
<1>11. ASSUME NEW t \in Tasks, NEW c, Asked(t, c) PROVE OutcomeInv'
  <2>1. PICK i \in MsgIds : Requests' = Requests \cup {Packet(t, c, i)}
    BY <1>11, AskedMakesOne
  <2>2. Packet(t, c, i).call = task[t].call
    BY DEF Packet
  <2>3. outcome' = outcome /\ outcome[task[t].call] = "none"
    BY <1>11 DEF Asked, Waits, CallInv
  <2>. QED
    BY <1>0, <2>1, <2>2, <2>3 DEF OutcomeInv
<1>. QED
  BY <1>2, <1>3, <1>4, <1>6, <1>7, <1>8, <1>9, <1>10, <1>11 DEF Shape

-----------------------------------------------------------------------------
(* The device's end.                                                       *)

\* What a step of the client makes is not yet seen.
LEMMA SeenKept ==
  ASSUME TypeOK, CallInv, NEW t \in Tasks,
         \/ Begun(t) \/ Dropped(t) \/ Broke(t) \/ Answered(t) \/ Unpaired(t)
         \/ Authenticated(t) \/ Greeted(t) \/ Asked(t, cipher) \/ Asked(t, Fresh(t))
  PROVE  Requests' \cap seen' = Requests \cap seen /\ seen' = seen /\ device' = device
<1>1. seen' = seen /\ device' = device
  BY ClientStep DEF Only, peer
<1>2. CASE NoneMade
  BY <1>1, <1>2 DEF NoneMade
<1>3. ASSUME NEW c, Asked(t, c) PROVE Requests' \cap seen' = Requests \cap seen
  <2>1. PICK i \in MsgIds : Requests' = Requests \cup {Packet(t, c, i)}
    BY <1>3, AskedMakesOne
  <2>2. Packet(t, c, i) \notin Requests
    BY <1>3 DEF Asked, CallInv, Unsent, Packet
  <2>3. Packet(t, c, i) \notin sent
    BY <2>2, <1>3 DEF Requests, Packet, Encrypted, Asked
  <2>. QED
    BY <1>1, <2>1, <2>3 DEF TypeOK
<1>. QED
  BY <1>1, <1>2, <1>3, NoneMadeBy

\* Every step keeps HelloInv: a new hello has a new key.
LEMMA HelloKept ==
  TypeOK /\ TypeOK' /\ LockInv /\ CallInv /\ KeyInv /\ HelloInv /\ Shape => HelloInv'
<1>. SUFFICES ASSUME TypeOK, TypeOK', LockInv, CallInv, KeyInv, HelloInv, Shape PROVE HelloInv'
  OBVIOUS
<1>0. /\ starts \in Nat /\ seen \subseteq sent
      /\ \A t \in Tasks : task[t].key \in Nat
      /\ \A p \in sent : p.key \in Nat
  BY V3Assumption DEF V3Assumption, TypeOK, TaskType, Keys, PacketType
<1>1. ASSUME NEW t \in Tasks, Requests' \cap seen' = Requests \cap seen, seen' = seen,
             device' = device, \A u \in Tasks \ {t} : task'[u] = task[u],
             starts' \in Nat /\ starts <= starts',
             \/ sent' = sent
             \/ \E q : /\ sent' = sent \cup {q}
                       /\ q.key <= starts'
                       /\ q.kind = "hello" => \A p \in sent : p.key # q.key
                       /\ \A u \in Tasks \ {t} :
                            task[u].at = "lock" /\ task[u].key # 0 => q.key # task[u].key,
             \/ task'[t].at # "lock"
             \/ task'[t].key = 0
             \/ sent' = sent /\ task'[t].key = starts + 1
      PROVE  HelloInv'
  <2>2. /\ device'.offer # 0 => /\ Known(seen', device'.offer)
                                /\ device'.key = 0
                                /\ \A p \in Requests' \cap seen' : p.key # device'.offer
        /\ device'.key # 0 => Known(seen', device'.key)
        /\ \A p \in Requests' \cap seen' : Known(seen', p.key)
    BY <1>1 DEF HelloInv
  <2>3. CASE sent' = sent
    <3>1. \A u \in Tasks, p \in sent' :
            task'[u].at = "lock" /\ task'[u].key # 0 => p.key # task'[u].key
      BY <1>0, <1>1, <2>3 DEF HelloInv
    <3>2. \A p \in sent' : p.key <= starts'
      BY <1>0, <1>1, <2>3 DEF HelloInv
    <3>. QED
      BY <2>2, <2>3, <3>1, <3>2 DEF HelloInv
  <2>4. CASE sent' # sent
    <3>1. PICK q : /\ sent' = sent \cup {q}
                   /\ q.key <= starts'
                   /\ q.kind = "hello" => \A p \in sent : p.key # q.key
                   /\ \A u \in Tasks \ {t} :
                        task[u].at = "lock" /\ task[u].key # 0 => q.key # task[u].key
      BY <1>1, <2>4
    <3>2. \A u \in Tasks, p \in sent' :
            task'[u].at = "lock" /\ task'[u].key # 0 => p.key # task'[u].key
      BY <1>1, <2>4, <3>1 DEF HelloInv
    <3>3. \A p \in sent' : p.key <= starts'
      BY <1>0, <1>1, <3>1 DEF HelloInv
    <3>4. \A p, r \in sent' : p.kind = "hello" /\ r.kind = "hello" /\ p.key = r.key => p = r
      BY <3>1 DEF HelloInv
    <3>. QED
      BY <2>2, <3>2, <3>3, <3>4 DEF HelloInv
  <2>. QED
    BY <2>3, <2>4
<1>2. ASSUME NEW t \in Tasks, Begun(t) PROVE HelloInv'
  <2>1. \/ task'[t].key = 0 /\ starts' = starts
        \/ task'[t].key = starts + 1 /\ starts' = starts + 1
    BY <1>2 DEF Begun
  <2>2. sent' = sent /\ \A u \in Tasks \ {t} : task'[u] = task[u]
    BY <1>2 DEF Begun, Only
  <2>. QED
    BY <1>0, <1>1, <1>2, <2>1, <2>2, SeenKept
<1>3. ASSUME NEW t \in Tasks,
             Dropped(t) \/ Broke(t) \/ Answered(t) \/ Unpaired(t) \/ Authenticated(t)
      PROVE  HelloInv'
  <2>1. PICK out : Over(t, out)
    BY <1>3 DEF Dropped, Broke, Answered, Unpaired, Authenticated
  <2>2. sent' = sent /\ starts' = starts /\ task'[t].at # "lock"
          /\ \A u \in Tasks \ {t} : task'[u] = task[u]
    BY <2>1 DEF Over, Only, Idle
  <2>. QED
    BY <1>0, <1>1, <1>3, <2>2, SeenKept
<1>4. ASSUME NEW t \in Tasks, Greeted(t) PROVE HelloInv'
  <2>1. /\ starts' = starts /\ task'[t].at # "lock"
        /\ \A u \in Tasks \ {t} : task'[u] = task[u]
        /\ task[t].op \in Handshaking
    BY <1>4 DEF Greeted, Waits, Only, KeyInv
  <2>2. task[t].key # 0 /\ task[t].key <= starts
    BY <2>1 DEF KeyInv
  <2>3. PICK q : /\ sent' = sent \cup {q}
                 /\ \/ q.kind = "hello" /\ q.key = task[t].key /\ task[t].at = "lock"
                    \/ q.kind = "proof" /\ q.key \in {0, task[t].key}
    BY <1>4 DEF Greeted
  <2>4. q.key <= starts
    BY <1>0, <2>2, <2>3
  <2>5. q.kind = "hello" => \A p \in sent : p.key # q.key
    BY <2>2, <2>3 DEF HelloInv
  <2>6. \A u \in Tasks \ {t} : task[u].at = "lock" /\ task[u].key # 0 => q.key # task[u].key
    BY <2>3 DEF KeyInv
  <2>7. /\ Requests' \cap seen' = Requests \cap seen
        /\ seen' = seen
        /\ device' = device
    BY <1>4, SeenKept
  <2>. QED
    BY <1>0, <1>1, <2>1, <2>3, <2>4, <2>5, <2>6, <2>7
<1>5. ASSUME NEW t \in Tasks, NEW c, Asked(t, c), c \in {cipher, Fresh(t)} PROVE HelloInv'
  <2>1. /\ starts' = starts /\ task'[t].at # "lock"
        /\ \A u \in Tasks \ {t} : task'[u] = task[u]
    BY <1>5 DEF Asked, Waits, Only
  <2>2. PICK i \in MsgIds : sent' = sent \cup {Packet(t, c, i)}
    BY <1>5 DEF Asked, Packet
  <2>3. Packet(t, c, i).key = c.key /\ Packet(t, c, i).kind # "hello"
    BY <1>5 DEF Packet, Asked
  <2>4. c.key <= starts
    BY <1>5 DEF KeyInv, Fresh
  <2>5. \A u \in Tasks \ {t} : task[u].at = "lock" /\ task[u].key # 0 => c.key # task[u].key
    BY <1>5 DEF KeyInv, Fresh, Unsent
  <2>6. /\ Requests' \cap seen' = Requests \cap seen
        /\ seen' = seen
        /\ device' = device
    BY <1>5, SeenKept
  <2>. QED
    BY <1>0, <1>1, <2>1, <2>2, <2>3, <2>4, <2>5, <2>6
<1>6. CASE Quiet
  <2>1. NoneMade
    BY <1>6, QuietMakesNone
  <2>2. /\ device' \in {device, Off} /\ sent' = sent /\ seen' = seen /\ starts' = starts
        /\ \A u \in Tasks : task'[u].at = task[u].at /\ task'[u].key = task[u].key
    BY <1>6 DEF Quiet
  <2>. QED
    BY <2>1, <2>2 DEF HelloInv, Known, NoneMade, Off
<1>7. ASSUME NEW p \in sent, Handled(p) PROVE HelloInv'
  <2>1. Requests' = Requests /\ sent' = sent /\ starts' = starts /\ task' = task
    BY <1>7, HandledMakesNone DEF NoneMade, Handled, client
  <2>2. seen' = seen \cup {p} /\ p \notin seen
    BY <1>7 DEF Handled
  <2>3. \A k : Known(seen, k) => Known(seen', k)
    BY <2>2 DEF Known
  <2>4. p.kind = "hello" => Known(seen', p.key) /\ ~Known(seen, p.key)
    BY <1>0, <2>2 DEF Known, HelloInv
  <2>5. device' \in [offer : Keys \cup {0}, key : Keys \cup {0}, ctr : Nat]
    BY DEF TypeOK
  <2>6. Requests' \cap seen' = (Requests \cap seen) \cup (IF p \in Requests THEN {p} ELSE {})
    BY <2>1, <2>2
  <2>7. /\ device'.offer # 0 => /\ Known(seen', device'.offer)
                                /\ device'.key = 0
                                /\ \A q \in Requests' \cap seen' : q.key # device'.offer
        /\ device'.key # 0 => Known(seen', device'.key)
        /\ \A q \in Requests' \cap seen' : Known(seen', q.key)
    <3>1. CASE p.kind = "hello"
      <4>1. device' = [offer |-> p.key, key |-> 0, ctr |-> 0]
        BY <1>7, <3>1 DEF Handled, Encrypted
      <4>2. p \notin Requests
        BY <3>1 DEF Requests, Encrypted
      <4>. QED
        BY <2>3, <2>4, <2>6, <3>1, <4>1, <4>2 DEF HelloInv
    <3>2. CASE p.kind = "proof"
      <4>1. device' = [offer |-> 0, key |-> p.key, ctr |-> 0] /\ p.key = device.offer /\ p.key # 0
        BY <1>7, <3>2 DEF Handled, Encrypted
      <4>2. p \notin Requests
        BY <3>2 DEF Requests, Encrypted
      <4>. QED
        BY <2>3, <2>6, <4>1, <4>2 DEF HelloInv
    <3>3. CASE p.kind \in Encrypted
      <4>1. /\ p.key = device.key /\ device'.key = device.key /\ device'.offer = device.offer
        BY <1>7, <3>3 DEF Handled, Encrypted, TypeOK
      <4>2. p.key # 0
        BY <3>3 DEF KeyInv, Requests
      <4>3. device.offer = 0 /\ Known(seen, p.key)
        BY <4>1, <4>2 DEF HelloInv
      <4>. QED
        BY <2>3, <2>6, <4>1, <4>2, <4>3 DEF HelloInv
    <3>. QED
      BY <1>7, <3>1, <3>2, <3>3 DEF Handled, Encrypted
  <2>. QED
    BY <2>1, <2>7 DEF HelloInv
<1>. QED
  BY <1>2, <1>3, <1>4, <1>5, <1>6, <1>7 DEF Shape

\* Every step keeps DeviceInv: the device comes to no key that it has had.
LEMMA DeviceKept ==
  TypeOK /\ CallInv /\ KeyInv /\ HelloInv /\ DeviceInv /\ Shape => DeviceInv'
<1>. SUFFICES ASSUME TypeOK, CallInv, KeyInv, HelloInv, DeviceInv, Shape PROVE DeviceInv'
  OBVIOUS
<1>0. Requests \subseteq Requests' /\ \A p \in Requests : p.ctr \in Nat
  BY GrowingSets DEF TypeOK, Requests, PacketType
<1>1. CASE Requests' \cap seen' = Requests \cap seen /\ device' = device
  BY <1>0, <1>1 DEF DeviceInv
<1>2. CASE Quiet
  <2>1. Requests' \cap seen' = Requests \cap seen
    BY <1>2, QuietMakesNone DEF Quiet, NoneMade
  <2>2. device' = device \/ device'.key = 0
    BY <1>2 DEF Quiet, Off
  <2>. QED
    BY <1>1, <2>1, <2>2 DEF DeviceInv
<1>3. ASSUME NEW p \in sent, Handled(p) PROVE DeviceInv'
  <2>1. Requests' = Requests /\ seen' = seen \cup {p}
    BY <1>3, HandledMakesNone DEF NoneMade, Handled
  <2>2. CASE p.kind = "hello"
    BY <1>3, <2>2 DEF Handled, Encrypted, DeviceInv
  <2>3. CASE p.kind = "proof"
    <3>1. device' = [offer |-> 0, key |-> p.key, ctr |-> 0] /\ p.key = device.offer /\ p.key # 0
      BY <1>3, <2>3 DEF Handled, Encrypted
    <3>2. p \notin Requests
      BY <2>3 DEF Requests, Encrypted
    <3>3. \A q \in Requests' \cap seen' : q.key # device'.key
      BY <2>1, <3>1, <3>2 DEF HelloInv
    <3>. QED
      BY <3>1, <3>3 DEF DeviceInv
  <2>4. CASE p.kind \in Encrypted
    <3>1. /\ p.key = device.key /\ p.ctr = device.ctr /\ device'.key = device.key
          /\ \/ device'.ctr = p.ctr + 2
             \/ p.kind = "unpair" /\ device'.ctr = p.ctr + 1
      BY <1>3, <2>4 DEF Handled, Encrypted, TypeOK
    <3>2. p \in Requests /\ p.key # 0
      BY <2>4 DEF KeyInv, Requests
    <3>3. \A q \in Requests \cap seen : q.key = device.key => q.ctr < p.ctr
      BY <3>1, <3>2 DEF DeviceInv
    <3>4. \A q \in Requests' \cap seen' : q.key = device'.key => q.ctr < device'.ctr
      BY <1>0, <2>1, <3>1, <3>2, <3>3
    <3>. QED
      BY <2>1, <3>1, <3>2, <3>4 DEF DeviceInv
  <2>. QED
    BY <1>3, <2>2, <2>3, <2>4 DEF Handled, Encrypted
<1>. QED
  BY <1>1, <1>2, <1>3, SeenKept DEF Shape

\* Every step keeps LastInv: an answer that decrypts follows the last request.
LEMMA LastKept ==
  TypeOK /\ CallInv /\ CounterInv /\ AnswerInv /\ ReplyInv /\ LastInv /\ Shape => LastInv'
<1>. SUFFICES ASSUME TypeOK, CallInv, CounterInv, AnswerInv, ReplyInv, LastInv, Shape
              PROVE  LastInv'
  OBVIOUS
<1>0. Requests \cap seen \subseteq Requests' \cap seen'
  BY GrowingSets
<1>1. CASE lock' = lock /\ cipher' = cipher /\ broken' = broken
  BY <1>0, <1>1 DEF LastInv, Usable
<1>2. CASE lock' # None \/ broken' = TRUE \/ cipher'.ctr = 0
  BY <1>2 DEF LastInv, Usable
<1>3. ASSUME NEW t \in Tasks, Answered(t) PROVE LastInv'
  <2>1. PICK p \in Requests \cap seen : p.key = cipher.key /\ p.ctr + 1 = cipher.ctr
    BY <1>3, DecryptedIsOwn DEF Answered
  <2>2. p.ctr \in Nat
    BY DEF TypeOK, Requests, PacketType
  <2>3. cipher'.key = cipher.key /\ cipher'.ctr = cipher.ctr + 1
    BY <1>3 DEF Answered, Advance, TypeOK
  <2>4. p.key = cipher'.key /\ p.ctr + 2 = cipher'.ctr
    BY <2>1, <2>2, <2>3
  <2>5. \E q \in (Requests \cap seen)' : q.key = cipher'.key /\ q.ctr + 2 = cipher'.ctr
    BY <1>0, <2>4
  <2>. QED
    BY <2>5 DEF LastInv
<1>4. ASSUME NEW t \in Tasks, Broke(t) \/ Unpaired(t) \/ Authenticated(t) PROVE LastInv'
  <2>1. broken' = TRUE \/ cipher' = Fresh(t)
    BY <1>4 DEF Broke, Unpaired, Authenticated
  <2>2. Fresh(t).ctr = 0
    BY DEF Fresh
  <2>. QED
    BY <1>2, <2>1, <2>2
<1>5. ASSUME NEW t \in Tasks, Greeted(t) \/ Asked(t, cipher) \/ Asked(t, Fresh(t)) PROVE LastInv'
  BY <1>2, <1>5, V3Assumption DEF V3Assumption, Greeted, Asked, Waits
<1>. QED
  BY <1>1, <1>3, <1>4, <1>5 DEF Shape, Quiet, Begun, Dropped, Handled, client

\* and PartingInv: after a request to unpair, the cipher is broken or the caller waits.
LEMMA PartingKept ==
  TypeOK /\ LockInv /\ KeyInv /\ PartingInv /\ Shape => PartingInv'
<1>. SUFFICES ASSUME TypeOK, LockInv, KeyInv, PartingInv, Shape PROVE PartingInv'
  OBVIOUS
<1>0. \A u \in Tasks : task[u].at = "answer" => lock = u /\ lock # None
  BY V3Assumption DEF V3Assumption, LockInv, Waiting, WaitPoints
<1>1. ASSUME NoneMade, cipher'.key = cipher.key, broken' = broken,
             \A u \in Tasks : task[u].at = "answer" /\ task[u].op = "unpair" =>
                task'[u].at = "answer" /\ task'[u].op = "unpair"
      PROVE  PartingInv'
  BY <1>1 DEF NoneMade, PartingInv
<1>2. CASE broken' = TRUE
  BY <1>2 DEF PartingInv
<1>3. CASE Quiet
  BY <1>1, <1>3, QuietMakesNone DEF Quiet
<1>4. ASSUME NEW t \in Tasks, Begun(t) \/ Dropped(t) PROVE PartingInv'
  <2>1. NoneMade /\ cipher' = cipher /\ broken' = broken
    BY <1>4, NoneMadeBy DEF Begun, Dropped
  <2>2. task[t].at # "answer" /\ \A u \in Tasks \ {t} : task'[u] = task[u]
    BY <1>4 DEF Begun, Dropped, Over, Only
  <2>. QED
    BY <1>1, <2>1, <2>2
<1>5. ASSUME NEW t \in Tasks, Broke(t) \/ Unpaired(t) PROVE PartingInv'
  BY <1>2, <1>5 DEF Broke, Unpaired
<1>6. ASSUME NEW t \in Tasks, Answered(t) PROVE PartingInv'
  <2>1. NoneMade /\ broken' = broken
    BY <1>6, NoneMadeBy DEF Answered
  <2>2. cipher'.key = cipher.key
    BY <1>6 DEF Answered, Advance
  <2>3. \A u \in Tasks : task[u].at = "answer" => task[u].op # "unpair"
    BY <1>0, <1>6 DEF Answered
  <2>. QED
    BY <1>1, <2>1, <2>2, <2>3
<1>7. ASSUME NEW t \in Tasks, Authenticated(t) PROVE PartingInv'
  <2>1. NoneMade /\ cipher'.key = task[t].key
    BY <1>7, NoneMadeBy DEF Authenticated, Fresh
  <2>2. \A p \in Requests : p.key # task[t].key
    BY <1>7 DEF Authenticated, KeyInv, Unsent
  <2>. QED
    BY <2>1, <2>2 DEF NoneMade, PartingInv
<1>8. ASSUME NEW t \in Tasks, Greeted(t) PROVE PartingInv'
  <2>1. NoneMade /\ task[t].at # "answer" /\ \A u \in Tasks \ {t} : task'[u] = task[u]
    BY <1>8, NoneMadeBy DEF Greeted, Waits, Only
  <2>2. broken' = TRUE \/ (cipher' = cipher /\ broken' = broken)
    BY <1>8 DEF Greeted
  <2>. QED
    BY <1>1, <1>2, <2>1, <2>2
<1>9. ASSUME NEW t \in Tasks, NEW c, c \in {cipher, Fresh(t)}, Asked(t, c) PROVE PartingInv'
  <2>1. PICK i \in MsgIds : Requests' = Requests \cup {Packet(t, c, i)}
    BY <1>9, AskedMakesOne
  <2>2. cipher'.key = c.key /\ task'[t].at = "answer" /\ task'[t].op = task[t].op
    BY <1>9 DEF Asked, Waits, Advance
  <2>3. \A p \in Requests : p.key = c.key => p.kind # "unpair"
    <3>1. CASE task[t].at = "lock" /\ c = cipher /\ lock = None /\ ~broken
      BY <1>0, <3>1 DEF PartingInv
    <3>2. CASE task[t].at = "verdict" /\ task[t].op = "pair" /\ c = Fresh(t)
      BY <3>2 DEF KeyInv, Unsent, Fresh, Handshaking
    <3>. QED
      BY <1>9, <3>1, <3>2 DEF Asked, Usable
  <2>4. Packet(t, c, i).kind = "unpair" => task[t].op = "unpair"
    BY DEF Packet
  <2>. QED
    BY <2>1, <2>2, <2>3, <2>4 DEF PartingInv
<1>10. ASSUME NEW p \in sent, Handled(p) PROVE PartingInv'
  BY <1>1, <1>10, HandledMakesNone DEF Handled, client
<1>. QED
  BY <1>3, <1>4, <1>5, <1>6, <1>7, <1>8, <1>9, <1>10 DEF Shape

\* Even numbers less than two apart are equal.
LEMMA EvenApart ==
  ASSUME NEW m \in Nat, NEW n \in Nat, m % 2 = 0, n % 2 = 0, m < n + 2, n < m + 2
  PROVE  m = n
  OBVIOUS

\* Between exchanges both ends have the same counter.
LEMMA InStep ==
  TypeOK /\ CounterInv /\ HelloInv /\ DeviceInv /\ LastInv /\ PartingInv /\ LockInv => LockStep
<1>. SUFFICES ASSUME TypeOK, CounterInv, HelloInv, DeviceInv, LastInv, PartingInv, LockInv,
                     lock = None, Usable, device.key = cipher.key
              PROVE  device.ctr = cipher.ctr
  BY DEF LockStep
<1>1. device.key # 0 /\ ~broken /\ cipher.ctr \in Nat /\ device.ctr \in Nat /\ cipher.ctr % 2 = 0
  BY DEF Usable, TypeOK, CounterInv
<1>2. \A p \in Requests : /\ p.ctr \in Nat /\ p.ctr % 2 = 0
                          /\ p.key = cipher.key => p.ctr < cipher.ctr /\ p.kind # "unpair"
  <2>1. \A t \in Tasks : task[t].at # "answer"
    BY V3Assumption DEF V3Assumption, LockInv, Waiting, WaitPoints
  <2>. QED
    BY <1>1, <2>1 DEF TypeOK, Requests, PacketType, CounterInv, PartingInv
<1>3. \/ device.ctr = 0
      \/ \E p \in Requests : p.key = cipher.key /\ p.ctr + 2 = device.ctr
  BY <1>1, <1>2 DEF DeviceInv
<1>4. CASE cipher.ctr = 0
  BY <1>2, <1>3, <1>4
<1>5. CASE cipher.ctr # 0
  <2>1. PICK p \in Requests \cap seen : p.key = cipher.key /\ p.ctr + 2 = cipher.ctr
    BY <1>5 DEF LastInv
  <2>2. p.ctr < device.ctr
    BY <1>1, <2>1 DEF DeviceInv
  <2>3. PICK q \in Requests : q.key = cipher.key /\ q.ctr + 2 = device.ctr
    BY <1>1, <1>2, <1>3, <2>2
  <2>4. q.ctr < cipher.ctr /\ q.ctr \in Nat /\ q.ctr % 2 = 0 /\ p.ctr \in Nat /\ p.ctr % 2 = 0
    BY <1>2, <2>1, <2>3
  <2>5. p.ctr < q.ctr + 2 /\ q.ctr < p.ctr + 2
    BY <2>1, <2>2, <2>3, <2>4
  <2>6. p.ctr = q.ctr
    BY <2>4, <2>5, EvenApart
  <2>. QED
    BY <2>1, <2>3, <2>6
<1>. QED
  BY <1>4, <1>5

-----------------------------------------------------------------------------
(* The theorems.                                                           *)

\* The inductive invariant holds at first,
LEMMA InvInit == Init => IInv
<1>. SUFFICES ASSUME Init PROVE IInv
  OBVIOUS
<1>1. /\ lock = None
      /\ cipher.key = 0
      /\ calls = 0
      /\ starts = 0
      /\ Requests = {}
      /\ replies = {}
      /\ \A t \in Tasks : /\ task[t] = Idle
                          /\ task[t].at = "idle"
                          /\ task[t].op = "none"
                          /\ task[t].call = 0
                          /\ task[t].key = 0
                          /\ future[t].kind = "none"
      /\ \A c \in Calls : outcome[c] = "none" /\ executed[c] = 0
  BY DEF Init, NoCipher, NoReply, Idle, Requests
<1>2. LockInv
  BY <1>1, V3Assumption DEF V3Assumption, LockInv, Waiting, WaitPoints
<1>3. CallInv /\ KeyInv
  BY <1>1 DEF CallInv, KeyInv, Handshaking
<1>4. CounterInv /\ AnswerInv /\ UnpairInv
  BY <1>1 DEF CounterInv, AnswerInv, UnpairInv, Usable
<1>5. ReplyInv /\ ExecutedInv /\ OutcomeInv
  BY <1>1 DEF ReplyInv, ExecutedInv, OutcomeInv
<1>6. sent = {} /\ device.offer = 0 /\ device.key = 0
  BY DEF Init
<1>7. HelloInv /\ DeviceInv /\ LastInv /\ PartingInv
  BY <1>1, <1>6 DEF HelloInv, DeviceInv, LastInv, PartingInv, Usable
<1>. QED
  BY <1>2, <1>3, <1>4, <1>5, <1>7, TypeInit DEF IInv

\* and every step keeps it.
LEMMA InvNext == IInv /\ [Next]_vars => IInv'
<1>. SUFFICES ASSUME IInv, [Next]_vars PROVE IInv'
  OBVIOUS
<1>1. TypeOK'
  BY TypeNext DEF IInv
<1>2. Shape
  BY StepShape DEF IInv
<1>. QED
  BY <1>1, <1>2, LockKept, CallKept, KeyKept, CounterKept, AnswerKept, UnpairKept, ReplyKept,
     ExecutedKept, OutcomeKept, HelloKept, DeviceKept, LastKept, PartingKept DEF IInv

\* The inductive invariant holds in every reachable state.
THEOREM Inductive == Spec => []IInv
<1>. QED
  BY InvInit, InvNext, PTL DEF Spec

\* No key ever encrypts two messages at one counter, whatever is lost, cancelled,
\* timed out or retransmitted: requests take the even counters of a key in their
\* order, and replies the odd one that follows their request's.
THEOREM NoncesUnique == Spec => []NonceUnique
<1>1. IInv => NonceUnique
  <2>. SUFFICES ASSUME IInv,
                       NEW p \in Ciphertexts, NEW q \in Ciphertexts,
                       p.key = q.key, p.ctr = q.ctr
                PROVE  p = q
    BY DEF NonceUnique
  <2>1. \A r \in Ciphertexts \ Requests :
          \E o \in Requests : r = Reply(o, "data", o.ctr + 1) /\ r.key = o.key /\ r.ctr = o.ctr + 1
    BY DEF IInv, ReplyInv, Ciphertexts, Reply
  <2>2. \A o \in Requests : o.ctr \in Nat /\ o.ctr % 2 = 0 /\ (o.ctr + 1) % 2 = 1
    BY DEF IInv, TypeOK, CounterInv, Requests, PacketType
  <2>3. \A o, n \in Requests : o.key = n.key /\ o.ctr = n.ctr => o = n
    BY DEF IInv, CounterInv
  <2>4. CASE p \in Requests /\ q \in Requests
    BY <2>3, <2>4
  <2>5. CASE p \notin Requests /\ q \notin Requests
    <3>1. PICK o \in Requests : p = Reply(o, "data", o.ctr + 1) /\ p.key = o.key /\ p.ctr = o.ctr + 1
      BY <2>1, <2>5
    <3>2. PICK n \in Requests : q = Reply(n, "data", n.ctr + 1) /\ q.key = n.key /\ q.ctr = n.ctr + 1
      BY <2>1, <2>5
    <3>. QED
      BY <2>2, <2>3, <3>1, <3>2
  <2>6. CASE (p \in Requests) # (q \in Requests)
    BY <2>1, <2>2, <2>6
  <2>. QED
    BY <2>4, <2>5, <2>6
<1>. QED
  BY <1>1, Inductive, PTL

\* The device never carries out a request twice, for a retransmission is the same
\* datagram and two requests are never one.
THEOREM ExecutedAtMostOnce == Spec => []AtMostOnce
<1>1. IInv => AtMostOnce
  BY DEF IInv, ExecutedInv, AtMostOnce
<1>. QED
  BY <1>1, Inductive, PTL

\* Data returned to a caller is the device's answer to that caller's own request.
THEOREM OwnAnswers == Spec => []AnswersAreOwn
<1>1. IInv => AnswersAreOwn
  BY DEF IInv, OutcomeInv, ExecutedInv, AnswersAreOwn
<1>. QED
  BY <1>1, Inductive, PTL

\* A request that ended as expired was never sent.
THEOREM ExpiredUnsent == Spec => []ExpiredMeansUnsent
<1>1. IInv => ExpiredMeansUnsent
  BY DEF IInv, OutcomeInv, ExecutedInv, ExpiredMeansUnsent
<1>. QED
  BY <1>1, Inductive, PTL

\* Between exchanges the counters of both ends agree, whatever was lost, delayed or
\* sent again, unless the device has dropped the session.
THEOREM StaysInStep == Spec => []LockStep
<1>1. IInv => LockStep
  BY InStep DEF IInv
<1>. QED
  BY <1>1, Inductive, PTL

\* Nothing is sent once the session is closed.
THEOREM SilentAfterClose == Spec => NoSendAfterClose
<1>1. ASSUME [Next]_vars, closed PROVE sent' = sent
  <2>1. ASSUME NEW t \in Tasks, Step(t) PROVE sent' = sent
    <3>1. CASE StartRequest(t) \/ ReceiveVerdict(t)
      BY <1>1, <3>1, SendEncryptedEffect DEF StartRequest, ReceiveVerdict
    <3>2. CASE StartHandshake(t) \/ ReceiveChallenge(t)
      BY <1>1, <3>2 DEF StartHandshake, ReceiveChallenge, Refused
    <3>3. CASE Retransmit(t) \/ Timeout(t) \/ ReceiveAnswer(t) \/ ReceiveUnpair(t)
      BY <3>3 DEF Retransmit, Timeout, ReceiveAnswer, ReceiveUnpair
    <3>. QED
      BY <2>1, <3>1, <3>2, <3>3 DEF Step
  <2>2. ASSUME NEW t \in Tasks, Cancel(t) \/ \E op \in Ops : Begin(t, op) PROVE sent' = sent
    BY <2>2 DEF Cancel, Begin
  <2>3. ASSUME NEW r \in replies, Deliver(r) PROVE sent' = sent
    BY <2>3 DEF Deliver
  <2>4. CASE Close
    BY <1>1, <2>4 DEF Close
  <2>5. ASSUME NEW p \in sent, DeviceHandle(p) \/ DeviceRefuse(p) PROVE sent' = sent
    BY <2>5 DEF DeviceHandle, DeviceRefuse, client
  <2>6. CASE DeviceRestart \/ UNCHANGED vars
    BY <2>6 DEF DeviceRestart, client, vars
  <2>. QED
    BY <1>1, <2>1, <2>2, <2>3, <2>4, <2>5, <2>6 DEF Next
<1>2. [Next]_vars => [closed => sent' = sent]_vars
  BY <1>1
<1>. QED
  BY <1>2, PTL DEF Spec, NoSendAfterClose

-----------------------------------------------------------------------------
(* The session implements SecureChannel.                                   *)

\* What the channel shows of the session.
Phase == IF Busy # {} THEN "busy" ELSE IF Usable THEN "ready" ELSE "down"
Current == IF Busy # {} THEN task[CHOOSE t \in Busy : TRUE].call ELSE NoCall
AskedCalls == {p.call : p \in Requests}
AnsweredCalls == {c \in Calls : outcome[c] = "ok"}

Viewed ==
  /\ \A t \in Tasks : task[t].at = "answer" => Phase = "busy" /\ Current = task[t].call
  /\ (\A t \in Tasks : task[t].at # "answer") =>
       Current = NoCall /\ Phase = IF Usable THEN "ready" ELSE "down"

\* The task that waits for an answer is the one request under way.
LEMMA ViewedBy == LockInv => Viewed
<1>. SUFFICES ASSUME LockInv PROVE Viewed
  OBVIOUS
<1>1. ASSUME NEW t \in Tasks, task[t].at = "answer"
      PROVE  Phase = "busy" /\ Current = task[t].call
  <2>1. Busy = {t}
    BY <1>1 DEF Busy, LockInv, Waiting, WaitPoints
  <2>2. (CHOOSE u \in Busy : TRUE) = t
    BY <2>1
  <2>. QED
    BY <2>1, <2>2 DEF Phase, Current
<1>2. ASSUME \A t \in Tasks : task[t].at # "answer"
      PROVE  Current = NoCall /\ Phase = IF Usable THEN "ready" ELSE "down"
  BY <1>2 DEF Busy, Phase, Current
<1>. QED
  BY <1>1, <1>2 DEF Viewed

\* A call that does not return an answer answers nothing; one that does answers itself.
LEMMA OverAnswers ==
  ASSUME TypeOK, CallInv, NEW t \in Tasks, NEW out \in Outcomes, Over(t, out)
  PROVE  AnsweredCalls' = IF out = "ok" /\ task[t].call # 0
                          THEN AnsweredCalls \cup {task[t].call} ELSE AnsweredCalls
<1>1. \A c \in Calls : outcome'[c] = IF c = task[t].call THEN out ELSE outcome[c]
  BY OverEffect
<1>2. task[t].call \in Calls \cup {0} /\ 0 \notin Calls
  BY DEF TypeOK, TaskType, Calls
<1>3. task[t].call # 0 => outcome[task[t].call] = "none"
  BY DEF CallInv
<1>. QED
  BY <1>1, <1>2, <1>3 DEF AnsweredCalls

\* What a step that makes no request leaves of the channel's history.
LEMMA NoneAsked == NoneMade => AskedCalls' = AskedCalls
  BY DEF NoneMade, AskedCalls

\* One that makes a request adds it.
LEMMA OneAsked ==
  ASSUME CallInv, TypeOK, NEW t \in Tasks, NEW c, Asked(t, c)
  PROVE  /\ task[t].call \in Calls
         /\ task[t].call \notin AskedCalls
         /\ AskedCalls' = AskedCalls \cup {task[t].call}
         /\ executed' = executed
         /\ AnsweredCalls' = AnsweredCalls
<1>1. PICK i \in MsgIds : Requests' = Requests \cup {Packet(t, c, i)}
  BY AskedMakesOne
<1>2. Packet(t, c, i).call = task[t].call
  BY DEF Packet
<1>3. task[t].at \in Unsent /\ task[t].call # 0
  BY DEF Asked, CallInv, Unsent
<1>4. executed' = executed /\ outcome' = outcome
  BY DEF Asked, Waits, Only, peer
<1>. QED
  BY <1>1, <1>2, <1>3, <1>4 DEF AskedCalls, AnsweredCalls, CallInv, TypeOK, TaskType

History == <<Phase, Current, AskedCalls, executed, AnsweredCalls>>

\* Every step of the session is one of the channel, or none.
LEMMA StepOfChannel ==
  ASSUME IInv, IInv', Shape
  PROVE  Channel!Next \/ UNCHANGED History
<1>. USE DEF IInv
<1>1. Viewed /\ Viewed'
  <2>1. LockInv' => Viewed'
    BY ViewedBy, PTL
  <2>. QED
    BY <2>1, ViewedBy
<1>2. /\ \A u \in Tasks : task[u].at = "answer" => lock = u /\ lock # None
      /\ \A u \in Tasks : task'[u].at = "answer" => lock' = u /\ lock' # None
  BY V3Assumption DEF V3Assumption, LockInv, Waiting, WaitPoints
<1>3. ASSUME AskedCalls' = AskedCalls, AnsweredCalls' = AnsweredCalls, executed' = executed,
             \A u \in Tasks : task'[u].at = "answer" <=> task[u].at = "answer",
             \A u \in Tasks : task[u].at = "answer" => task'[u].call = task[u].call,
             Usable' = Usable
      PROVE  UNCHANGED History
  <2>1. Phase' = Phase /\ Current' = Current
    <3>1. CASE \E u \in Tasks : task[u].at = "answer"
      BY <1>1, <1>3, <3>1 DEF Viewed
    <3>2. CASE \A u \in Tasks : task[u].at # "answer"
      BY <1>1, <1>3, <3>2 DEF Viewed
    <3>. QED
      BY <3>1, <3>2
  <2>. QED
    BY <1>3, <2>1 DEF History
<1>4. CASE Quiet
  <2>1. AskedCalls' = AskedCalls
    BY <1>4, QuietMakesNone, NoneAsked
  <2>2. AnsweredCalls' = AnsweredCalls /\ executed' = executed /\ Usable' = Usable
    BY <1>4 DEF Quiet, AnsweredCalls, Usable
  <2>. QED
    BY <1>3, <1>4, <2>1, <2>2 DEF Quiet
<1>5. ASSUME NEW t \in Tasks, Begun(t) \/ Dropped(t) PROVE UNCHANGED History
  <2>1. AskedCalls' = AskedCalls
    BY <1>5, NoneMadeBy, NoneAsked
  <2>2. executed' = executed /\ Usable' = Usable
    BY <1>5, ClientStep DEF Begun, Dropped, Usable, Only, peer
  <2>3. AnsweredCalls' = AnsweredCalls
    BY <1>5, OverAnswers DEF Begun, Dropped, AnsweredCalls, Outcomes
  <2>4. /\ task[t].at # "answer"
        /\ task'[t].at # "answer"
        /\ \A u \in Tasks \ {t} : task'[u] = task[u]
    BY <1>5 DEF Begun, Dropped, Over, Only, Idle
  <2>. QED
    BY <1>3, <2>1, <2>2, <2>3, <2>4
<1>6. ASSUME AskedCalls' = AskedCalls, AnsweredCalls' = AnsweredCalls, executed' = executed,
             broken' = TRUE, \A u \in Tasks : task'[u].at # "answer"
      PROVE  Channel!Break \/ UNCHANGED History
  <2>1. Phase' = "down" /\ Current' = NoCall
    BY <1>1, <1>6 DEF Viewed, Usable
  <2>2. CASE Phase = "down"
    <3>1. Current = NoCall
      BY <2>2 DEF Phase, Current
    <3>. QED
      BY <1>6, <2>1, <2>2, <3>1 DEF History
  <2>3. CASE Phase # "down"
    BY <1>6, <2>1, <2>3 DEF Channel!Break, Phase, Current, AskedCalls, AnsweredCalls
  <2>. QED
    BY <2>2, <2>3
<1>7. ASSUME NEW t \in Tasks, Broke(t) PROVE Channel!Break \/ UNCHANGED History
  <2>1. AskedCalls' = AskedCalls
    BY <1>7, NoneMadeBy, NoneAsked
  <2>2. executed' = executed /\ broken' = TRUE /\ lock' = None /\ Over(t, "failed")
    BY <1>7, ClientStep DEF Broke, Only, peer
  <2>3. AnsweredCalls' = AnsweredCalls
    BY <2>2, OverAnswers DEF Outcomes
  <2>. QED
    BY <1>2, <1>6, <2>1, <2>2, <2>3
<1>8. ASSUME NEW t \in Tasks, Answered(t) \/ Unpaired(t)
      PROVE  Channel!Next
  <2>1. task[t].at = "answer" /\ lock' = None
    BY <1>8 DEF Answered, Unpaired
  <2>2. task[t].call \in Calls
    BY <2>1 DEF AnswerInv, CallInv, TypeOK, TaskType
  <2>3. Over(t, "ok")
    BY <1>8, <2>1, DecryptedIsOwn DEF Answered, Unpaired
  <2>4. AnsweredCalls' = AnsweredCalls \cup {task[t].call}
    BY <2>2, <2>3, OverAnswers DEF Outcomes, Calls
  <2>5. executed[task[t].call] = 1
    <3>1. outcome'[task[t].call] = "ok"
      BY <2>2, <2>3, OverEffect DEF Outcomes
    <3>2. executed'[task[t].call] = 1
      BY <2>2, <3>1 DEF OutcomeInv, ExecutedInv
    <3>. QED
      BY <2>3, <3>2 DEF Over, Only, peer
  <2>6. AskedCalls' = AskedCalls
    BY <1>8, NoneMadeBy, NoneAsked
  <2>7. Phase = "busy" /\ Current = task[t].call
    BY <1>1, <2>1 DEF Viewed
  <2>8. Phase' \in {"ready", "down"} /\ Current' = NoCall
    BY <1>1, <1>2, <2>1 DEF Viewed
  <2>9. executed' = executed
    BY <2>3 DEF Over, Only, peer
  <2>10. PICK c \in Calls : c = task[t].call
    BY <2>2
  <2>11. Channel!Answer(c)
    BY <2>4, <2>5, <2>6, <2>7, <2>8, <2>9, <2>10
       DEF Channel!Answer, Phase, Current, AskedCalls, AnsweredCalls
  <2>. QED
    BY <2>11 DEF Channel!Next
<1>9. ASSUME NEW t \in Tasks, Authenticated(t) PROVE Channel!Open \/ UNCHANGED History
  <2>1. task[t].at = "verdict" /\ task[t].key # 0 /\ task[t].call = 0 /\ lock' = None
    BY <1>9 DEF Authenticated, KeyInv, CallInv, Handshaking
  <2>2. Usable'
    BY <1>9, <2>1 DEF Authenticated, Usable, Fresh
  <2>3. lock = t
    BY <2>1 DEF LockInv, Waiting, WaitPoints
  <2>4. \A u \in Tasks : task[u].at # "answer" /\ task'[u].at # "answer"
    BY <1>2, <2>1, <2>3
  <2>5. /\ Phase' = "ready" /\ Current' = NoCall
        /\ Phase = (IF Usable THEN "ready" ELSE "down") /\ Current = NoCall
    BY <1>1, <2>2, <2>4 DEF Viewed
  <2>6. AskedCalls' = AskedCalls
    BY <1>9, NoneMadeBy, NoneAsked
  <2>7. AnsweredCalls' = AnsweredCalls /\ executed' = executed
    BY <1>9, <2>1, OverAnswers DEF Authenticated, Over, Only, peer, Outcomes
  <2>8. CASE Phase = "ready"
    BY <2>5, <2>6, <2>7, <2>8 DEF History
  <2>9. CASE Phase = "down"
    BY <2>5, <2>6, <2>7, <2>9 DEF Channel!Open, Phase, Current, AskedCalls, AnsweredCalls
  <2>. QED
    BY <2>5, <2>8, <2>9
<1>10. ASSUME NEW t \in Tasks, Greeted(t) PROVE Channel!Break \/ UNCHANGED History
  <2>1. AskedCalls' = AskedCalls
    BY <1>10, NoneMadeBy, NoneAsked
  <2>2. AnsweredCalls' = AnsweredCalls /\ executed' = executed
    BY <1>10 DEF Greeted, Waits, Only, peer, AnsweredCalls
  <2>3. lock' = t /\ task'[t].at # "answer" /\ task[t].at # "answer"
    BY <1>10 DEF Greeted, Waits
  <2>4. \A u \in Tasks : task'[u].at # "answer"
    BY <1>2, <2>3
  <2>5. CASE broken' = TRUE
    BY <1>6, <2>1, <2>2, <2>4, <2>5
  <2>6. CASE cipher' = cipher /\ broken' = broken
    <3>1. \A u \in Tasks : task[u].at # "answer"
      BY <1>10, <2>3, <2>4 DEF Greeted, Waits, Only
    <3>2. Usable' = Usable
      BY <2>6 DEF Usable
    <3>. QED
      BY <1>3, <2>1, <2>2, <2>4, <3>1, <3>2
  <2>. QED
    BY <1>10, <2>5, <2>6 DEF Greeted
<1>11. ASSUME NEW t \in Tasks, NEW c, Asked(t, c)
       PROVE  Channel!Next
  <2>1. /\ task[t].call \in Calls
        /\ task[t].call \notin AskedCalls
        /\ AskedCalls' = AskedCalls \cup {task[t].call}
        /\ executed' = executed
        /\ AnsweredCalls' = AnsweredCalls
    BY <1>11, OneAsked
  <2>2. task[t].at # "answer" /\ task'[t].at = "answer" /\ task'[t].call = task[t].call
    BY <1>11 DEF Asked, Waits
  <2>3. Phase' = "busy" /\ Current' = task[t].call
    BY <1>1, <2>2 DEF Viewed
  <2>4. \A u \in Tasks : task[u].at # "answer"
    BY <1>2, <1>11, <2>2 DEF Asked, Waits, Only
  <2>5. Phase \in {"ready", "down"}
    BY <1>1, <2>4 DEF Viewed
  <2>6. PICK d \in Calls : d = task[t].call
    BY <2>1
  <2>7. CASE Phase = "ready"
    <3>1. Channel!Ask(d)
      BY <2>1, <2>3, <2>6, <2>7 DEF Channel!Ask, Phase, Current, AskedCalls, AnsweredCalls
    <3>. QED
      BY <3>1 DEF Channel!Next
  <2>8. CASE Phase = "down"
    <3>1. Channel!OpenAndAsk(d)
      BY <2>1, <2>3, <2>6, <2>8 DEF Channel!OpenAndAsk, Phase, Current, AskedCalls, AnsweredCalls
    <3>. QED
      BY <3>1 DEF Channel!Next
  <2>. QED
    BY <2>5, <2>7, <2>8
<1>12. ASSUME NEW p \in sent, Handled(p)
       PROVE  Channel!Next \/ UNCHANGED History
  <2>1. AskedCalls' = AskedCalls
    BY <1>12, HandledMakesNone, NoneAsked
  <2>2. AnsweredCalls' = AnsweredCalls /\ Usable' = Usable /\ task' = task
    BY <1>12 DEF Handled, client, AnsweredCalls, Usable
  <2>3. Phase' = Phase /\ Current' = Current
    BY <2>2 DEF Phase, Current, Busy
  <2>4. CASE executed' = executed
    BY <2>1, <2>2, <2>3, <2>4 DEF History
  <2>5. CASE p.kind \in Encrypted /\ executed' = [executed EXCEPT ![p.call] = @ + 1]
    <3>1. p \in Requests /\ p.call \in Calls /\ p.call \in AskedCalls
      BY <2>5, V3Assumption DEF V3Assumption, Requests, CallInv, AskedCalls, Calls, TypeOK
    <3>2. \A q \in Requests \cap seen : q.call # p.call
      BY <1>12, <3>1 DEF Handled, CallInv
    <3>3. executed[p.call] = 0
      BY <3>1, <3>2 DEF ExecutedInv
    <3>4. executed' = [executed EXCEPT ![p.call] = 1]
      BY <2>5, <3>3
    <3>5. Channel!Execute(p.call)
      BY <2>1, <2>2, <2>3, <3>1, <3>3, <3>4
         DEF Channel!Execute, Phase, Current, AskedCalls, AnsweredCalls
    <3>. QED
      BY <3>1, <3>5 DEF Channel!Next
  <2>. QED
    BY <1>12, <2>4, <2>5 DEF Handled
<1>13. Channel!Open \/ Channel!Break => Channel!Next
  BY DEF Channel!Next
<1>. HIDE DEF IInv
<1>14. ASSUME NEW t \in Tasks, Broke(t) \/ Authenticated(t) \/ Greeted(t)
       PROVE  Channel!Next \/ UNCHANGED History
  BY <1>7, <1>9, <1>10, <1>13, <1>14
<1>. QED
  BY <1>4, <1>5, <1>8, <1>11, <1>12, <1>14 DEF Shape

\* The session keeps the promise of SecureChannel: whatever the network, the device and
\* the callers do, its steps are an opening, a request, its one execution, its answer or
\* a break of the channel, or nothing the channel shows.
THEOREM ImplementsChannel == Spec => ChannelSpec
<1>1. Init => Channel!Init
  BY DEF Init, Channel!Init, Busy, Usable, NoCipher, Requests, NoCall, Idle, NoReply
<1>2. IInv /\ IInv' /\ [Next]_vars => [Channel!Next]_Channel!cvars
  <2>. SUFFICES ASSUME IInv, IInv', [Next]_vars
                PROVE  Channel!Next \/ UNCHANGED Channel!cvars
    OBVIOUS
  <2>1. Shape
    BY StepShape DEF IInv
  <2>2. Channel!Next \/ UNCHANGED History
    BY <2>1, StepOfChannel
  <2>. QED
    BY <2>2 DEF History, Channel!cvars, Phase, Current, AskedCalls, AnsweredCalls
<1>. QED
  BY <1>1, <1>2, Inductive, PTL DEF Spec, ChannelSpec, Channel!Spec
=============================================================================
