--------------------------- MODULE LegacySession ---------------------------
(***************************************************************************)
(* LtpduSession of nl_ltpdu.py once it is connected and authenticated: the *)
(* coroutines of Home Assistant share one AES-CTR cipher, a lock and a     *)
(* CoAP context; reauth makes a new context and cipher with a key exchange *)
(* outside the lock and swaps them in under it.                            *)
(*                                                                         *)
(* A key exchange, its CoAP context and its cipher object have one number, *)
(* a key.  The keystream position counts messages: a request and its reply *)
(* take one each.  aiocoap matches a reply to its request by token, so a   *)
(* reply is kept with the task that waits for it; a request may reach the  *)
(* device after its task has given up, and may never reach it.             *)
(***************************************************************************)
EXTENDS Naturals, FiniteSets

CONSTANTS
  Tasks,        \* coroutines that share the session object
  KexRetries,   \* further key exchanges after a busy reply (2 in the code)
  MaxCalls,     \* bound: requests made on the session
  MaxKeys,      \* bound: key exchanges, the first of connect() included
  None

ASSUME LegacyAssumption ==
  /\ KexRetries \in Nat
  /\ MaxCalls \in Nat
  /\ MaxKeys \in Nat \ {0}
  /\ None \notin Tasks
  /\ IsFiniteSet(Tasks)

Calls == 1..MaxCalls
Keys == 1..MaxKeys

VARIABLES
  lock,       \* _lock: the task that holds it
  task,       \* what each coroutine is doing
  current,    \* _coap and _cipher: the key in use
  position,   \* keystream position of each cipher object
  corrupted,  \* _cipher_corrupted
  contexts,   \* CoAP contexts that are not shut down
  keys,       \* key exchanges so far
  calls,      \* requests made so far
  outcome,    \* how each request ended for its caller
  sent,       \* messages on their way to the device
  reply,      \* the device's reply to the message a task waits on
  orphans,    \* contexts a cancelled reauth has left behind
  device,     \* the device's session under each key
  executed    \* how often the device carried out each request

client == <<lock, task, current, position, corrupted, contexts, keys, calls, outcome,
            orphans>>
peer == <<device, executed>>
vars == <<client, sent, reply, peer>>

NoReply == [kind |-> "none", pos |-> 0]
Idle == [at |-> "idle", call |-> 0, key |-> 0, old |-> 0, pos |-> 0, tries |-> 0]
Offline == [on |-> FALSE, authed |-> FALSE, pos |-> 0]

\* Where a task waits for the device, and where it waits holding the lock.
WaitPoints == {"kex", "auth", "answer"}
LockPoints == {"auth", "restore", "answer"}
Waiting(t) == task[t].at \in WaitPoints
Closed == contexts = {}

\* connect() and auth() have succeeded.
Init ==
  /\ lock = None
  /\ task = [t \in Tasks |-> Idle]
  /\ current = 1
  /\ position = [k \in Keys |-> IF k = 1 THEN 2 ELSE 0]
  /\ corrupted = FALSE
  /\ contexts = {1}
  /\ keys = 1
  /\ calls = 0
  /\ outcome = [c \in Calls |-> "none"]
  /\ sent = {}
  /\ reply = [t \in Tasks |-> NoReply]
  /\ orphans = {}
  /\ device = [k \in Keys |-> IF k = 1 THEN [on |-> TRUE, authed |-> TRUE, pos |-> 2]
                              ELSE Offline]
  /\ executed = [c \in Calls |-> 0]

-----------------------------------------------------------------------------
(* Decisions of the code that the actions share.                           *)

\* A request that times out marks the cipher; every other way out leaves it.
TimeoutOutcome_Expired == "expired"
TimeoutOutcome == "failed"

\* reauth reads the state it must put back after it has the lock, not before.
Previous_AtStart(t) == task[t].old
Previous(t) == current

\* kex: `finally: if owns_context: await coap_ctx.shutdown()`.
KexCleanup_None(t) == contexts
KexCleanup(t) == contexts \ {task[t].key}

\* A busy reply is retried while retries are left.
MayRetry_Always(t) == TRUE
MayRetry(t) == task[t].tries > 0

\* `async with self._lock` around the exchange.
Free_Always(t) == lock \in Tasks \cup {None}
Free(t) == lock = None

\* The call ends for its caller.
Finish(t, out) ==
  /\ task' = [task EXCEPT ![t] = Idle]
  /\ reply' = [reply EXCEPT ![t] = NoReply]
  /\ outcome' = IF task[t].call = 0 THEN outcome
                ELSE [outcome EXCEPT ![task[t].call] = out]

Return(t, out) ==
  /\ lock' = None
  /\ Finish(t, out)

\* Encrypt under key k and send: the position advances before anything is sent.
Transmit(k, kind, call) ==
  /\ position' = [position EXCEPT ![k] = @ + 1]
  /\ sent' = sent \cup {[kind |-> kind, key |-> k, pos |-> position[k], call |-> call]}

-----------------------------------------------------------------------------
(* send_ltpdu and get_ltpdu.                                               *)

Begin(t) ==
  /\ task[t].at = "idle"
  /\ calls < MaxCalls
  /\ calls' = calls + 1
  /\ task' = [task EXCEPT ![t] = [Idle EXCEPT !.at = "lock", !.call = calls + 1]]
  /\ UNCHANGED <<lock, current, position, corrupted, contexts, keys, outcome, sent,
                 reply, orphans, peer>>

\* A context that was shut down raises after the payload has been encrypted.
Send(t) ==
  /\ Free(t)
  /\ task[t].at = "lock"
  /\ IF corrupted
     THEN /\ Finish(t, "failed")
          /\ UNCHANGED <<lock, position, sent>>
     ELSE IF current \notin contexts
     THEN /\ Finish(t, "failed")
          /\ position' = [position EXCEPT ![current] = @ + 1]
          /\ UNCHANGED <<lock, sent>>
     ELSE /\ lock' = t
          /\ Transmit(current, "request", task[t].call)
          /\ task' = [task EXCEPT ![t].at = "answer", ![t].key = current,
                                  ![t].pos = position[current]]
          /\ UNCHANGED <<reply, outcome>>
  /\ UNCHANGED <<current, corrupted, contexts, keys, calls, orphans, peer>>

\* A plaintext 0x01F1 is recognised; anything else is decrypted wherever the
\* cipher stands. A CoAP error code is raised without decrypting.
ReceiveAnswer(t) ==
  LET r == reply[t] IN
  /\ task[t].at = "answer"
  /\ r.kind # "none"
  /\ position' = IF r.kind = "data" THEN [position EXCEPT ![current] = @ + 1] ELSE position
  /\ Return(t, CASE r.kind = "error" -> "failed"
                 [] r.kind = "expired" -> "expired"
                 [] r.kind = "data" -> IF task[t].key = current /\ r.pos = position[current]
                                       THEN "ok" ELSE "garbage")
  /\ UNCHANGED <<current, corrupted, contexts, keys, calls, sent, orphans, peer>>

\* wait_for expires: the cipher is out of step for good.
TimeoutAnswer(t) ==
  /\ task[t].at = "answer"
  /\ corrupted' = TRUE
  /\ Return(t, TimeoutOutcome)
  /\ UNCHANGED <<current, position, contexts, keys, calls, sent, orphans, peer>>

\* The context is shut down under the waiting request: aiocoap fails it.
ContextGone(t) ==
  /\ task[t].at = "answer"
  /\ task[t].key \notin contexts
  /\ Return(t, "failed")
  /\ UNCHANGED <<current, position, corrupted, contexts, keys, calls, sent, orphans, peer>>

\* CancelledError passes every handler of send_ltpdu and get_ltpdu.
CancelRequest(t) ==
  /\ task[t].at \in {"lock", "answer"}
  /\ Finish(t, "failed")
  /\ lock' = IF lock = t THEN None ELSE lock
  /\ UNCHANGED <<current, position, corrupted, contexts, keys, calls, sent, orphans, peer>>

-----------------------------------------------------------------------------
(* reauth.                                                                 *)

\* Bound: a key is left, those that a busy reply has promised to a retry apart.
KeyLeft ==
  keys + Cardinality({t \in Tasks : reply[t].kind = "busy" /\ task[t].tries > 0}) < MaxKeys

\* kex creates a context and posts the public key.
Kex(t, k, tries) ==
  /\ sent' = sent \cup {[kind |-> "kex", key |-> k, pos |-> 0, call |-> 0]}
  /\ task' = [task EXCEPT ![t] = [Idle EXCEPT !.at = "kex", !.key = k, !.old = current,
                                              !.tries = tries]]
  /\ keys' = k

BeginReauth(t) ==
  /\ task[t].at = "idle"
  /\ KeyLeft
  /\ Kex(t, keys + 1, KexRetries)
  /\ contexts' = contexts \cup {keys + 1}
  /\ UNCHANGED <<lock, current, position, corrupted, calls, outcome, reply, orphans, peer>>

\* The device's public key, or "busy": shut down, and try again if allowed.
ReceiveKex(t) ==
  /\ task[t].at = "kex"
  /\ reply[t].kind # "none"
  /\ \/ /\ reply[t].kind = "data"
        /\ task' = [task EXCEPT ![t].at = "relock"]
        /\ reply' = [reply EXCEPT ![t] = NoReply]
        /\ UNCHANGED <<contexts, keys, sent, outcome>>
     \/ /\ reply[t].kind = "busy"
        /\ MayRetry(t)
        /\ Kex(t, keys + 1, task[t].tries - 1)
        /\ contexts' = KexCleanup(t) \cup {keys + 1}
        /\ reply' = [reply EXCEPT ![t] = NoReply]
        /\ UNCHANGED outcome
     \/ /\ reply[t].kind = "error" \/ (reply[t].kind = "busy" /\ ~MayRetry(t))
        /\ contexts' = KexCleanup(t)
        /\ Finish(t, "failed")
        /\ UNCHANGED <<keys, sent>>
  /\ UNCHANGED <<lock, current, position, corrupted, calls, orphans, peer>>

\* A timeout or a cancellation of the key exchange shuts its context down.
AbandonKex(t) ==
  /\ task[t].at = "kex"
  /\ contexts' = KexCleanup(t)
  /\ Finish(t, "failed")
  /\ UNCHANGED <<lock, current, position, corrupted, keys, calls, sent, orphans, peer>>

\* With the lock: remember the old pair, install the new one, send the token.
Swap(t) ==
  /\ Free(t)
  /\ task[t].at = "relock"
  /\ lock' = t
  /\ current' = task[t].key
  /\ Transmit(task[t].key, "auth", 0)
  /\ task' = [task EXCEPT ![t].at = "auth", ![t].old = Previous(t), ![t].pos = position[task[t].key]]
  /\ UNCHANGED <<corrupted, contexts, keys, calls, outcome, reply, orphans, peer>>

\* Accepted: the lock is released and the old context shut down outside it.
ReceiveAuth(t) ==
  /\ task[t].at = "auth"
  /\ reply[t].kind = "data"
  /\ lock' = None
  /\ position' = [position EXCEPT ![task[t].key] = @ + 1]
  /\ task' = [task EXCEPT ![t].at = "retire"]
  /\ reply' = [reply EXCEPT ![t] = NoReply]
  /\ UNCHANGED <<current, corrupted, contexts, keys, calls, outcome, sent, orphans, peer>>

\* Rejected, failed, timed out, or its context closed: put the old pair back.
FailAuth(t) ==
  /\ task[t].at = "auth"
  /\ current' = task[t].old
  /\ task' = [task EXCEPT ![t].at = "restore"]
  /\ reply' = [reply EXCEPT ![t] = NoReply]
  /\ UNCHANGED <<lock, position, corrupted, contexts, keys, calls, outcome, sent, orphans,
                 peer>>

\* The two awaited shutdowns: of the new context after a failure, with the
\* lock held, and of the old one after a success.
DiscardNew(t) ==
  /\ task[t].at = "restore"
  /\ contexts' = contexts \ {task[t].key}
  /\ Return(t, "failed")
  /\ UNCHANGED <<current, position, corrupted, keys, calls, sent, orphans, peer>>

RetireOld(t) ==
  /\ task[t].at = "retire"
  /\ contexts' = contexts \ {task[t].old}
  /\ Finish(t, "ok")
  /\ UNCHANGED <<lock, current, position, corrupted, keys, calls, sent, orphans, peer>>

\* CancelledError is no Exception: nothing is put back and nothing is shut down.
CancelReauth(t) ==
  /\ task[t].at \in {"relock", "auth", "restore", "retire"}
  /\ orphans' = orphans \cup {IF task[t].at \in {"relock", "restore"}
                              THEN task[t].key ELSE task[t].old}
  /\ Finish(t, "failed")
  /\ lock' = IF lock = t THEN None ELSE lock
  /\ UNCHANGED <<current, position, corrupted, contexts, keys, calls, sent, peer>>

\* close() shuts down the context in use at that moment.
Close ==
  /\ current \in contexts
  /\ contexts' = contexts \ {current}
  /\ UNCHANGED <<lock, task, current, position, corrupted, keys, calls, outcome, sent,
                 reply, orphans, peer>>

-----------------------------------------------------------------------------
(* The device.                                                             *)

\* A reply reaches the task that waits for it, or nobody.
Answer(p, kind, pos) ==
  reply' = [t \in Tasks |-> IF Waiting(t) /\ task[t].key = p.key /\ task[t].pos = p.pos
                            THEN [kind |-> kind, pos |-> pos] ELSE reply[t]]

\* A key exchange: a fresh session, or "busy" while the bound allows a retry.
DeviceKex(p) ==
  /\ p.kind = "kex"
  /\ \/ /\ device' = [device EXCEPT ![p.key] = [on |-> TRUE, authed |-> FALSE, pos |-> 0]]
        /\ Answer(p, "data", 0)
     \/ /\ \A t \in Tasks : task[t].key = p.key /\ task[t].tries > 0 => KeyLeft
        /\ Answer(p, "busy", 0)
        /\ UNCHANGED device
  /\ UNCHANGED executed

InStep(p) == device[p.key].on /\ device[p.key].pos = p.pos

DeviceAuth(p) ==
  /\ p.kind = "auth"
  /\ InStep(p)
  /\ device' = [device EXCEPT ![p.key].authed = TRUE, ![p.key].pos = @ + 2]
  /\ Answer(p, "data", p.pos + 1)
  /\ UNCHANGED executed

\* An authenticated request it can read is carried out and answered.
DeviceExecute(p) ==
  /\ p.kind = "request"
  /\ InStep(p)
  /\ device[p.key].authed
  /\ device' = [device EXCEPT ![p.key].pos = @ + 2]
  /\ executed' = [executed EXCEPT ![p.call] = @ + 1]
  /\ Answer(p, "data", p.pos + 1)

\* A message it cannot read resets its cipher and is answered in plaintext; so is
\* any message after an idle timeout or a power loss, and a token it refuses.
DeviceReset(p) ==
  /\ p.kind # "kex"
  /\ device' = [device EXCEPT ![p.key] = Offline]
  /\ Answer(p, "expired", 0)
  /\ UNCHANGED executed

\* A CoAP error code, before or after it has deciphered the payload.
DeviceError(p) ==
  /\ \/ UNCHANGED device
     \/ /\ p.kind # "kex"
        /\ InStep(p)
        /\ device' = [device EXCEPT ![p.key].pos = @ + 1]
  /\ Answer(p, "error", 0)
  /\ UNCHANGED executed

DeviceHandle(p) ==
  /\ sent' = sent \ {p}
  /\ \/ DeviceKex(p) \/ DeviceAuth(p) \/ DeviceExecute(p)
     \/ DeviceReset(p) \/ DeviceError(p)
  /\ UNCHANGED client

-----------------------------------------------------------------------------

\* What the event loop runs; every wait has a timeout.
Step(t) ==
  \/ Send(t) \/ ReceiveAnswer(t) \/ TimeoutAnswer(t) \/ ContextGone(t)
  \/ ReceiveKex(t) \/ AbandonKex(t) \/ Swap(t) \/ ReceiveAuth(t) \/ FailAuth(t)
  \/ DiscardNew(t) \/ RetireOld(t)

Next ==
  \/ \E t \in Tasks : \/ Step(t) \/ Begin(t) \/ CancelRequest(t)
                      \/ BeginReauth(t) \/ CancelReauth(t)
  \/ Close
  \/ \E p \in sent : DeviceHandle(p)

Spec == Init /\ [][Next]_vars

-----------------------------------------------------------------------------
(* Properties.                                                             *)

TypeOK ==
  /\ lock \in Tasks \cup {None}
  /\ task \in [Tasks -> [at : WaitPoints \cup {"idle", "lock", "relock", "restore", "retire"},
                         call : Calls \cup {0}, key : Keys \cup {0}, old : Keys \cup {0},
                         pos : Nat, tries : 0..KexRetries]]
  /\ current \in Keys
  /\ position \in [Keys -> Nat]
  /\ corrupted \in BOOLEAN
  /\ contexts \subseteq Keys
  /\ orphans \subseteq Keys
  /\ keys \in Keys
  /\ calls \in 0..MaxCalls
  /\ outcome \in [Calls -> {"none", "ok", "garbage", "expired", "failed"}]
  /\ sent \subseteq [kind : {"request", "kex", "auth"}, key : Keys, pos : Nat,
                     call : Calls \cup {0}]
  /\ reply \in [Tasks -> [kind : {"none", "data", "busy", "expired", "error"}, pos : Nat]]
  /\ device \in [Keys -> [on : BOOLEAN, authed : BOOLEAN, pos : Nat]]
  /\ executed \in [Calls -> Nat]

\* The tasks in the middle of an exchange on the shared cipher.
InExchange == {t \in Tasks : task[t].at \in LockPoints}

\* CTR has no integrity check: a reply deciphered out of step would be handed to
\* the caller as data. No interleaving of requests, reauths, timeouts and cancels
\* lets that happen, and what is returned was carried out exactly once (the
\* lock-step rule of the class docstring).
AnswersInStep ==
  /\ Cardinality(InExchange) <= 1
  /\ \A c \in Calls : /\ outcome[c] # "garbage"
                      /\ outcome[c] = "ok" => executed[c] = 1

\* SessionExpiredError means the device has not carried the request out and never
\* will: the coordinator may reauthenticate and send it again.
ExpiredMeansUnexecuted ==
  \A c \in Calls : outcome[c] = "expired" => executed[c] = 0

\* Every open CoAP context is the session's own, or in the hands of a reauth under
\* way, or was left by a cancelled reauth: overlapping reauths, busy key exchanges
\* and failed ones lose none (kex's owns_context, reauth's two shutdowns).
Holds(t, k) ==
  \/ k = task[t].key /\ task[t].at \in {"kex", "relock", "auth", "restore"}
  \/ k = task[t].old /\ task[t].at \in {"auth", "retire"}
ContextsAccounted ==
  \A k \in contexts : k = current \/ k \in orphans \/ \E t \in Tasks : Holds(t, k)

\* No reauth shuts down the context the session uses, or puts back one that
\* another reauth has replaced and is shutting down.
CurrentNotRetired ==
  \A t \in Tasks : /\ task[t].at = "retire" => task[t].old # current
                   /\ task[t].at = "restore" => task[t].key # current

\* reauth's docstring: the lock is held "so no other coroutine can send with the
\* new cipher before auth completes". The token exchange takes the first two
\* positions of a key, so no request may be sent at them. Refuted: a cancelled
\* reauth leaves its cipher in place without an authentication.
RequestsFollowAuth == \A p \in sent : p.kind = "request" => p.pos >= 2
=============================================================================
