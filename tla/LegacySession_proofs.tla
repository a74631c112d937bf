------------------------ MODULE LegacySession_proofs ------------------------
(***************************************************************************)
(* Proofs about LegacySession, for any number of coroutines, busy replies, *)
(* requests and key exchanges.                                             *)
(***************************************************************************)
EXTENDS LegacySession, FiniteSetTheorems, TLAPS

-----------------------------------------------------------------------------
(* The inductive invariant: which key, position and call each message and  *)
(* each wait belongs to.                                                   *)

Requests == {p \in sent : p.kind = "request"}

\* Who is in an exchange on the cipher holds the lock.
LockInv == \A t \in Tasks : task[t].at \in LockPoints => lock = t

\* A reply is kept only for a task that waits, and a key is left for each busy one.
Busy == {t \in Tasks : reply[t].kind = "busy" /\ task[t].tries > 0}
RestInv ==
  /\ \A t \in Tasks : ~Waiting(t) => reply[t] = NoReply
  /\ keys + Cardinality(Busy) <= MaxKeys

\* Each request under way has a call of its own, which has not ended.
CallInv ==
  /\ \A t \in Tasks : task[t].at \in {"lock", "answer"} => task[t].call \in 1..calls
  /\ \A t \in Tasks : task[t].at \notin {"lock", "answer"} => task[t].call = 0
  /\ \A t, u \in Tasks : task[t].call = task[u].call /\ task[t].call # 0 => t = u
  /\ \A t \in Tasks : task[t].call # 0 => outcome[task[t].call] = "none"
  /\ \A c \in Calls : c > calls => outcome[c] = "none" /\ executed[c] = 0

\* A request on its way has not been carried out, and is the only one of its call.
SentInv ==
  /\ \A p \in Requests : p.call \in 1..calls /\ executed[p.call] = 0
  /\ \A p, q \in Requests : p.call = q.call => p = q
  /\ \A t \in Tasks : task[t].at = "lock" =>
       executed[task[t].call] = 0 /\ \A p \in Requests : p.call # task[t].call

\* A new key has never been in use; the one put back was, and is in no other hands.
Fresh(k) == \A t \in Tasks : task[t].at \in {"auth", "retire"} => k # task[t].old
KeyInv ==
  /\ current <= keys
  /\ \A t \in Tasks : task[t].key <= keys /\ task[t].old <= keys
  /\ \A t \in Tasks : task[t].at \in {"kex", "relock"} =>
       /\ task[t].key \in Keys /\ task[t].key # current /\ Fresh(task[t].key)
       /\ \A u \in Tasks : u # t /\ task[u].at \in {"kex", "relock"} => task[u].key # task[t].key
  /\ \A t \in Tasks : task[t].at = "auth" =>
       /\ task[t].key = current /\ task[t].old \in Keys /\ task[t].old # current
       /\ \A u \in Tasks : task[u].at = "retire" => task[u].old # task[t].old
  /\ \A t \in Tasks : task[t].at = "restore" => task[t].key \in Keys /\ task[t].key # current
  /\ \A t \in Tasks : task[t].at = "retire" => task[t].old \in Keys /\ task[t].old # current

\* Positions: a key that is not in use yet stands at 0, the token exchange takes the
\* first one, and what is on its way is behind the cipher.
PositionInv ==
  /\ position[current] > 0
  /\ \A k \in Keys : k > keys => position[k] = 0
  /\ \A t \in Tasks : task[t].at \in {"kex", "relock"} => position[task[t].key] = 0
  /\ \A t \in Tasks : task[t].at = "auth" => position[task[t].old] > 0
  /\ \A t \in Tasks : task[t].at = "answer" =>
       task[t].key = current /\ task[t].pos > 0 /\ task[t].pos + 1 = position[current]
  /\ \A p \in sent : p.kind = "kex" =>
       /\ p.pos = 0 /\ p.call = 0 /\ p.key <= keys /\ position[p.key] = 0
       /\ \A t \in Tasks : task[t].at = "relock" => task[t].key # p.key
  /\ \A p \in sent : p.kind = "auth" => p.pos = 0 /\ position[p.key] > 0
  /\ \A p \in Requests : p.pos > 0 /\ p.pos < position[p.key]

\* The message a task waits on and its reply.
Own(t, p) == p.key = task[t].key /\ p.pos = task[t].pos
ReplyInv ==
  /\ \A t \in Tasks, p \in Requests : task[t].at = "answer" =>
       (Own(t, p) <=> p.call = task[t].call)
  /\ \A t \in Tasks : task[t].at = "answer" /\ reply[t].kind = "data" =>
       /\ reply[t].pos = task[t].pos + 1
       /\ executed[task[t].call] = 1
       /\ \A p \in Requests : p.call # task[t].call
  /\ \A t \in Tasks : task[t].at = "answer" /\ reply[t].kind = "expired" =>
       /\ executed[task[t].call] = 0
       /\ \A p \in Requests : p.call # task[t].call
  /\ \A t \in Tasks : task[t].at = "answer" => reply[t].kind # "busy"
  /\ \A t \in Tasks : task[t].at = "kex" /\ reply[t].kind # "none" =>
       \A p \in sent : p.kind = "kex" => p.key # task[t].key

\* How calls have ended.
OutcomeInv ==
  \A c \in Calls :
    /\ outcome[c] # "garbage"
    /\ outcome[c] = "ok" => executed[c] = 1 /\ \A p \in Requests : p.call # c
    /\ outcome[c] = "expired" => executed[c] = 0 /\ \A p \in Requests : p.call # c

IInv ==
  /\ TypeOK
  /\ LockInv
  /\ RestInv
  /\ CallInv
  /\ SentInv
  /\ KeyInv
  /\ PositionInv
  /\ ReplyInv
  /\ OutcomeInv
  /\ ContextsAccounted

-----------------------------------------------------------------------------
(* What the shared operators do to well-typed states.                      *)

Points == WaitPoints \cup {"idle", "lock", "relock", "restore", "retire"}
TaskType == [at : Points, call : Calls \cup {0}, key : Keys \cup {0}, old : Keys \cup {0},
             pos : Nat, tries : 0..KexRetries]
ReplyType == [kind : {"none", "data", "busy", "expired", "error"}, pos : Nat]
Outcomes == {"none", "ok", "garbage", "expired", "failed"}
SentType == [kind : {"request", "kex", "auth"}, key : Keys, pos : Nat, call : Calls \cup {0}]
DeviceType == [on : BOOLEAN, authed : BOOLEAN, pos : Nat]

\* TypeOK with the types by name.
LEMMA Types ==
  TypeOK <=> /\ lock \in Tasks \cup {None}
             /\ task \in [Tasks -> TaskType]
             /\ current \in Keys
             /\ position \in [Keys -> Nat]
             /\ corrupted \in BOOLEAN
             /\ contexts \subseteq Keys
             /\ orphans \subseteq Keys
             /\ keys \in Keys
             /\ calls \in 0..MaxCalls
             /\ outcome \in [Calls -> Outcomes]
             /\ sent \subseteq SentType
             /\ reply \in [Tasks -> ReplyType]
             /\ device \in [Keys -> DeviceType]
             /\ executed \in [Calls -> Nat]
  BY DEF TypeOK, TaskType, Points, ReplyType, Outcomes, SentType, DeviceType

\* What a task, a reply and a device's session begin as are of their types.
LEMMA IdleType == Idle \in TaskType /\ NoReply \in ReplyType /\ Offline \in DeviceType
  BY LegacyAssumption
     DEF LegacyAssumption, Idle, NoReply, Offline, TaskType, Points, ReplyType, DeviceType, WaitPoints

\* A call that ends leaves an idle task, no reply and its outcome.
LEMMA FinishEffect ==
  ASSUME TypeOK, NEW t \in Tasks, NEW out \in Outcomes, Finish(t, out)
  PROVE  /\ task' \in [Tasks -> TaskType]
         /\ reply' \in [Tasks -> ReplyType]
         /\ outcome' \in [Calls -> Outcomes]
         /\ task'[t] = Idle /\ reply'[t] = NoReply
         /\ \A u \in Tasks : u # t => task'[u] = task[u] /\ reply'[u] = reply[u]
         /\ \A c \in Calls : outcome'[c] = IF c = task[t].call THEN out ELSE outcome[c]
<1>1. /\ task \in [Tasks -> TaskType] /\ reply \in [Tasks -> ReplyType]
      /\ outcome \in [Calls -> Outcomes] /\ task[t].call \in Calls \cup {0}
  BY Types DEF TaskType
<1>2. 0 \notin Calls
  BY DEF Calls
<1>. QED
  BY <1>1, <1>2, IdleType DEF Finish


-----------------------------------------------------------------------------
(* What the actions do, by kind.                                           *)

\* The fields of a task are of their types.
LEMMA Typed ==
  ASSUME TypeOK, NEW t \in Tasks
  PROVE  /\ task[t] \in TaskType /\ reply[t] \in ReplyType
         /\ task[t].at \in Points /\ task[t].call \in Calls \cup {0}
         /\ task[t].key \in Keys \cup {0} /\ task[t].old \in Keys \cup {0}
         /\ task[t].pos \in Nat /\ task[t].tries \in 0..KexRetries
         /\ t # None
<1>1. task[t] \in TaskType /\ reply[t] \in ReplyType
  BY Types
<1>. QED
  BY <1>1, LegacyAssumption DEF TaskType, LegacyAssumption

\* So are the fields of a message on its way.
LEMMA TypedMessage ==
  ASSUME TypeOK, NEW p \in sent
  PROVE  /\ p \in SentType /\ p.kind \in {"request", "kex", "auth"} /\ p.key \in Keys
         /\ p.pos \in Nat /\ p.call \in Calls \cup {0}
<1>1. p \in SentType
  BY Types
<1>. QED
  BY <1>1 DEF SentType

\* There are finitely many busy replies, so that they can be counted.
LEMMA BusyFinite == IsFiniteSet(Busy) /\ Cardinality(Busy) \in Nat
<1>1. Busy \subseteq Tasks /\ IsFiniteSet(Tasks)
  BY LegacyAssumption DEF Busy, LegacyAssumption
<1>. QED
  BY <1>1, FS_Subset, FS_CardinalityType

\* A call or a reauth ends, with what its caller is told.
Earned(t, out) ==
  task[t].call # 0 =>
    \/ out = "failed"
    \/ task[t].at = "answer" /\ out = "ok" /\ reply[t].kind = "data"
    \/ task[t].at = "answer" /\ out = "expired" /\ reply[t].kind = "expired"
Ends(t, out) ==
  /\ Finish(t, out)
  /\ Earned(t, out)
  /\ contexts' \subseteq contexts
  /\ orphans \subseteq orphans' /\ orphans' \subseteq Keys
  /\ \A k \in contexts' : Holds(t, k) => k = current \/ k \in orphans'
  /\ corrupted' \in BOOLEAN
  /\ lock' = lock \/ (lock' = None /\ lock \in {t, None})
  /\ \/ position' = position
     \/ /\ position' = [position EXCEPT ![current] = @ + 1]
        /\ \A u \in Tasks : u # t => task[u].at \notin LockPoints
  /\ UNCHANGED <<current, keys, calls, sent, peer>>
Over(t) == \E out \in Outcomes : Ends(t, out)

\* A request leaves.
Sends(t) ==
  /\ task[t].at = "lock"
  /\ lock = None
  /\ lock' = t
  /\ Transmit(current, "request", task[t].call)
  /\ task' = [task EXCEPT ![t].at = "answer", ![t].key = current, ![t].pos = position[current]]
  /\ UNCHANGED <<current, corrupted, contexts, keys, calls, outcome, orphans, reply, peer>>

\* A key exchange begins, the first of a reauth or after a busy reply.
Offers(t) ==
  /\ task[t].at \in {"idle", "kex"}
  /\ \E tries \in 0..KexRetries : Kex(t, keys + 1, tries)
  /\ reply' = [reply EXCEPT ![t] = NoReply]
  /\ contexts' \subseteq contexts \cup {keys + 1}
  /\ task[t].at = "kex" => task[t].key \notin contexts'
  /\ keys + 1 \in Keys
  /\ keys + 1 + Cardinality(Busy \ {t}) <= MaxKeys
  /\ UNCHANGED <<lock, current, position, corrupted, calls, outcome, orphans, peer>>

\* A key exchange has succeeded.
Agrees(t) ==
  /\ task[t].at = "kex"
  /\ reply[t].kind = "data"
  /\ task' = [task EXCEPT ![t].at = "relock"]
  /\ reply' = [reply EXCEPT ![t] = NoReply]
  /\ UNCHANGED <<lock, current, position, corrupted, contexts, keys, calls, outcome, sent,
                 orphans, peer>>

\* Nothing but contexts.
Rests ==
  /\ contexts' \subseteq contexts
  /\ UNCHANGED <<lock, task, current, position, corrupted, keys, calls, outcome, sent,
                 reply, orphans, peer>>

\* A key is left for it, which the busy reply has kept.
LEMMA Retried ==
  ASSUME IInv, NEW t \in Tasks, task[t].at = "kex", reply[t].kind = "busy", MayRetry(t), ReceiveKex(t)
  PROVE  Offers(t)
<1>. USE DEF IInv
<1>1. /\ Kex(t, keys + 1, task[t].tries - 1)
      /\ contexts' = (contexts \ {task[t].key}) \cup {keys + 1}
      /\ reply' = [reply EXCEPT ![t] = NoReply]
      /\ UNCHANGED <<lock, current, position, corrupted, calls, outcome, orphans, peer>>
  BY DEF ReceiveKex, KexCleanup
<1>2. task[t].tries - 1 \in 0..KexRetries
  BY Typed, LegacyAssumption DEF MayRetry, LegacyAssumption
<1>3. /\ t \in Busy
      /\ Cardinality(Busy \ {t}) \in Nat
      /\ Cardinality(Busy) = Cardinality(Busy \ {t}) + 1
  <2>1. t \in Busy
    BY DEF MayRetry, Busy
  <2>2. Cardinality(Busy \ {t}) = Cardinality(Busy) - 1 /\ IsFiniteSet(Busy \ {t})
    BY <2>1, BusyFinite, FS_RemoveElement
  <2>. QED
    BY <2>1, <2>2, BusyFinite, FS_CardinalityType
<1>4. keys \in Nat /\ keys >= 1 /\ MaxKeys \in Nat /\ keys + Cardinality(Busy) <= MaxKeys
  BY LegacyAssumption, Types DEF LegacyAssumption, RestInv, Keys
<1>5. keys + 1 \in Keys /\ keys + 1 + Cardinality(Busy \ {t}) <= MaxKeys
  BY <1>3, <1>4 DEF Keys
<1>6. task[t].key <= keys /\ task[t].key \in Nat
  BY Typed DEF KeyInv, Keys
<1>7. task[t].key # keys + 1
  BY <1>4, <1>6
<1>. QED
  BY <1>1, <1>2, <1>5, <1>7 DEF Offers

\* A reauth that begins offers the next key, which exists.
LEMMA Begun ==
  ASSUME IInv, NEW t \in Tasks, BeginReauth(t)
  PROVE  Offers(t)
<1>. USE DEF IInv
<1>1. reply[t] = NoReply /\ reply = [reply EXCEPT ![t] = NoReply]
  BY Types DEF BeginReauth, RestInv, Waiting, WaitPoints
<1>2. Busy \ {t} = Busy
  BY <1>1 DEF Busy, NoReply
<1>3. keys \in Nat /\ keys >= 1 /\ MaxKeys \in Nat /\ Cardinality(Busy) \in Nat
  BY LegacyAssumption, BusyFinite, Types DEF LegacyAssumption, Keys
<1>4. keys + Cardinality(Busy) < MaxKeys
  BY DEF BeginReauth, KeyLeft, Busy
<1>5. keys + 1 \in Keys /\ keys + 1 + Cardinality(Busy \ {t}) <= MaxKeys
  BY <1>2, <1>3, <1>4 DEF Keys
<1>6. KexRetries \in 0..KexRetries
  BY LegacyAssumption DEF LegacyAssumption
<1>. QED
  BY <1>1, <1>5, <1>6 DEF BeginReauth, Offers

\* Every other way on from a wait ends the task, and puts back or drops what it held.
LEMMA AllEnds ==
  ASSUME IInv, NEW t \in Tasks,
         \/ Send(t) /\ ~Sends(t)
         \/ ReceiveAnswer(t) \/ TimeoutAnswer(t) \/ ContextGone(t) \/ CancelRequest(t)
         \/ ReceiveKex(t) /\ ~Agrees(t) /\ ~Offers(t)
         \/ AbandonKex(t) \/ DiscardNew(t) \/ RetireOld(t) \/ CancelReauth(t)
  PROVE  Over(t)
<1>. USE DEF IInv
<1>0. /\ contexts \subseteq Keys /\ orphans \subseteq Keys /\ corrupted \in BOOLEAN
      /\ t # None /\ current \in Keys
  BY Types, Typed
<1>a. task[t].at \notin {"lock", "answer"} => task[t].call = 0
  BY DEF CallInv
<1>b. task[t].at \in LockPoints => lock = t /\ \A u \in Tasks : u # t => task[u].at \notin LockPoints
  BY DEF LockInv
<1>c. lock = None => \A u \in Tasks : task[u].at \notin LockPoints
  BY Typed DEF LockInv
<1>1. CASE Send(t) /\ ~Sends(t)
  <2>1. Ends(t, "failed")
    BY <1>0, <1>1, <1>c DEF Send, Sends, Ends, Earned, Free, Holds, peer
  <2>. QED
    BY <2>1 DEF Over, Outcomes
<1>2. CASE ReceiveAnswer(t)
  <2>1. task[t].at = "answer" /\ task[t].at \in LockPoints
    BY <1>2 DEF ReceiveAnswer, LockPoints
  <2>2. reply[t].kind \in {"data", "expired", "error"}
    BY <1>2, <2>1, Typed DEF ReceiveAnswer, ReplyType, ReplyInv
  <2>3. reply[t].kind = "data" => task[t].key = current /\ reply[t].pos = position[current]
    BY <2>1 DEF ReplyInv, PositionInv
  <2>4. /\ contexts' = contexts /\ orphans' = orphans /\ corrupted' = corrupted
        /\ lock' = None /\ lock = t
        /\ position' = position \/ position' = [position EXCEPT ![current] = @ + 1]
        /\ UNCHANGED <<current, keys, calls, sent, peer>>
    BY <1>2, <1>b, <2>1 DEF ReceiveAnswer, Return
  <2>5. PICK out \in {"ok", "expired", "failed"} :
          /\ Finish(t, out)
          /\ out = "ok" => reply[t].kind = "data"
          /\ out = "expired" => reply[t].kind = "expired"
    <3>1. CASE reply[t].kind = "data"
      <4>1. Finish(t, "ok")
        BY <1>2, <2>3, <3>1 DEF ReceiveAnswer, Return
      <4>. QED
        BY <3>1, <4>1
    <3>2. CASE reply[t].kind = "expired"
      <4>1. Finish(t, "expired")
        BY <1>2, <3>2 DEF ReceiveAnswer, Return
      <4>. QED
        BY <3>2, <4>1
    <3>3. CASE reply[t].kind = "error"
      <4>1. Finish(t, "failed")
        BY <1>2, <3>3 DEF ReceiveAnswer, Return
      <4>. QED
        BY <4>1
    <3>. QED
      BY <2>2, <3>1, <3>2, <3>3
  <2>6. \A k : ~Holds(t, k)
    BY <2>1 DEF Holds
  <2>7. Ends(t, out)
    BY <1>0, <1>b, <2>1, <2>4, <2>5, <2>6 DEF Ends, Earned
  <2>. QED
    BY <2>5, <2>7 DEF Over, Outcomes
<1>3. CASE TimeoutAnswer(t) \/ ContextGone(t)
  <2>1. Ends(t, "failed")
    BY <1>0, <1>3, <1>b DEF TimeoutAnswer, ContextGone, TimeoutOutcome, Return, Ends, Earned, peer,
                            LockPoints, Holds
  <2>. QED
    BY <2>1 DEF Over, Outcomes
<1>4. CASE CancelRequest(t)
  <2>1. Ends(t, "failed")
    BY <1>0, <1>4 DEF CancelRequest, Ends, Earned, Holds, peer
  <2>. QED
    BY <2>1 DEF Over, Outcomes
<1>5. CASE ReceiveKex(t) /\ ~Agrees(t) /\ ~Offers(t)
  <2>1. ~(task[t].at = "kex" /\ reply[t].kind = "busy" /\ MayRetry(t) /\ ReceiveKex(t))
    BY <1>5, Retried
  <2>2. /\ task[t].at = "kex"
        /\ contexts' = contexts \ {task[t].key}
        /\ Finish(t, "failed")
        /\ UNCHANGED <<keys, sent, lock, current, position, corrupted, calls, orphans, peer>>
    BY <1>5, <2>1 DEF ReceiveKex, Agrees, KexCleanup
  <2>3. Ends(t, "failed")
    BY <1>0, <2>2 DEF Ends, Earned, Holds
  <2>. QED
    BY <2>3 DEF Over, Outcomes
<1>6. CASE AbandonKex(t)
  <2>1. Ends(t, "failed")
    BY <1>0, <1>6 DEF AbandonKex, KexCleanup, Ends, Earned, Holds, peer
  <2>. QED
    BY <2>1 DEF Over, Outcomes
<1>7. CASE DiscardNew(t)
  <2>1. Ends(t, "failed")
    BY <1>0, <1>7, <1>b DEF DiscardNew, Return, Ends, Earned, Holds, peer, LockPoints
  <2>. QED
    BY <2>1 DEF Over, Outcomes
<1>8. CASE RetireOld(t)
  <2>1. Ends(t, "ok")
    BY <1>0, <1>8, <1>a DEF RetireOld, Ends, Earned, Holds, peer
  <2>. QED
    BY <2>1 DEF Over, Outcomes
<1>9. CASE CancelReauth(t)
  <2>1. task[t].at \in {"relock", "restore"} => task[t].key \in Keys
    BY DEF KeyInv
  <2>2. task[t].at \in {"auth", "retire"} => task[t].old \in Keys
    BY DEF KeyInv
  <2>3. task[t].at = "auth" => task[t].key = current
    BY DEF KeyInv
  <2>4. Ends(t, "failed")
    BY <1>0, <1>9, <2>1, <2>2, <2>3 DEF CancelReauth, Ends, Earned, Holds, peer
  <2>. QED
    BY <2>4 DEF Over, Outcomes
<1>. QED
  BY <1>1, <1>2, <1>3, <1>4, <1>5, <1>6, <1>7, <1>8, <1>9

\* One task goes on, or everything rests, or the device takes up a message.
Moves(t) ==
  \/ Over(t) \/ Begin(t) \/ Sends(t) \/ Offers(t) \/ Agrees(t)
  \/ Swap(t) \/ ReceiveAuth(t) \/ FailAuth(t)

\* Every step is a coroutine's, the device's or of contexts alone.
LEMMA NextCases ==
  ASSUME IInv, [Next]_vars
  PROVE  \/ \E t \in Tasks : Moves(t)
         \/ Rests
         \/ \E p \in sent : DeviceHandle(p)
<1>1. ASSUME NEW t \in Tasks, Step(t) PROVE Moves(t)
  BY <1>1, AllEnds DEF Step, Moves
<1>2. ASSUME NEW t \in Tasks, BeginReauth(t) PROVE Moves(t)
  BY <1>2, Begun DEF Moves
<1>3. ASSUME NEW t \in Tasks, CancelRequest(t) \/ CancelReauth(t) \/ Begin(t) PROVE Moves(t)
  BY <1>3, AllEnds DEF Moves
<1>4. CASE Close \/ UNCHANGED vars
  BY <1>4 DEF Close, vars, client, Rests, peer
<1>. QED
  BY <1>1, <1>2, <1>3, <1>4 DEF Next

\* A task that goes on to another point keeps the rest of its record.
LEMMA PointRecord ==
  ASSUME NEW r \in TaskType, NEW at \in Points
  PROVE  LET q == [r EXCEPT !.at = at]
         IN /\ q \in TaskType /\ q.at = at
            /\ q.key = r.key /\ q.old = r.old /\ q.pos = r.pos
            /\ q.call = r.call /\ q.tries = r.tries
  BY DEF TaskType

\* A position that goes forward.
Forward(k) ==
  /\ position' \in [Keys -> Nat]
  /\ position'[k] = position[k] + 1
  /\ \A j \in Keys : j # k => position'[j] = position[j]

\* To encipher a message moves its key's position forward by one.
LEMMA TransmitEffect ==
  ASSUME TypeOK, NEW k \in Keys, NEW kind \in {"request", "auth"}, NEW c \in Calls \cup {0},
         Transmit(k, kind, c)
  PROVE  /\ Forward(k)
         /\ [kind |-> kind, key |-> k, pos |-> position[k], call |-> c] \in SentType
<1>1. position \in [Keys -> Nat]
  BY Types
<1>. QED
  BY <1>1 DEF Transmit, Forward, SentType

\* A task changes alone, and its reply with it or not at all.
Alone(t) ==
  /\ task' \in [Tasks -> TaskType]
  /\ \A u \in Tasks : u # t => task'[u] = task[u]
Taken(t) ==
  /\ reply' \in [Tasks -> ReplyType]
  /\ reply'[t] = NoReply
  /\ \A u \in Tasks : u # t => reply'[u] = reply[u]

\* A reply that is taken is gone, and the others stay.
LEMMA TakenIf ==
  ASSUME TypeOK, NEW t \in Tasks, reply' = [reply EXCEPT ![t] = NoReply]
  PROVE  Taken(t)
  BY Types, IdleType DEF Taken

\* A request is on its way, and its task waits for the answer.
RequestOf(t) == [kind |-> "request", key |-> current, pos |-> position[current], call |-> task[t].call]

\* A request takes the position of the current key, and its task remembers it.
LEMMA SendsEffect ==
  ASSUME TypeOK, NEW t \in Tasks, Sends(t)
  PROVE  /\ Alone(t)
         /\ task'[t].at = "answer" /\ task'[t].key = current /\ task'[t].pos = position[current]
         /\ task'[t].call = task[t].call /\ task'[t].old = task[t].old
         /\ task'[t].tries = task[t].tries
         /\ Forward(current)
         /\ sent' = sent \cup {RequestOf(t)} /\ RequestOf(t) \in SentType
<1>1. /\ current \in Keys /\ position[current] \in Nat /\ task[t] \in TaskType
      /\ task[t].call \in Calls \cup {0} /\ "answer" \in Points
  BY Types, Typed DEF Points, WaitPoints
<1>2. Forward(current) /\ RequestOf(t) \in SentType /\ sent' = sent \cup {RequestOf(t)}
  <2>1. Transmit(current, "request", task[t].call)
    BY DEF Sends
  <2>. QED
    BY <1>1, <2>1, TransmitEffect DEF RequestOf, Transmit
<1>. DEFINE q == [task[t] EXCEPT !.at = "answer", !.key = current, !.pos = position[current]]
<1>q. q = [task[t] EXCEPT !.at = "answer", !.key = current, !.pos = position[current]]
  OBVIOUS
<1>. HIDE DEF q
<1>3. /\ q \in TaskType /\ q.at = "answer" /\ q.key = current /\ q.pos = position[current]
      /\ q.call = task[t].call /\ q.old = task[t].old /\ q.tries = task[t].tries
  BY <1>1, <1>q DEF TaskType, Points, WaitPoints
<1>4. task' = [task EXCEPT ![t] = q]
  BY <1>q, Types DEF Sends
<1>5. task'[t] = q /\ Alone(t)
  BY <1>3, <1>4, Types DEF Alone
<1>. QED
  BY <1>2, <1>3, <1>5

\* An offer has the next key, and nothing has been enciphered under it.
LEMMA OffersEffect ==
  ASSUME TypeOK, NEW t \in Tasks, Offers(t)
  PROVE  /\ Alone(t) /\ Taken(t)
         /\ task'[t].at = "kex" /\ task'[t].key = keys + 1 /\ task'[t].old = current
         /\ task'[t].call = 0 /\ task'[t].pos = 0
         /\ keys' = keys + 1 /\ keys' \in Keys
         /\ sent' = sent \cup {[kind |-> "kex", key |-> keys + 1, pos |-> 0, call |-> 0]}
<1>1. PICK tries \in 0..KexRetries : Kex(t, keys + 1, tries)
  BY DEF Offers
<1>2. keys + 1 \in Keys /\ current \in Keys
  BY Types DEF Offers
<1>. DEFINE q == [Idle EXCEPT !.at = "kex", !.key = keys + 1, !.old = current, !.tries = tries]
<1>q. q = [Idle EXCEPT !.at = "kex", !.key = keys + 1, !.old = current, !.tries = tries]
  OBVIOUS
<1>. HIDE DEF q
<1>3. /\ q \in TaskType /\ q.at = "kex" /\ q.key = keys + 1 /\ q.old = current
      /\ q.call = 0 /\ q.pos = 0
  BY <1>2, <1>q DEF Idle, TaskType, Points, WaitPoints
<1>4. task' = [task EXCEPT ![t] = q] /\ keys' = keys + 1
      /\ sent' = sent \cup {[kind |-> "kex", key |-> keys + 1, pos |-> 0, call |-> 0]}
  BY <1>q, <1>1 DEF Kex
<1>5. task'[t] = q /\ Alone(t)
  BY <1>3, <1>4, Types DEF Alone
<1>6. Taken(t)
  BY TakenIf DEF Offers
<1>. QED
  BY <1>2, <1>3, <1>4, <1>5, <1>6

\* A task goes on, with the rest of its record.
GoesTo(t, at) ==
  /\ Alone(t)
  /\ task'[t].at = at /\ task'[t].key = task[t].key /\ task'[t].old = task[t].old
  /\ task'[t].pos = task[t].pos /\ task'[t].call = task[t].call
  /\ task'[t].tries = task[t].tries

\* An assignment of the point alone is such a step.
LEMMA GoesToIf ==
  ASSUME TypeOK, NEW t \in Tasks, NEW at \in Points, task' = [task EXCEPT ![t].at = at]
  PROVE  GoesTo(t, at)
<1>1. task[t] \in TaskType /\ 1 \in Keys /\ 1 \in Nat
  BY Typed, LegacyAssumption DEF LegacyAssumption, Keys
<1>. DEFINE q == [task[t] EXCEPT !.at = at]
<1>2. /\ q \in TaskType /\ q.at = at /\ q.key = task[t].key /\ q.old = task[t].old
      /\ q.pos = task[t].pos /\ q.call = task[t].call /\ q.tries = task[t].tries
  BY <1>1, PointRecord
<1>3. task' = [task EXCEPT ![t] = q]
  BY Types
<1>. HIDE DEF q
<1>4. task'[t] = q /\ Alone(t)
  BY <1>2, <1>3, Types DEF Alone
<1>. QED
  BY <1>2, <1>4 DEF GoesTo

\* A reauth whose kex was answered waits for the lock.
LEMMA AgreesEffect ==
  ASSUME TypeOK, NEW t \in Tasks, Agrees(t)
  PROVE  GoesTo(t, "relock") /\ Taken(t)
<1>1. "relock" \in Points
  BY DEF Points
<1>. QED
  BY <1>1, GoesToIf, TakenIf DEF Agrees

TokenOf(t) == [kind |-> "auth", key |-> task[t].key, pos |-> position[task[t].key], call |-> 0]

\* The swap makes the new key current and enciphers the token at its first position.
LEMMA SwapEffect ==
  ASSUME TypeOK, NEW t \in Tasks, Swap(t), task[t].key \in Keys
  PROVE  /\ Alone(t)
         /\ task'[t].at = "auth" /\ task'[t].key = task[t].key /\ task'[t].old = current
         /\ task'[t].call = task[t].call /\ task'[t].tries = task[t].tries
         /\ Forward(task[t].key)
         /\ sent' = sent \cup {TokenOf(t)} /\ TokenOf(t) \in SentType
         /\ current' = task[t].key /\ lock = None /\ lock' = t
<1>1. /\ current \in Keys /\ position[task[t].key] \in Nat /\ task[t] \in TaskType
      /\ "auth" \in Points
  BY Types, Typed DEF Points, WaitPoints
<1>2. Forward(task[t].key) /\ TokenOf(t) \in SentType /\ sent' = sent \cup {TokenOf(t)}
  <2>1. Transmit(task[t].key, "auth", 0)
    BY DEF Swap
  <2>. QED
    BY <2>1, TransmitEffect DEF TokenOf, Transmit
<1>. DEFINE q == [task[t] EXCEPT !.at = "auth", !.old = current, !.pos = position[task[t].key]]
<1>q. q = [task[t] EXCEPT !.at = "auth", !.old = current, !.pos = position[task[t].key]]
  OBVIOUS
<1>. HIDE DEF q
<1>3. /\ q \in TaskType /\ q.at = "auth" /\ q.key = task[t].key /\ q.old = current
      /\ q.call = task[t].call /\ q.tries = task[t].tries
  BY <1>1, <1>q DEF TaskType, Points, WaitPoints
<1>4. task' = [task EXCEPT ![t] = q]
  BY <1>q, Types DEF Swap, Previous
<1>5. task'[t] = q /\ Alone(t)
  BY <1>3, <1>4, Types DEF Alone
<1>6. current' = task[t].key /\ lock = None /\ lock' = t
  BY DEF Swap, Free
<1>. QED
  BY <1>2, <1>3, <1>5, <1>6

\* A token that is accepted leaves the old context to be shut down.
LEMMA ReceiveAuthEffect ==
  ASSUME TypeOK, NEW t \in Tasks, ReceiveAuth(t), task[t].key \in Keys
  PROVE  GoesTo(t, "retire") /\ Taken(t) /\ Forward(task[t].key)
<1>1. "retire" \in Points
  BY DEF Points
<1>2. Forward(task[t].key)
  BY Types DEF ReceiveAuth, Forward
<1>. QED
  BY <1>1, <1>2, GoesToIf, TakenIf DEF ReceiveAuth

\* One that is refused or lost leaves the old context to be put back.
LEMMA FailAuthEffect ==
  ASSUME TypeOK, NEW t \in Tasks, FailAuth(t)
  PROVE  GoesTo(t, "restore") /\ Taken(t)
<1>1. "restore" \in Points
  BY DEF Points
<1>. QED
  BY <1>1, GoesToIf, TakenIf DEF FailAuth

\* A call that begins has the next number.
LEMMA BeginEffect ==
  ASSUME TypeOK, NEW t \in Tasks, Begin(t)
  PROVE  /\ Alone(t)
         /\ task'[t].at = "lock" /\ task'[t].call = calls + 1 /\ calls + 1 \in Calls
         /\ task'[t].key = 0 /\ task'[t].old = 0 /\ task'[t].tries = 0
<1>1. calls + 1 \in Calls
  BY LegacyAssumption, Types DEF LegacyAssumption, Begin, Calls
<1>. DEFINE q == [Idle EXCEPT !.at = "lock", !.call = calls + 1]
<1>2. /\ q \in TaskType /\ q.at = "lock" /\ q.call = calls + 1
      /\ q.key = 0 /\ q.old = 0 /\ q.tries = 0
  BY <1>1, IdleType DEF Idle, TaskType, Points
<1>3. task' = [task EXCEPT ![t] = q]
  BY DEF Begin
<1>. HIDE DEF q
<1>4. task'[t] = q /\ Alone(t)
  BY <1>2, <1>3, Types DEF Alone
<1>. QED
  BY <1>1, <1>2, <1>4

\* A task that ends is idle, and the other tasks and calls stay as they were.
LEMMA OverEffect ==
  ASSUME TypeOK, NEW t \in Tasks, NEW out \in Outcomes, Ends(t, out)
  PROVE  /\ Alone(t) /\ Taken(t)
         /\ task'[t] = Idle
         /\ outcome' \in [Calls -> Outcomes]
         /\ \A c \in Calls : outcome'[c] = IF c = task[t].call THEN out ELSE outcome[c]
         /\ position' \in [Keys -> Nat]
  BY FinishEffect, Types DEF Ends, Alone, Taken

\* The device's reply reaches who waits for it.
Replies(p, kind, n) ==
  /\ reply' \in [Tasks -> ReplyType]
  /\ \A u \in Tasks : Waiting(u) /\ Own(u, p) => reply'[u].kind = kind /\ reply'[u].pos = n
  /\ \A u \in Tasks : ~(Waiting(u) /\ Own(u, p)) => reply'[u] = reply[u]

\* What the device answers reaches only the task that waits on it.
LEMMA AnswerEffect ==
  ASSUME TypeOK, NEW p \in sent, NEW kind \in {"none", "data", "busy", "expired", "error"},
         NEW n \in Nat, Answer(p, kind, n)
  PROVE  Replies(p, kind, n)
<1>1. [kind |-> kind, pos |-> n] \in ReplyType
  BY DEF ReplyType
<1>. QED
  BY <1>1, Types DEF Answer, Replies, Own

\* What the device does with a message: a busy reply, a request that is carried
\* out, or anything else, which is no data for a request.
Busies(p) ==
  /\ p.kind = "kex"
  /\ \A t \in Tasks : task[t].key = p.key /\ task[t].tries > 0 => KeyLeft
  /\ Replies(p, "busy", 0)
  /\ executed' = executed
Executes(p) ==
  /\ p.kind = "request"
  /\ Replies(p, "data", p.pos + 1)
  /\ executed' = [executed EXCEPT ![p.call] = @ + 1]
Otherwise(p) ==
  /\ \E kind \in {"data", "expired", "error"}, n \in Nat :
       Replies(p, kind, n) /\ (p.kind = "request" => kind # "data")
  /\ executed' = executed

\* What the device does leaves the client alone but for the reply.
LEMMA DeviceEffect ==
  ASSUME IInv, NEW p \in sent, DeviceHandle(p)
  PROVE  /\ Busies(p) \/ Executes(p) \/ Otherwise(p)
         /\ device' \in [Keys -> DeviceType]
         /\ executed' \in [Calls -> Nat]
         /\ sent' = sent \ {p}
         /\ UNCHANGED client
<1>. USE DEF IInv
<1>1. /\ device \in [Keys -> DeviceType] /\ executed \in [Calls -> Nat]
      /\ p.key \in Keys /\ p.pos \in Nat /\ p.pos + 1 \in Nat /\ Offline \in DeviceType
  BY Types, TypedMessage, IdleType
<1>2. sent' = sent \ {p} /\ UNCHANGED client
  BY DEF DeviceHandle
<1>3. ASSUME NEW a \in BOOLEAN, NEW b \in BOOLEAN, NEW n \in Nat
      PROVE  [on |-> a, authed |-> b, pos |-> n] \in DeviceType
  BY DEF DeviceType
<1>4. ASSUME NEW d \in DeviceType
      PROVE  /\ [d EXCEPT !.authed = TRUE, !.pos = @ + 2] \in DeviceType
             /\ [d EXCEPT !.pos = @ + 2] \in DeviceType
             /\ [d EXCEPT !.pos = @ + 1] \in DeviceType
  <2>1. d.pos + 1 \in Nat /\ d.pos + 2 \in Nat
    BY DEF DeviceType
  <2>2. [d EXCEPT !.authed = TRUE, !.pos = @ + 2] \in DeviceType
    BY <2>1 DEF DeviceType
  <2>3. [d EXCEPT !.pos = @ + 2] \in DeviceType
    BY <2>1 DEF DeviceType
  <2>4. [d EXCEPT !.pos = @ + 1] \in DeviceType
    BY <2>1 DEF DeviceType
  <2>. QED
    BY <2>2, <2>3, <2>4
<1>5. CASE DeviceKex(p)
  <2>1. p.kind = "kex" /\ executed' = executed
    BY <1>5 DEF DeviceKex
  <2>2. CASE device' = [device EXCEPT ![p.key] = [on |-> TRUE, authed |-> FALSE, pos |-> 0]] /\ Answer(p, "data", 0)
    <3>1. device' \in [Keys -> DeviceType]
      BY <1>1, <1>3, <2>2
    <3>2. Replies(p, "data", 0)
      BY <2>2, AnswerEffect
    <3>. QED
      BY <1>1, <1>2, <2>1, <3>1, <3>2 DEF Otherwise
  <2>3. CASE /\ \A t \in Tasks : task[t].key = p.key /\ task[t].tries > 0 => KeyLeft
             /\ Answer(p, "busy", 0) /\ UNCHANGED device
    <3>1. Replies(p, "busy", 0)
      BY <2>3, AnswerEffect
    <3>. QED
      BY <1>1, <1>2, <2>1, <2>3, <3>1 DEF Busies
  <2>. QED
    BY <1>5, <2>2, <2>3 DEF DeviceKex
<1>6. CASE DeviceAuth(p)
  <2>1. device' \in [Keys -> DeviceType]
    BY <1>1, <1>4, <1>6 DEF DeviceAuth
  <2>2. Replies(p, "data", p.pos + 1) /\ p.kind = "auth" /\ executed' = executed
    BY <1>1, <1>6, AnswerEffect DEF DeviceAuth
  <2>. QED
    BY <1>1, <1>2, <2>1, <2>2 DEF Otherwise
<1>7. CASE DeviceExecute(p)
  <2>1. device' \in [Keys -> DeviceType]
    BY <1>1, <1>4, <1>7 DEF DeviceExecute
  <2>2. /\ Replies(p, "data", p.pos + 1) /\ p.kind = "request"
        /\ executed' = [executed EXCEPT ![p.call] = @ + 1]
    BY <1>1, <1>7, AnswerEffect DEF DeviceExecute
  <2>3. p.call \in Calls
    BY <2>2, LegacyAssumption, Types DEF LegacyAssumption, SentInv, Requests, Calls
  <2>4. executed' \in [Calls -> Nat]
    BY <1>1, <2>2, <2>3
  <2>. QED
    BY <1>2, <2>1, <2>2, <2>4 DEF Executes
<1>8. CASE DeviceReset(p)
  <2>1. device' \in [Keys -> DeviceType]
    BY <1>1, <1>8 DEF DeviceReset
  <2>2. Replies(p, "expired", 0) /\ executed' = executed
    BY <1>8, AnswerEffect DEF DeviceReset
  <2>. QED
    BY <1>1, <1>2, <2>1, <2>2 DEF Otherwise
<1>9. CASE DeviceError(p)
  <2>1. device' \in [Keys -> DeviceType]
    BY <1>1, <1>4, <1>9 DEF DeviceError
  <2>2. Replies(p, "error", 0) /\ executed' = executed
    BY <1>9, AnswerEffect DEF DeviceError
  <2>. QED
    BY <1>1, <1>2, <2>1, <2>2 DEF Otherwise
<1>. QED
  BY <1>5, <1>6, <1>7, <1>8, <1>9 DEF DeviceHandle

-----------------------------------------------------------------------------
(* Type correctness.                                                       *)

\* The variables have their types at first.
LEMMA TypeInit == Init => TypeOK
<1>. SUFFICES ASSUME Init
             PROVE  TypeOK
  OBVIOUS
<1>1. 1 \in Keys /\ 0 \in 0..MaxCalls
  BY LegacyAssumption DEF LegacyAssumption, Keys
<1>2. [on |-> TRUE, authed |-> TRUE, pos |-> 2] \in DeviceType
  BY DEF DeviceType
<1>3. task \in [Tasks -> TaskType] /\ reply \in [Tasks -> ReplyType]
  BY IdleType DEF Init
<1>4. position \in [Keys -> Nat]
  BY DEF Init
<1>5. device \in [Keys -> DeviceType]
  BY <1>2, IdleType DEF Init
<1>6. outcome \in [Calls -> Outcomes] /\ executed \in [Calls -> Nat]
  BY DEF Init, Outcomes
<1>7. /\ lock \in Tasks \cup {None} /\ current \in Keys /\ corrupted \in BOOLEAN
      /\ contexts \subseteq Keys /\ orphans \subseteq Keys /\ keys \in Keys
      /\ calls \in 0..MaxCalls /\ sent \subseteq SentType
  BY <1>1 DEF Init
<1>. QED
  BY <1>3, <1>4, <1>5, <1>6, <1>7, Types

\* Every step keeps the types.
LEMMA TypeNext == IInv /\ [Next]_vars => TypeOK'
<1>. SUFFICES ASSUME IInv, [Next]_vars
             PROVE  TypeOK'
  OBVIOUS
<1>. USE DEF IInv
<1>0. /\ lock \in Tasks \cup {None}
      /\ task \in [Tasks -> TaskType]
      /\ current \in Keys
      /\ position \in [Keys -> Nat]
      /\ corrupted \in BOOLEAN
      /\ contexts \subseteq Keys
      /\ orphans \subseteq Keys
      /\ keys \in Keys
      /\ calls \in 0..MaxCalls
      /\ outcome \in [Calls -> Outcomes]
      /\ sent \subseteq SentType
      /\ reply \in [Tasks -> ReplyType]
      /\ device \in [Keys -> DeviceType]
      /\ executed \in [Calls -> Nat]
  BY Types
<1>a. (/\ lock' \in Tasks \cup {None}
       /\ task' \in [Tasks -> TaskType]
       /\ current' \in Keys
       /\ position' \in [Keys -> Nat]
       /\ corrupted' \in BOOLEAN
       /\ contexts' \subseteq Keys
       /\ orphans' \subseteq Keys
       /\ keys' \in Keys
       /\ calls' \in 0..MaxCalls
       /\ outcome' \in [Calls -> Outcomes]
       /\ sent' \subseteq SentType
       /\ reply' \in [Tasks -> ReplyType]
       /\ device' \in [Keys -> DeviceType]
       /\ executed' \in [Calls -> Nat]) => TypeOK'
  BY DEF TypeOK, TaskType, Points, ReplyType, Outcomes, SentType, DeviceType
<1>1. ASSUME NEW t \in Tasks, Over(t) PROVE TypeOK'
  <2>1. PICK out \in Outcomes : Ends(t, out)
    BY <1>1 DEF Over
  <2>. QED
    BY <1>0, <1>a, <2>1, OverEffect DEF Ends, Alone, Taken, peer
<1>2. ASSUME NEW t \in Tasks, Begin(t) PROVE TypeOK'
  <2>1. calls' \in 0..MaxCalls
    BY <1>0, <1>2, LegacyAssumption DEF LegacyAssumption, Begin
  <2>. QED
    BY <1>0, <1>2, <1>a, <2>1, BeginEffect DEF Begin, Alone, peer
<1>3. ASSUME NEW t \in Tasks, Sends(t) PROVE TypeOK'
  <2>1. /\ task' \in [Tasks -> TaskType] /\ position' \in [Keys -> Nat]
        /\ sent' = sent \cup {RequestOf(t)} /\ RequestOf(t) \in SentType
    BY <1>3, SendsEffect DEF Alone, Forward
  <2>2. lock' = t /\ UNCHANGED <<current, corrupted, contexts, keys, calls, outcome, orphans, reply, peer>>
    BY <1>3 DEF Sends
  <2>. HIDE DEF IInv
  <2>. QED
    BY <1>0, <1>a, <2>1, <2>2 DEF peer
<1>4. ASSUME NEW t \in Tasks, Offers(t) PROVE TypeOK'
  <2>1. [kind |-> "kex", key |-> keys + 1, pos |-> 0, call |-> 0] \in SentType
    BY <1>4 DEF Offers, SentType
  <2>. QED
    BY <1>0, <1>4, <1>a, <2>1, OffersEffect DEF Offers, Alone, Taken, peer
<1>5. ASSUME NEW t \in Tasks, Agrees(t) PROVE TypeOK'
  BY <1>0, <1>5, <1>a, AgreesEffect DEF Agrees, GoesTo, Alone, Taken, peer
<1>6. ASSUME NEW t \in Tasks, Swap(t) PROVE TypeOK'
  <2>1. task[t].key \in Keys
    BY <1>6 DEF Swap, KeyInv
  <2>. QED
    BY <1>0, <1>6, <1>a, <2>1, SwapEffect DEF Swap, Alone, Forward, peer
<1>7. ASSUME NEW t \in Tasks, ReceiveAuth(t) PROVE TypeOK'
  <2>1. task[t].key \in Keys
    BY <1>0, <1>7 DEF ReceiveAuth, KeyInv
  <2>. QED
    BY <1>0, <1>7, <1>a, <2>1, ReceiveAuthEffect DEF ReceiveAuth, GoesTo, Alone, Taken, Forward, peer
<1>8. ASSUME NEW t \in Tasks, FailAuth(t) PROVE TypeOK'
  <2>1. task[t].old \in Keys
    BY <1>0, <1>8 DEF FailAuth, KeyInv
  <2>. QED
    BY <1>0, <1>8, <1>a, <2>1, FailAuthEffect DEF FailAuth, GoesTo, Alone, Taken, peer
<1>9. CASE Rests
  BY <1>0, <1>9, <1>a DEF Rests, peer
<1>10. ASSUME NEW p \in sent, DeviceHandle(p) PROVE TypeOK'
  <2>1. reply' \in [Tasks -> ReplyType]
    BY <1>10, DeviceEffect DEF Busies, Executes, Otherwise, Replies
  <2>. QED
    BY <1>0, <1>10, <1>a, <2>1, DeviceEffect DEF client
<1>11. ASSUME NEW t \in Tasks, Moves(t) PROVE TypeOK'
  BY <1>1, <1>2, <1>3, <1>4, <1>5, <1>6, <1>7, <1>8, <1>11 DEF Moves
<1>. QED
  BY <1>9, <1>10, <1>11, NextCases

-----------------------------------------------------------------------------
(* What the invariant says in the cases that matter.                       *)

\* Nobody is in an exchange while the lock is free, or somebody else has it.
LEMMA OthersOut ==
  ASSUME IInv, NEW t \in Tasks, lock = t \/ lock = None
  PROVE  \A u \in Tasks : u # t => task[u].at \notin LockPoints
  BY LegacyAssumption DEF IInv, LockInv, LegacyAssumption

\* The message a task waits on is of the kind it has sent.
LEMMA OwnKind ==
  ASSUME IInv, NEW t \in Tasks, NEW p \in sent, Own(t, p)
  PROVE  /\ task[t].at = "kex" => p.kind = "kex"
         /\ task[t].at = "answer" => p.kind = "request"
<1>1. p.kind \in {"request", "kex", "auth"} /\ p.pos \in Nat
  BY TypedMessage DEF IInv
<1>2. CASE task[t].at = "kex"
  <2>1. position[p.key] = 0
    BY <1>2 DEF IInv, PositionInv, Own
  <2>2. p.kind # "auth"
    BY <2>1 DEF IInv, PositionInv
  <2>3. p.kind # "request"
    BY <1>1, <2>1 DEF IInv, PositionInv, Requests
  <2>. QED
    BY <1>1, <1>2, <2>2, <2>3
<1>3. CASE task[t].at = "answer"
  <2>1. p.pos > 0
    BY <1>3 DEF IInv, PositionInv, Own
  <2>2. p.kind \notin {"kex", "auth"}
    BY <2>1 DEF IInv, PositionInv
  <2>. QED
    BY <1>1, <1>3, <2>2
<1>. QED
  BY <1>2, <1>3

\* A reauth under way has a key.
LEMMA KeyTyped ==
  ASSUME IInv, NEW t \in Tasks, task[t].at \in {"kex", "relock", "auth"}
  PROVE  task[t].key \in Keys
  BY Types DEF IInv, KeyInv

\* Only the task that goes on changes.
LEMMA MovesAlone ==
  ASSUME IInv, NEW t \in Tasks, Moves(t)
  PROVE  Alone(t)
<1>0. TypeOK
  BY DEF IInv
<1>1. CASE Over(t)
  BY <1>0, <1>1, OverEffect DEF Over
<1>2. CASE Begin(t) \/ Sends(t) \/ Offers(t) \/ Agrees(t)
  BY <1>0, <1>2, BeginEffect, SendsEffect, OffersEffect, AgreesEffect DEF GoesTo
<1>3. CASE Swap(t) \/ ReceiveAuth(t) \/ FailAuth(t)
  <2>1. task[t].at \in {"relock", "auth"}
    BY <1>3 DEF Swap, ReceiveAuth, FailAuth
  <2>2. task[t].key \in Keys
    BY <2>1, KeyTyped
  <2>. QED
    BY <1>0, <1>3, <2>2, SwapEffect, ReceiveAuthEffect, FailAuthEffect DEF GoesTo
<1>. QED
  BY <1>1, <1>2, <1>3 DEF Moves

\* A reauth goes on, from where it was to where it is.
Reauths(t) == Offers(t) \/ Agrees(t) \/ Swap(t) \/ ReceiveAuth(t) \/ FailAuth(t)

\* It belongs to no request, and leaves requests and the device alone.
LEMMA ReauthsEffect ==
  ASSUME IInv, NEW t \in Tasks, Reauths(t)
  PROVE  /\ task[t].at \in {"idle", "kex", "relock", "auth"} /\ task[t].call = 0
         /\ task'[t].at \in {"kex", "relock", "auth", "retire", "restore"} /\ task'[t].call = 0
         /\ UNCHANGED <<calls, outcome, corrupted, peer>>
<1>0. TypeOK
  BY DEF IInv
<1>1. task[t].at \in {"idle", "kex", "relock", "auth"}
  BY DEF Reauths, Offers, Agrees, Swap, ReceiveAuth, FailAuth
<1>2. task[t].call = 0
  BY <1>1 DEF IInv, CallInv
<1>3. UNCHANGED <<calls, outcome, corrupted, peer>>
  BY DEF Reauths, Offers, Agrees, Swap, ReceiveAuth, FailAuth
<1>4. CASE Offers(t)
  BY <1>0, <1>1, <1>2, <1>3, <1>4, OffersEffect
<1>5. CASE Agrees(t) \/ FailAuth(t)
  BY <1>0, <1>1, <1>2, <1>3, <1>5, AgreesEffect, FailAuthEffect DEF GoesTo
<1>6. CASE Swap(t) \/ ReceiveAuth(t)
  <2>1. task[t].at \in {"relock", "auth"}
    BY <1>6 DEF Swap, ReceiveAuth
  <2>2. task[t].key \in Keys
    BY <2>1, KeyTyped
  <2>. QED
    BY <1>0, <1>1, <1>2, <1>3, <1>6, <2>2, SwapEffect, ReceiveAuthEffect DEF GoesTo
<1>. QED
  BY <1>4, <1>5, <1>6 DEF Reauths

\* A reauth sends no request and takes none back.
LEMMA ReauthsRequests ==
  ASSUME IInv, NEW t \in Tasks, Reauths(t)
  PROVE  Requests' = Requests
<1>0. TypeOK
  BY DEF IInv
<1>1. CASE Offers(t)
  <2>1. sent' = sent \cup {[kind |-> "kex", key |-> keys + 1, pos |-> 0, call |-> 0]}
    BY <1>0, <1>1, OffersEffect
  <2>. QED
    BY <2>1 DEF Requests
<1>2. CASE Swap(t)
  <2>1. task[t].key \in Keys
    BY <1>2, KeyTyped DEF Swap
  <2>2. sent' = sent \cup {TokenOf(t)}
    BY <1>0, <1>2, <2>1, SwapEffect
  <2>. QED
    BY <2>2 DEF Requests, TokenOf
<1>3. CASE Agrees(t) \/ ReceiveAuth(t) \/ FailAuth(t)
  BY <1>3 DEF Agrees, ReceiveAuth, FailAuth, Requests
<1>. QED
  BY <1>1, <1>2, <1>3 DEF Reauths

-----------------------------------------------------------------------------
(* Each part is kept.                                                      *)

\* Every step keeps LockInv: a point of an exchange is reached only with the lock.
LEMMA LockNext == IInv /\ [Next]_vars => LockInv'
<1>. SUFFICES ASSUME IInv, [Next]_vars
             PROVE  LockInv'
  OBVIOUS
<1>0. TypeOK /\ LockInv /\ None \notin Tasks
  BY LegacyAssumption DEF IInv, LegacyAssumption
<1>1. ASSUME NEW t \in Tasks, Over(t) PROVE LockInv'
  <2>1. PICK out \in Outcomes : Ends(t, out)
    BY <1>1 DEF Over
  <2>2. Alone(t) /\ task'[t].at = "idle"
    BY <1>0, <2>1, OverEffect DEF Idle
  <2>. QED
    BY <1>0, <2>1, <2>2 DEF Ends, Alone, LockInv, LockPoints
<1>2. ASSUME NEW t \in Tasks, Begin(t) PROVE LockInv'
  BY <1>0, <1>2, BeginEffect DEF Begin, Alone, LockInv, LockPoints
<1>3. ASSUME NEW t \in Tasks, Sends(t) PROVE LockInv'
  <2>1. Alone(t) /\ lock = None /\ lock' = t
    BY <1>0, <1>3, SendsEffect DEF Sends
  <2>. QED
    BY <1>0, <2>1 DEF Alone, LockInv
<1>4. ASSUME NEW t \in Tasks, Offers(t) PROVE LockInv'
  BY <1>0, <1>4, OffersEffect DEF Offers, Alone, LockInv, LockPoints
<1>5. ASSUME NEW t \in Tasks, Agrees(t) PROVE LockInv'
  BY <1>0, <1>5, AgreesEffect DEF Agrees, GoesTo, Alone, LockInv, LockPoints
<1>6. ASSUME NEW t \in Tasks, Swap(t) PROVE LockInv'
  <2>1. task[t].key \in Keys
    BY <1>6 DEF Swap, IInv, KeyInv
  <2>2. Alone(t) /\ lock = None /\ lock' = t
    BY <1>0, <1>6, <2>1, SwapEffect
  <2>. QED
    BY <1>0, <2>2 DEF Alone, LockInv
<1>7. ASSUME NEW t \in Tasks, ReceiveAuth(t) \/ FailAuth(t) PROVE LockInv'
  <2>1. Alone(t)
    <3>1. task[t].key \in Keys
      BY <1>0, <1>7, Types DEF ReceiveAuth, FailAuth, IInv, KeyInv
    <3>. QED
      BY <1>0, <1>7, <3>1, ReceiveAuthEffect, FailAuthEffect DEF GoesTo
  <2>2. lock = t
    BY <1>0, <1>7 DEF ReceiveAuth, FailAuth, LockInv, LockPoints
  <2>3. lock' = lock \/ task'[t].at = "retire"
    BY <1>0, <1>7, Types DEF ReceiveAuth, FailAuth, TaskType
  <2>. QED
    BY <1>0, <2>1, <2>2, <2>3 DEF Alone, LockInv, LockPoints
<1>8. CASE Rests \/ \E p \in sent : DeviceHandle(p)
  <2>1. lock' = lock /\ task' = task
    BY <1>8, DeviceEffect DEF Rests, client
  <2>. QED
    BY <1>0, <2>1 DEF LockInv
<1>9. ASSUME NEW t \in Tasks, Moves(t) PROVE LockInv'
  BY <1>1, <1>2, <1>3, <1>4, <1>5, <1>6, <1>7, <1>9 DEF Moves
<1>. QED
  BY <1>8, <1>9, NextCases

\* Every step keeps RestInv: a busy reply is sent only while a key is left for the retry.
LEMMA RestNext == IInv /\ [Next]_vars => RestInv'
<1>. SUFFICES ASSUME IInv, [Next]_vars
             PROVE  RestInv'
  OBVIOUS
<1>0. /\ TypeOK /\ RestInv /\ keys \in Nat /\ MaxKeys \in Nat
      /\ IsFiniteSet(Busy) /\ Cardinality(Busy) \in Nat
  BY BusyFinite, LegacyAssumption, Types DEF IInv, LegacyAssumption, Keys
<1>a. ASSUME Busy' \subseteq Busy, keys' = keys
      PROVE  keys' + Cardinality(Busy') <= MaxKeys
  <2>1. Cardinality(Busy') <= Cardinality(Busy) /\ IsFiniteSet(Busy')
    BY <1>0, <1>a, FS_Subset
  <2>2. Cardinality(Busy') \in Nat
    BY <2>1, FS_CardinalityType
  <2>. QED
    BY <1>0, <1>a, <2>1, <2>2 DEF RestInv
<1>b. ASSUME NEW t \in Tasks, Alone(t), Taken(t), keys' = keys PROVE RestInv'
  <2>1. Busy' \subseteq Busy
    BY <1>b DEF Busy, Alone, Taken, NoReply
  <2>2. \A u \in Tasks : ~Waiting(u)' => reply'[u] = NoReply
    BY <1>0, <1>b DEF RestInv, Waiting, Alone, Taken
  <2>. QED
    BY <1>a, <1>b, <2>1, <2>2 DEF RestInv
<1>c. ASSUME NEW t \in Tasks, Alone(t), reply' = reply, keys' = keys, reply[t] = NoReply PROVE RestInv'
  <2>1. Busy' \subseteq Busy
    BY <1>c DEF Busy, Alone, NoReply
  <2>2. \A u \in Tasks : ~Waiting(u)' => reply'[u] = NoReply
    BY <1>0, <1>c DEF RestInv, Waiting, Alone
  <2>. QED
    BY <1>a, <1>c, <2>1, <2>2 DEF RestInv
<1>1. ASSUME NEW t \in Tasks, Over(t) PROVE RestInv'
  <2>1. PICK out \in Outcomes : Ends(t, out)
    BY <1>1 DEF Over
  <2>. QED
    BY <1>0, <1>b, <2>1, OverEffect DEF Ends
<1>2. ASSUME NEW t \in Tasks, Begin(t) \/ Sends(t) \/ Swap(t) PROVE RestInv'
  <2>1. reply[t] = NoReply
    BY <1>0, <1>2 DEF Begin, Sends, Swap, RestInv, Waiting, WaitPoints
  <2>2. Alone(t)
    <3>1. CASE Begin(t) \/ Sends(t)
      BY <1>0, <3>1, BeginEffect, SendsEffect
    <3>2. CASE Swap(t)
      <4>1. task[t].key \in Keys
        BY <3>2 DEF Swap, IInv, KeyInv
      <4>. QED
        BY <1>0, <3>2, <4>1, SwapEffect
    <3>. QED
      BY <1>2, <3>1, <3>2
  <2>. QED
    BY <1>2, <1>c, <2>1, <2>2 DEF Begin, Sends, Swap
<1>3. ASSUME NEW t \in Tasks, Offers(t) PROVE RestInv'
  <2>1. Alone(t) /\ Taken(t) /\ keys' = keys + 1
    BY <1>0, <1>3, OffersEffect
  <2>2. Busy' \subseteq Busy \ {t}
    BY <2>1 DEF Busy, Alone, Taken, NoReply
  <2>3. IsFiniteSet(Busy \ {t}) /\ Cardinality(Busy \ {t}) \in Nat
    BY <1>0, FS_Subset, FS_CardinalityType
  <2>4. Cardinality(Busy') <= Cardinality(Busy \ {t}) /\ Cardinality(Busy') \in Nat
    BY <2>2, <2>3, FS_Subset, FS_CardinalityType
  <2>5. keys + 1 + Cardinality(Busy \ {t}) <= MaxKeys
    BY <1>3 DEF Offers
  <2>6. keys' + Cardinality(Busy') <= MaxKeys
    BY <1>0, <2>1, <2>3, <2>4, <2>5
  <2>7. \A u \in Tasks : ~Waiting(u)' => reply'[u] = NoReply
    BY <1>0, <2>1 DEF RestInv, Waiting, Alone, Taken
  <2>. QED
    BY <2>6, <2>7 DEF RestInv
<1>4. ASSUME NEW t \in Tasks, Agrees(t) \/ ReceiveAuth(t) \/ FailAuth(t) PROVE RestInv'
  <2>1. Alone(t) /\ Taken(t)
    <3>1. task[t].at = "auth" => task[t].key \in Keys
      BY <1>0, Types DEF IInv, KeyInv
    <3>. QED
      BY <1>0, <1>4, <3>1, AgreesEffect, ReceiveAuthEffect, FailAuthEffect
         DEF GoesTo, ReceiveAuth
  <2>. QED
    BY <1>4, <1>b, <2>1 DEF Agrees, ReceiveAuth, FailAuth
<1>5. CASE Rests
  <2>1. UNCHANGED <<task, reply, keys>>
    BY <1>5 DEF Rests
  <2>. QED
    BY <1>0, <2>1 DEF RestInv, Busy, Waiting
<1>6. ASSUME NEW p \in sent, DeviceHandle(p) PROVE RestInv'
  <2>1. UNCHANGED <<task, keys>>
    BY <1>6, DeviceEffect DEF client
  <2>2. \A u \in Tasks : ~Waiting(u)' => reply'[u] = NoReply
    BY <1>0, <1>6, <2>1, DeviceEffect DEF RestInv, Waiting, Busies, Executes, Otherwise, Replies
  <2>3. CASE Executes(p) \/ Otherwise(p)
    <3>1. Busy' \subseteq Busy
      BY <2>1, <2>3 DEF Busy, Executes, Otherwise, Replies
    <3>. QED
      BY <1>a, <2>1, <2>2, <3>1 DEF RestInv
  <2>4. CASE Busies(p)
    <3>1. ASSUME NEW u \in Tasks, u \in Busy', u \notin Busy
          PROVE  task[u].at = "kex" /\ task[u].key = p.key /\ KeyLeft
      <4>1. reply'[u] # reply[u] /\ task[u].tries > 0
        BY <2>1, <3>1 DEF Busy
      <4>2. Waiting(u) /\ Own(u, p)
        BY <2>4, <4>1 DEF Busies, Replies
      <4>3. task[u].key = p.key /\ KeyLeft
        BY <2>4, <4>1, <4>2 DEF Busies, Own
      <4>4. task[u].at # "answer"
        BY <2>4, <4>2, OwnKind DEF Busies
      <4>5. task[u].at # "auth"
        <5>1. position[p.key] = 0
          BY <2>4 DEF Busies, IInv, PositionInv
        <5>2. task[u].at = "auth" => position[task[u].key] > 0
          BY DEF IInv, KeyInv, PositionInv
        <5>. QED
          BY <4>3, <5>1, <5>2
      <4>. QED
        BY <4>2, <4>3, <4>4, <4>5 DEF Waiting, WaitPoints
    <3>2. CASE Busy' \subseteq Busy
      BY <1>a, <2>1, <2>2, <3>2 DEF RestInv
    <3>3. CASE ~(Busy' \subseteq Busy)
      <4>1. PICK u \in Tasks : u \in Busy' /\ u \notin Busy
        BY <3>3 DEF Busy
      <4>2. Busy' \subseteq Busy \cup {u}
        <5>1. ASSUME NEW v \in Tasks, v \in Busy', v \notin Busy PROVE v = u
          BY <3>1, <4>1, <5>1 DEF IInv, KeyInv
        <5>. QED
          BY <5>1 DEF Busy
      <4>3. IsFiniteSet(Busy \cup {u}) /\ Cardinality(Busy \cup {u}) = Cardinality(Busy) + 1
        BY <1>0, <4>1, FS_AddElement
      <4>4. Cardinality(Busy') <= Cardinality(Busy) + 1 /\ Cardinality(Busy') \in Nat
        BY <4>2, <4>3, FS_Subset, FS_CardinalityType
      <4>5. keys + Cardinality(Busy) < MaxKeys
        BY <3>1, <4>1 DEF KeyLeft, Busy
      <4>6. keys' + Cardinality(Busy') <= MaxKeys
        BY <1>0, <2>1, <4>4, <4>5
      <4>. QED
        BY <2>2, <4>6 DEF RestInv
    <3>. QED
      BY <3>2, <3>3
  <2>. QED
    BY <1>6, <2>3, <2>4, DeviceEffect
<1>7. ASSUME NEW t \in Tasks, Moves(t) PROVE RestInv'
  BY <1>1, <1>2, <1>3, <1>4, <1>7 DEF Moves
<1>. QED
  BY <1>5, <1>6, <1>7, NextCases

\* Every step keeps CallInv: only a call that ends gets an outcome.
LEMMA CallNext == IInv /\ [Next]_vars => CallInv'
<1>. SUFFICES ASSUME IInv, [Next]_vars
             PROVE  CallInv'
  OBVIOUS
<1>0. /\ TypeOK /\ CallInv /\ calls \in Nat /\ Calls \subseteq Nat /\ 0 \notin Calls
      /\ \A t \in Tasks : task[t].call \in Calls \cup {0}
  BY Typed, Types, LegacyAssumption DEF IInv, Calls, LegacyAssumption
<1>1. ASSUME NEW t \in Tasks, Over(t) PROVE CallInv'
  <2>1. PICK out \in Outcomes : Ends(t, out)
    BY <1>1 DEF Over
  <2>2. /\ Alone(t) /\ task'[t].at = "idle" /\ task'[t].call = 0
        /\ \A c \in Calls : c # task[t].call => outcome'[c] = outcome[c]
    BY <1>0, <2>1, OverEffect DEF Idle
  <2>3. calls' = calls /\ executed' = executed
    BY <2>1 DEF Ends, peer
  <2>4. task[t].call <= calls
    BY <1>0 DEF CallInv
  <2>5. ASSUME NEW c \in Calls, c > calls'
        PROVE  outcome'[c] = "none" /\ executed'[c] = 0
    <3>1. c > calls /\ c # task[t].call
      BY <1>0, <2>3, <2>4, <2>5
    <3>. QED
      BY <1>0, <2>2, <2>3, <3>1 DEF CallInv
  <2>6. \A u \in Tasks : u # t => task'[u] = task[u]
    BY <2>2 DEF Alone
  <2>7. /\ \A u \in Tasks : task'[u].at \in {"lock", "answer"} => task'[u].call \in 1..calls'
        /\ \A u \in Tasks : task'[u].at \notin {"lock", "answer"} => task'[u].call = 0
    BY <1>0, <2>2, <2>3, <2>6 DEF CallInv
  <2>8. \A u, v \in Tasks : task'[u].call = task'[v].call /\ task'[u].call # 0 => u = v
    BY <1>0, <2>2, <2>6 DEF CallInv
  <2>9. \A u \in Tasks : task'[u].call # 0 => outcome'[task'[u].call] = "none"
    BY <1>0, <2>2, <2>6 DEF CallInv
  <2>. QED
    BY <2>5, <2>7, <2>8, <2>9 DEF CallInv
<1>2. ASSUME NEW t \in Tasks, Begin(t) PROVE CallInv'
  <2>1. /\ Alone(t) /\ task'[t].at = "lock" /\ task'[t].call = calls + 1 /\ calls + 1 \in Calls
        /\ calls' = calls + 1 /\ outcome' = outcome /\ executed' = executed
    BY <1>0, <1>2, BeginEffect DEF Begin, peer
  <2>2. \A u \in Tasks : task[u].call <= calls
    BY <1>0 DEF CallInv
  <2>3. outcome[calls + 1] = "none"
    BY <1>0, <2>1 DEF CallInv
  <2>4. \A u \in Tasks : u # t => task'[u] = task[u] /\ task[u].call # calls + 1
    BY <1>0, <2>1, <2>2 DEF Alone
  <2>5. /\ \A u \in Tasks : task'[u].at \in {"lock", "answer"} => task'[u].call \in 1..calls'
        /\ \A u \in Tasks : task'[u].at \notin {"lock", "answer"} => task'[u].call = 0
    BY <1>0, <2>1, <2>4 DEF CallInv
  <2>6. \A u, v \in Tasks : task'[u].call = task'[v].call /\ task'[u].call # 0 => u = v
    BY <1>0, <2>1, <2>4 DEF CallInv
  <2>7. \A u \in Tasks : task'[u].call # 0 => outcome'[task'[u].call] = "none"
    BY <1>0, <2>1, <2>3, <2>4 DEF CallInv
  <2>8. \A c \in Calls : c > calls' => c > calls
    BY <1>0, <2>1
  <2>9. \A c \in Calls : c > calls' => outcome'[c] = "none" /\ executed'[c] = 0
    BY <1>0, <2>1, <2>8 DEF CallInv
  <2>. QED
    BY <2>5, <2>6, <2>7, <2>9 DEF CallInv
<1>3. ASSUME NEW t \in Tasks, Sends(t) PROVE CallInv'
  <2>1. /\ Alone(t) /\ task'[t].at = "answer" /\ task'[t].call = task[t].call
        /\ task[t].at = "lock" /\ calls' = calls /\ outcome' = outcome /\ executed' = executed
    BY <1>0, <1>3, SendsEffect DEF Sends, peer
  <2>2. \A u \in Tasks : task'[u].call = task[u].call
    BY <2>1 DEF Alone
  <2>3. \A u \in Tasks : task'[u].at \in {"lock", "answer"} <=> task[u].at \in {"lock", "answer"}
    BY <2>1 DEF Alone
  <2>. QED
    BY <1>0, <2>1, <2>2, <2>3 DEF CallInv
<1>4. ASSUME NEW t \in Tasks, Reauths(t) PROVE CallInv'
  <2>1. Alone(t)
    BY <1>4, MovesAlone DEF Moves, Reauths
  <2>. QED
    BY <1>0, <1>4, <2>1, ReauthsEffect DEF CallInv, Alone, peer
<1>5. CASE Rests
  BY <1>0, <1>5 DEF Rests, CallInv, peer
<1>6. ASSUME NEW p \in sent, DeviceHandle(p) PROVE CallInv'
  <2>1. UNCHANGED <<task, calls, outcome>>
    BY <1>6, DeviceEffect DEF client
  <2>2. \A c \in Calls : c > calls => executed'[c] = executed[c]
    <3>1. CASE executed' = executed
      BY <3>1
    <3>2. CASE Executes(p)
      <4>1. p.call <= calls
        BY <1>0, <3>2 DEF Executes, IInv, SentInv, Requests
      <4>2. executed \in [Calls -> Nat] /\ p.call \in Nat
        BY <1>0, <3>2, Types DEF Executes, IInv, SentInv, Requests
      <4>. QED
        BY <1>0, <3>2, <4>1, <4>2 DEF Executes
    <3>. QED
      BY <1>6, <3>1, <3>2, DeviceEffect DEF Busies, Otherwise
  <2>. QED
    BY <1>0, <2>1, <2>2 DEF CallInv
<1>7. ASSUME NEW t \in Tasks, Moves(t) PROVE CallInv'
  BY <1>1, <1>2, <1>3, <1>4, <1>7 DEF Moves, Reauths
<1>. QED
  BY <1>5, <1>6, <1>7, NextCases

\* Every step keeps SentInv: a request is on its way until it is executed or lost.
LEMMA SentNext == IInv /\ [Next]_vars => SentInv'
<1>. SUFFICES ASSUME IInv, [Next]_vars
             PROVE  SentInv'
  OBVIOUS
<1>0. /\ TypeOK /\ SentInv /\ CallInv /\ calls \in Nat /\ Calls \subseteq Nat /\ 0 \notin Calls
      /\ executed \in [Calls -> Nat]
  BY Typed, Types, LegacyAssumption DEF IInv, Calls, LegacyAssumption
<1>1. ASSUME NEW t \in Tasks, Over(t) PROVE SentInv'
  <2>1. PICK out \in Outcomes : Ends(t, out)
    BY <1>1 DEF Over
  <2>2. Alone(t) /\ task'[t].at = "idle"
    BY <1>0, <2>1, OverEffect DEF Idle
  <2>3. UNCHANGED <<calls, executed, sent>>
    BY <2>1 DEF Ends, peer
  <2>. QED
    BY <1>0, <2>2, <2>3 DEF SentInv, Requests, Alone
<1>2. ASSUME NEW t \in Tasks, Begin(t) PROVE SentInv'
  <2>1. /\ Alone(t) /\ task'[t].at = "lock" /\ task'[t].call = calls + 1 /\ calls + 1 \in Calls
        /\ calls' = calls + 1 /\ UNCHANGED <<executed, sent>>
    BY <1>0, <1>2, BeginEffect DEF Begin, peer
  <2>2. executed[calls + 1] = 0
    BY <1>0, <2>1 DEF CallInv
  <2>3. \A p \in Requests : p.call \in 1..calls /\ p.call # calls + 1
    BY <1>0 DEF SentInv
  <2>4. Requests' = Requests
    BY <2>1 DEF Requests
  <2>. QED
    BY <1>0, <2>1, <2>2, <2>3, <2>4 DEF SentInv, Alone
<1>3. ASSUME NEW t \in Tasks, Sends(t) PROVE SentInv'
  <2>1. /\ Alone(t) /\ task'[t].at = "answer" /\ task'[t].call = task[t].call
        /\ task[t].at = "lock" /\ UNCHANGED <<calls, executed>>
        /\ sent' = sent \cup {RequestOf(t)}
    BY <1>0, <1>3, SendsEffect DEF Sends, peer
  <2>2. Requests' = Requests \cup {RequestOf(t)} /\ RequestOf(t).call = task[t].call
    BY <2>1 DEF Requests, RequestOf
  <2>3. task[t].call \in 1..calls /\ \A u \in Tasks : u # t => task[u].call # task[t].call
    BY <1>0, <2>1 DEF CallInv
  <2>4. executed[task[t].call] = 0 /\ \A p \in Requests : p.call # task[t].call
    BY <1>0, <2>1 DEF SentInv
  <2>. QED
    BY <1>0, <2>1, <2>2, <2>3, <2>4 DEF SentInv, Alone
<1>4. ASSUME NEW t \in Tasks, Reauths(t) PROVE SentInv'
  <2>1. Alone(t)
    BY <1>4, MovesAlone DEF Moves, Reauths
  <2>2. Requests' = Requests
    BY <1>4, ReauthsRequests
  <2>. QED
    BY <1>0, <1>4, <2>1, <2>2, ReauthsEffect DEF SentInv, Alone, peer
<1>5. CASE Rests
  BY <1>0, <1>5 DEF Rests, SentInv, Requests, peer
<1>6. ASSUME NEW p \in sent, DeviceHandle(p) PROVE SentInv'
  <2>1. UNCHANGED <<task, calls>> /\ Requests' = Requests \ {p}
    BY <1>6, DeviceEffect DEF client, Requests
  <2>2. CASE executed' = executed
    BY <1>0, <2>1, <2>2 DEF SentInv
  <2>3. CASE Executes(p)
    <3>1. p \in Requests
      BY <2>3 DEF Executes, Requests
    <3>2. \A q \in Requests' : q.call # p.call /\ q.call \in 1..calls
      BY <1>0, <2>1, <3>1 DEF SentInv
    <3>3. \A t \in Tasks : task[t].at = "lock" => task[t].call # p.call
      BY <1>0, <3>1 DEF SentInv
    <3>4. \A c : c # p.call => executed'[c] = executed[c]
      BY <1>0, <2>3 DEF Executes
    <3>. QED
      BY <1>0, <2>1, <3>2, <3>3, <3>4 DEF SentInv
  <2>. QED
    BY <1>6, <2>2, <2>3, DeviceEffect DEF Busies, Otherwise
<1>7. ASSUME NEW t \in Tasks, Moves(t) PROVE SentInv'
  BY <1>1, <1>2, <1>3, <1>4, <1>7 DEF Moves, Reauths
<1>. QED
  BY <1>5, <1>6, <1>7, NextCases

\* Every step keeps KeyInv: offers take new keys, and the swap puts one in use.
LEMMA KeyNext == IInv /\ [Next]_vars => KeyInv'
<1>. SUFFICES ASSUME IInv, [Next]_vars
             PROVE  KeyInv'
  OBVIOUS
<1>0. /\ TypeOK /\ KeyInv /\ keys \in Nat /\ keys >= 1 /\ current \in Nat /\ current \in Keys
      /\ Keys \subseteq Nat /\ 0 \notin Keys
      /\ \A t \in Tasks : task[t].key \in Nat /\ task[t].old \in Nat
  BY Typed, Types, LegacyAssumption DEF IInv, Keys, LegacyAssumption
\* Unless a task goes to a point that holds a key, nothing is to be shown of it.
<1>a. ASSUME NEW t \in Tasks, Alone(t), UNCHANGED <<current, keys>>,
             task'[t].at \notin {"kex", "relock", "auth", "restore", "retire"},
             task'[t].key <= keys, task'[t].old <= keys
      PROVE  KeyInv'
  BY <1>0, <1>a DEF KeyInv, Fresh, Alone
<1>1. ASSUME NEW t \in Tasks, Over(t) PROVE KeyInv'
  <2>1. PICK out \in Outcomes : Ends(t, out)
    BY <1>1 DEF Over
  <2>2. Alone(t) /\ task'[t].at = "idle" /\ task'[t].key = 0 /\ task'[t].old = 0
    BY <1>0, <2>1, OverEffect DEF Idle
  <2>. QED
    BY <1>0, <1>a, <2>1, <2>2 DEF Ends
<1>2. ASSUME NEW t \in Tasks, Begin(t) PROVE KeyInv'
  <2>1. Alone(t) /\ task'[t].at = "lock" /\ task'[t].key = 0 /\ task'[t].old = 0
    BY <1>0, <1>2, BeginEffect
  <2>. QED
    BY <1>0, <1>2, <1>a, <2>1 DEF Begin
<1>3. ASSUME NEW t \in Tasks, Sends(t) PROVE KeyInv'
  <2>1. Alone(t) /\ task'[t].at = "answer" /\ task'[t].key = current /\ task'[t].old = task[t].old
    BY <1>0, <1>3, SendsEffect
  <2>2. current <= keys /\ task[t].old <= keys
    BY <1>0 DEF KeyInv
  <2>. QED
    BY <1>3, <1>a, <2>1, <2>2 DEF Sends
<1>4. ASSUME NEW t \in Tasks, Offers(t) PROVE KeyInv'
  <2>1. /\ Alone(t) /\ task'[t].at = "kex" /\ task'[t].key = keys + 1 /\ task'[t].old = current
        /\ keys' = keys + 1 /\ keys + 1 \in Keys /\ current' = current
    BY <1>0, <1>4, OffersEffect DEF Offers
  <2>2. current <= keys /\ \A u \in Tasks : task[u].key <= keys /\ task[u].old <= keys
    BY <1>0 DEF KeyInv
  <2>3. Fresh(keys + 1)'
    BY <1>0, <2>1, <2>2 DEF Fresh, Alone
  <2>4. \A u \in Tasks : u # t /\ Fresh(task[u].key) => Fresh(task[u].key)'
    BY <2>1 DEF Fresh, Alone
  <2>5. \A u \in Tasks : u # t => task'[u] = task[u] /\ task[u].key # keys + 1
    BY <1>0, <2>1, <2>2 DEF Alone
  <2>6. keys + 1 # current
    BY <1>0, <2>2
  <2>7. /\ current' <= keys'
        /\ \A u \in Tasks : task'[u].key <= keys' /\ task'[u].old <= keys'
    BY <1>0, <2>1, <2>2, <2>5
  <2>8. \A u \in Tasks : task'[u].at \in {"kex", "relock"} =>
          /\ task'[u].key \in Keys /\ task'[u].key # current' /\ (Fresh(task[u].key)' \/ u = t)
          /\ \A v \in Tasks : v # u /\ task'[v].at \in {"kex", "relock"} => task'[v].key # task'[u].key
    BY <1>0, <2>1, <2>4, <2>5, <2>6 DEF KeyInv
  <2>. QED
    BY <1>0, <2>1, <2>3, <2>4, <2>5, <2>6, <2>7, <2>8 DEF KeyInv, Fresh
<1>5. ASSUME NEW t \in Tasks, Agrees(t) PROVE KeyInv'
  <2>1. GoesTo(t, "relock") /\ UNCHANGED <<current, keys>> /\ task[t].at = "kex"
    BY <1>0, <1>5, AgreesEffect DEF Agrees
  <2>. QED
    BY <1>0, <2>1 DEF KeyInv, Fresh, GoesTo, Alone
<1>6. ASSUME NEW t \in Tasks, Swap(t) PROVE KeyInv'
  <2>1. task[t].at = "relock" /\ task[t].key \in Keys
    BY <1>6, KeyTyped DEF Swap
  <2>2. /\ Alone(t) /\ task'[t].at = "auth" /\ task'[t].key = task[t].key /\ task'[t].old = current
        /\ current' = task[t].key /\ keys' = keys
    BY <1>0, <1>6, <2>1, SwapEffect DEF Swap
  <2>3. \A u \in Tasks : u # t => task[u].at \notin {"auth", "restore"}
    BY <1>6, OthersOut DEF Swap, Free, LockPoints
  <2>4. task[t].key # current /\ Fresh(task[t].key) /\ task[t].key <= keys /\ current <= keys
    BY <1>0, <2>1 DEF KeyInv
  <2>. QED
    BY <1>0, <2>1, <2>2, <2>3, <2>4 DEF KeyInv, Fresh, Alone
<1>7. ASSUME NEW t \in Tasks, ReceiveAuth(t) \/ FailAuth(t) PROVE KeyInv'
  <2>1. /\ task[t].at = "auth" /\ task[t].key \in Keys /\ task[t].key = current
        /\ task[t].old \in Keys /\ task[t].old # current /\ task[t].old <= keys
    BY <1>0, <1>7, KeyTyped DEF ReceiveAuth, FailAuth, KeyInv
  <2>2. \A u \in Tasks : u # t => task[u].at \notin {"auth", "restore"}
    <3>1. lock = t
      BY <2>1 DEF IInv, LockInv, LockPoints
    <3>. QED
      BY <3>1, OthersOut DEF LockPoints
  <2>3. CASE ReceiveAuth(t)
    <3>1. GoesTo(t, "retire") /\ UNCHANGED <<current, keys>>
      BY <1>0, <2>1, <2>3, ReceiveAuthEffect DEF ReceiveAuth
    <3>. QED
      BY <1>0, <2>1, <2>2, <3>1 DEF KeyInv, Fresh, GoesTo, Alone
  <2>4. CASE FailAuth(t)
    <3>1. GoesTo(t, "restore") /\ current' = task[t].old /\ keys' = keys
      BY <1>0, <2>4, FailAuthEffect DEF FailAuth
    <3>. QED
      BY <1>0, <2>1, <2>2, <3>1 DEF KeyInv, Fresh, GoesTo, Alone
  <2>. QED
    BY <1>7, <2>3, <2>4
<1>8. CASE Rests \/ \E p \in sent : DeviceHandle(p)
  <2>1. UNCHANGED <<task, current, keys>>
    BY <1>8, DeviceEffect DEF Rests, client
  <2>. QED
    BY <1>0, <2>1 DEF KeyInv, Fresh
<1>9. ASSUME NEW t \in Tasks, Moves(t) PROVE KeyInv'
  BY <1>1, <1>2, <1>3, <1>4, <1>5, <1>6, <1>7, <1>9 DEF Moves
<1>. QED
  BY <1>8, <1>9, NextCases

\* Every step keeps PositionInv: nothing is enciphered at a position twice.
LEMMA PositionNext == IInv /\ [Next]_vars => PositionInv'
<1>. SUFFICES ASSUME IInv, [Next]_vars
             PROVE  PositionInv'
  OBVIOUS
<1>0. /\ TypeOK /\ KeyInv /\ PositionInv /\ keys \in Nat /\ current \in Keys /\ Keys \subseteq Nat
      /\ position \in [Keys -> Nat]
      /\ \A p \in sent : p.key \in Keys /\ p.pos \in Nat /\ p.kind \in {"request", "kex", "auth"}
      /\ \A t \in Tasks : task[t].key \in Nat /\ task[t].old \in Nat /\ task[t].pos \in Nat
  BY Typed, TypedMessage, Types DEF IInv, Keys
\* The cipher in use goes forward, and no task waits for an answer under it.
<1>a. ASSUME Forward(current)
      PROVE  \A k \in Keys : /\ position'[k] \in Nat /\ position'[k] >= position[k]
                             /\ position[k] = 0 => position'[k] = 0
                             /\ position[k] > 0 => position'[k] > 0
  BY <1>0, <1>a DEF Forward, PositionInv
<1>b. ASSUME NEW t \in Tasks, Alone(t), UNCHANGED <<sent, current, keys>>, Forward(current),
             \A u \in Tasks : u # t => task[u].at # "answer",
             task'[t].at \notin {"kex", "relock", "auth", "answer"}
      PROVE  PositionInv'
  <2>1. position'[current'] > 0 /\ \A k \in Keys : k > keys => position'[k] = 0
    BY <1>0, <1>a, <1>b DEF PositionInv
  <2>2. \A u \in Tasks : task'[u].at \in {"kex", "relock"} => position'[task'[u].key] = 0
    BY <1>0, <1>a, <1>b DEF PositionInv, KeyInv, Alone
  <2>3. \A u \in Tasks : task'[u].at = "auth" => position'[task'[u].old] > 0
    BY <1>0, <1>a, <1>b DEF PositionInv, KeyInv, Alone
  <2>4. \A u \in Tasks : task'[u].at # "answer"
    BY <1>b DEF Alone
  <2>5. \A p \in sent' : p.kind = "kex" =>
          /\ p.pos = 0 /\ p.call = 0 /\ p.key <= keys' /\ position'[p.key] = 0
          /\ \A u \in Tasks : task'[u].at = "relock" => task'[u].key # p.key
    BY <1>0, <1>a, <1>b DEF PositionInv, Alone
  <2>6. \A p \in sent' : p.kind = "auth" => p.pos = 0 /\ position'[p.key] > 0
    BY <1>0, <1>a, <1>b DEF PositionInv
  <2>7. \A p \in Requests' : p.pos > 0 /\ p.pos < position'[p.key]
    <3>1. ASSUME NEW p \in Requests PROVE p.pos > 0 /\ p.pos < position'[p.key]
      <4>1. p.key \in Keys /\ p.pos \in Nat /\ p.pos > 0 /\ p.pos < position[p.key]
        BY <1>0 DEF PositionInv, Requests
      <4>2. position'[p.key] \in Nat /\ position[p.key] \in Nat /\ position'[p.key] >= position[p.key]
        BY <1>0, <1>a, <1>b, <4>1
      <4>. QED
        BY <4>1, <4>2
    <3>. QED
      BY <1>b, <3>1 DEF Requests
  <2>. QED
    BY <1>b, <2>1, <2>2, <2>3, <2>4, <2>5, <2>6, <2>7 DEF PositionInv
<1>1. ASSUME NEW t \in Tasks, Over(t) PROVE PositionInv'
  <2>1. PICK out \in Outcomes : Ends(t, out)
    BY <1>1 DEF Over
  <2>2. /\ Alone(t) /\ task'[t].at = "idle" /\ position' \in [Keys -> Nat]
        /\ UNCHANGED <<sent, current, keys>>
    BY <1>0, <2>1, OverEffect DEF Idle, Ends
  <2>3. CASE position' = position
    BY <1>0, <2>2, <2>3 DEF PositionInv, Requests, Alone
  <2>4. CASE /\ position' = [position EXCEPT ![current] = @ + 1]
             /\ \A u \in Tasks : u # t => task[u].at \notin LockPoints
    <3>1. Forward(current)
      BY <1>0, <2>2, <2>4 DEF Forward
    <3>2. \A u \in Tasks : u # t => task[u].at # "answer"
      BY <2>4 DEF LockPoints
    <3>. QED
      BY <1>b, <2>2, <3>1, <3>2
  <2>. QED
    BY <2>1, <2>3, <2>4 DEF Ends
<1>2. ASSUME NEW t \in Tasks, Begin(t) PROVE PositionInv'
  <2>1. Alone(t) /\ task'[t].at = "lock" /\ UNCHANGED <<position, sent, current, keys>>
    BY <1>0, <1>2, BeginEffect DEF Begin
  <2>. QED
    BY <1>0, <2>1 DEF PositionInv, Requests, Alone
<1>3. ASSUME NEW t \in Tasks, Sends(t) PROVE PositionInv'
  <2>1. /\ Alone(t) /\ task'[t].at = "answer" /\ task'[t].key = current
        /\ task'[t].pos = position[current] /\ Forward(current)
        /\ sent' = sent \cup {RequestOf(t)} /\ UNCHANGED <<current, keys>>
    BY <1>0, <1>3, SendsEffect DEF Sends
  <2>2. \A u \in Tasks : u # t => task[u].at # "answer"
    BY <1>3, OthersOut DEF Sends, LockPoints
  <2>3. position'[current'] > 0 /\ \A k \in Keys : k > keys => position'[k] = 0
    BY <1>0, <1>a, <2>1 DEF PositionInv
  <2>4. \A u \in Tasks : task'[u].at \in {"kex", "relock"} => position'[task'[u].key] = 0
    BY <1>0, <1>a, <2>1 DEF PositionInv, KeyInv, Alone
  <2>5. \A u \in Tasks : task'[u].at = "auth" => position'[task'[u].old] > 0
    BY <1>0, <1>a, <2>1 DEF PositionInv, KeyInv, Alone
  <2>6. \A u \in Tasks : task'[u].at = "answer" =>
          task'[u].key = current' /\ task'[u].pos > 0 /\ task'[u].pos + 1 = position'[current']
    <3>1. position[current] > 0 /\ position'[current] = position[current] + 1
      BY <1>0, <2>1 DEF PositionInv, Forward
    <3>. QED
      BY <2>1, <2>2, <3>1 DEF Alone
  <2>7. \A p \in sent' : p.kind = "kex" =>
          /\ p.pos = 0 /\ p.call = 0 /\ p.key <= keys' /\ position'[p.key] = 0
          /\ \A u \in Tasks : task'[u].at = "relock" => task'[u].key # p.key
    <3>1. RequestOf(t).kind = "request"
      BY DEF RequestOf
    <3>. QED
      BY <1>0, <1>a, <2>1, <3>1 DEF PositionInv, Alone
  <2>8. \A p \in sent' : p.kind = "auth" => p.pos = 0 /\ position'[p.key] > 0
    <3>1. RequestOf(t).kind = "request"
      BY DEF RequestOf
    <3>. QED
      BY <1>0, <1>a, <2>1, <3>1 DEF PositionInv
  <2>9. \A p \in Requests' : p.pos > 0 /\ p.pos < position'[p.key]
    <3>1. ASSUME NEW p \in Requests PROVE p.pos > 0 /\ p.pos < position'[p.key]
      <4>1. p.key \in Keys /\ p.pos \in Nat /\ p.pos > 0 /\ p.pos < position[p.key]
        BY <1>0 DEF PositionInv, Requests
      <4>2. position'[p.key] \in Nat /\ position[p.key] \in Nat /\ position'[p.key] >= position[p.key]
        BY <1>0, <1>a, <2>1, <4>1
      <4>. QED
        BY <4>1, <4>2
    <3>2. RequestOf(t).pos > 0 /\ RequestOf(t).pos < position'[RequestOf(t).key]
      BY <1>0, <2>1 DEF RequestOf, PositionInv, Forward
    <3>. QED
      BY <2>1, <3>1, <3>2 DEF Requests
  <2>. QED
    BY <2>1, <2>3, <2>4, <2>5, <2>6, <2>7, <2>8, <2>9 DEF PositionInv
<1>4. ASSUME NEW t \in Tasks, Offers(t) PROVE PositionInv'
  <2>1. /\ Alone(t) /\ task'[t].at = "kex" /\ task'[t].key = keys + 1
        /\ keys' = keys + 1 /\ keys + 1 \in Keys
        /\ sent' = sent \cup {[kind |-> "kex", key |-> keys + 1, pos |-> 0, call |-> 0]}
        /\ UNCHANGED <<current, position>>
    BY <1>0, <1>4, OffersEffect DEF Offers
  <2>2. \A u \in Tasks : task[u].key <= keys
    BY <1>0 DEF KeyInv
  <2>3. Requests' = Requests
    BY <2>1 DEF Requests
  <2>4. position[keys + 1] = 0
    BY <1>0, <2>1 DEF PositionInv
  <2>5. position'[current'] > 0 /\ \A k \in Keys : k > keys' => position'[k] = 0
    BY <1>0, <2>1 DEF PositionInv
  <2>6. \A u \in Tasks : task'[u].at \in {"kex", "relock"} => position'[task'[u].key] = 0
    BY <1>0, <2>1, <2>4 DEF PositionInv, Alone
  <2>7. \A u \in Tasks : task'[u].at = "auth" => position'[task'[u].old] > 0
    BY <1>0, <2>1 DEF PositionInv, Alone
  <2>8. \A u \in Tasks : task'[u].at = "answer" =>
          task'[u].key = current' /\ task'[u].pos > 0 /\ task'[u].pos + 1 = position'[current']
    BY <1>0, <2>1 DEF PositionInv, Alone
  <2>9. \A p \in sent' : p.kind = "kex" =>
          /\ p.pos = 0 /\ p.call = 0 /\ p.key <= keys' /\ position'[p.key] = 0
          /\ \A u \in Tasks : task'[u].at = "relock" => task'[u].key # p.key
    <3>1. ASSUME NEW p \in sent, p.kind = "kex"
          PROVE  /\ p.pos = 0 /\ p.call = 0 /\ p.key <= keys' /\ position'[p.key] = 0
                 /\ \A u \in Tasks : task'[u].at = "relock" => task'[u].key # p.key
      <4>1. p.key <= keys /\ p.key \in Nat
        BY <1>0, <3>1 DEF PositionInv
      <4>. QED
        BY <1>0, <2>1, <3>1, <4>1 DEF PositionInv, Alone
    <3>2. \A u \in Tasks : task'[u].at = "relock" => task'[u].key # keys + 1
      BY <1>0, <2>1, <2>2 DEF Alone
    <3>. QED
      BY <1>0, <2>1, <2>4, <3>1, <3>2
  <2>10. \A p \in sent' : p.kind = "auth" => p.pos = 0 /\ position'[p.key] > 0
    BY <1>0, <2>1 DEF PositionInv
  <2>11. \A p \in Requests' : p.pos > 0 /\ p.pos < position'[p.key]
    BY <1>0, <2>1, <2>3 DEF PositionInv
  <2>. QED
    BY <2>5, <2>6, <2>7, <2>8, <2>9, <2>10, <2>11 DEF PositionInv
<1>5. ASSUME NEW t \in Tasks, Agrees(t) PROVE PositionInv'
  <2>1. /\ GoesTo(t, "relock") /\ UNCHANGED <<current, keys, position, sent>>
        /\ task[t].at = "kex" /\ reply[t].kind # "none"
    BY <1>0, <1>5, AgreesEffect DEF Agrees
  <2>2. \A p \in sent : p.kind = "kex" => p.key # task[t].key
    BY <2>1 DEF IInv, ReplyInv
  <2>3. \A u \in Tasks : task'[u].at \in {"kex", "relock"} => position'[task'[u].key] = 0
    BY <1>0, <2>1 DEF PositionInv, GoesTo, Alone
  <2>4. \A u \in Tasks : task'[u].at = "auth" => position'[task'[u].old] > 0
    BY <1>0, <2>1 DEF PositionInv, GoesTo, Alone
  <2>0. Requests' = Requests
    BY <2>1 DEF Requests
  <2>5. \A u \in Tasks : task'[u].at = "answer" =>
          task'[u].key = current' /\ task'[u].pos > 0 /\ task'[u].pos + 1 = position'[current']
    BY <1>0, <2>1 DEF PositionInv, GoesTo, Alone
  <2>6. \A p \in sent' : p.kind = "kex" =>
          \A u \in Tasks : task'[u].at = "relock" => task'[u].key # p.key
    BY <1>0, <2>1, <2>2 DEF PositionInv, GoesTo, Alone
  <2>. QED
    BY <1>0, <2>0, <2>1, <2>3, <2>4, <2>5, <2>6 DEF PositionInv
<1>6. ASSUME NEW t \in Tasks, Swap(t) PROVE PositionInv'
  <2>1. task[t].at = "relock" /\ task[t].key \in Keys
    BY <1>6, KeyTyped DEF Swap
  <2>2. /\ Alone(t) /\ task'[t].at = "auth" /\ task'[t].key = task[t].key /\ task'[t].old = current
        /\ Forward(task[t].key) /\ sent' = sent \cup {TokenOf(t)}
        /\ current' = task[t].key /\ keys' = keys
    BY <1>0, <1>6, <2>1, SwapEffect DEF Swap
  <2>3. \A u \in Tasks : u # t => task[u].at \notin {"auth", "answer"}
    BY <1>6, OthersOut DEF Swap, Free, LockPoints
  <2>4. /\ task[t].key # current /\ task[t].key <= keys
        /\ \A u \in Tasks : u # t /\ task[u].at \in {"kex", "relock"} => task[u].key # task[t].key
    BY <1>0, <2>1 DEF KeyInv
  <2>5. position[task[t].key] = 0 /\ position'[task[t].key] = 1
    BY <1>0, <2>1, <2>2 DEF PositionInv, Forward
  <2>6. TokenOf(t).kind = "auth" /\ TokenOf(t).pos = 0 /\ TokenOf(t).key = task[t].key
    BY <2>5 DEF TokenOf
  <2>7. \A p \in sent : p.kind = "kex" => p.key # task[t].key
    BY <1>0, <2>1 DEF PositionInv
  <2>8. \A p \in Requests : p.key # task[t].key
    BY <1>0, <2>5 DEF PositionInv, Requests
  <2>9. Requests' = Requests
    BY <2>2, <2>6 DEF Requests
  <2>10. \A k \in Keys : k # task[t].key => position'[k] = position[k]
    BY <2>2 DEF Forward
  <2>11. position'[current'] > 0 /\ \A k \in Keys : k > keys' => position'[k] = 0
    BY <1>0, <2>1, <2>2, <2>4, <2>5, <2>10 DEF PositionInv
  <2>12. \A u \in Tasks : task'[u].at \in {"kex", "relock"} => position'[task'[u].key] = 0
    BY <1>0, <2>2, <2>4, <2>10 DEF PositionInv, KeyInv, Alone
  <2>13. \A u \in Tasks : task'[u].at = "auth" => position'[task'[u].old] > 0
    BY <1>0, <2>2, <2>3, <2>4, <2>10 DEF PositionInv, Alone
  <2>14. \A u \in Tasks : task'[u].at # "answer"
    BY <2>2, <2>3 DEF Alone
  <2>15. \A p \in sent' : p.kind = "kex" =>
           /\ p.pos = 0 /\ p.call = 0 /\ p.key <= keys' /\ position'[p.key] = 0
           /\ \A u \in Tasks : task'[u].at = "relock" => task'[u].key # p.key
    BY <1>0, <2>2, <2>6, <2>7, <2>10 DEF PositionInv, Alone
  <2>16. \A p \in sent' : p.kind = "auth" => p.pos = 0 /\ position'[p.key] > 0
    <3>1. ASSUME NEW p \in sent, p.kind = "auth"
          PROVE  p.pos = 0 /\ position'[p.key] > 0
      <4>1. p.key \in Keys /\ p.pos = 0 /\ position[p.key] > 0
        BY <1>0, <3>1 DEF PositionInv
      <4>2. p.key # task[t].key
        BY <2>5, <4>1
      <4>. QED
        BY <2>10, <4>1, <4>2
    <3>2. TokenOf(t).pos = 0 /\ position'[TokenOf(t).key] > 0
      BY <2>5, <2>6
    <3>. QED
      BY <2>2, <3>1, <3>2
  <2>17. \A p \in Requests' : p.pos > 0 /\ p.pos < position'[p.key]
    BY <1>0, <2>8, <2>9, <2>10 DEF PositionInv, Requests
  <2>. QED
    BY <2>11, <2>12, <2>13, <2>14, <2>15, <2>16, <2>17 DEF PositionInv
<1>7. ASSUME NEW t \in Tasks, ReceiveAuth(t) PROVE PositionInv'
  <2>1. task[t].at = "auth" /\ task[t].key = current
    BY <1>0, <1>7 DEF ReceiveAuth, KeyInv
  <2>2. Alone(t) /\ task'[t].at = "retire" /\ Forward(current) /\ UNCHANGED <<sent, current, keys>>
    BY <1>0, <1>7, <2>1, ReceiveAuthEffect DEF ReceiveAuth, GoesTo
  <2>3. \A u \in Tasks : u # t => task[u].at # "answer"
    <3>1. lock = t
      BY <2>1 DEF IInv, LockInv, LockPoints
    <3>. QED
      BY <3>1, OthersOut DEF LockPoints
  <2>. QED
    BY <1>b, <2>2, <2>3
<1>8. ASSUME NEW t \in Tasks, FailAuth(t) PROVE PositionInv'
  <2>1. /\ task[t].at = "auth" /\ position[task[t].old] > 0
        /\ GoesTo(t, "restore") /\ current' = task[t].old /\ UNCHANGED <<position, sent, keys>>
    BY <1>0, <1>8, FailAuthEffect DEF FailAuth, PositionInv
  <2>2. \A u \in Tasks : u # t => task[u].at # "answer"
    <3>1. lock = t
      BY <2>1 DEF IInv, LockInv, LockPoints
    <3>. QED
      BY <3>1, OthersOut DEF LockPoints
  <2>. QED
    BY <1>0, <2>1, <2>2 DEF PositionInv, Requests, GoesTo, Alone
<1>9. CASE Rests
  BY <1>0, <1>9 DEF Rests, PositionInv, Requests
<1>10. ASSUME NEW p \in sent, DeviceHandle(p) PROVE PositionInv'
  <2>1. UNCHANGED <<task, current, keys, position>> /\ sent' = sent \ {p}
    BY <1>10, DeviceEffect DEF client
  <2>. QED
    BY <1>0, <2>1 DEF PositionInv, Requests
<1>11. ASSUME NEW t \in Tasks, Moves(t) PROVE PositionInv'
  BY <1>1, <1>2, <1>3, <1>4, <1>5, <1>6, <1>7, <1>8, <1>11 DEF Moves
<1>. QED
  BY <1>9, <1>10, <1>11, NextCases

\* Every step keeps ReplyInv: a reply to a request is enciphered right after it.
LEMMA ReplyNext == IInv /\ [Next]_vars => ReplyInv'
<1>. SUFFICES ASSUME IInv, [Next]_vars
             PROVE  ReplyInv'
  OBVIOUS
<1>0. /\ TypeOK /\ ReplyInv /\ executed \in [Calls -> Nat] /\ keys \in Nat
      /\ \A t \in Tasks : task[t].key \in Nat
  BY Typed, Types DEF IInv, Keys
\* A task that waits for no answer and no key concerns nobody else.
<1>a. ASSUME NEW t \in Tasks, Alone(t), task'[t].at \notin {"answer", "kex"},
             \A u \in Tasks : u # t => reply'[u] = reply[u],
             Requests' = Requests, \A p \in sent' : p.kind = "kex" => p \in sent,
             executed' = executed
      PROVE  ReplyInv'
  BY <1>0, <1>a DEF ReplyInv, Own, Alone
<1>1. ASSUME NEW t \in Tasks, Over(t) PROVE ReplyInv'
  <2>1. PICK out \in Outcomes : Ends(t, out)
    BY <1>1 DEF Over
  <2>2. Alone(t) /\ task'[t].at = "idle" /\ Taken(t)
    BY <1>0, <2>1, OverEffect DEF Idle
  <2>3. sent' = sent /\ executed' = executed
    BY <2>1 DEF Ends, peer
  <2>. QED
    BY <1>a, <2>2, <2>3 DEF Taken, Requests
<1>2. ASSUME NEW t \in Tasks, Begin(t) PROVE ReplyInv'
  <2>1. Alone(t) /\ task'[t].at = "lock" /\ UNCHANGED <<sent, reply, executed>>
    BY <1>0, <1>2, BeginEffect DEF Begin, peer
  <2>. QED
    BY <1>a, <2>1 DEF Requests
<1>3. ASSUME NEW t \in Tasks, Sends(t) PROVE ReplyInv'
  <2>1. /\ Alone(t) /\ task'[t].at = "answer" /\ task'[t].key = current
        /\ task'[t].pos = position[current] /\ task'[t].call = task[t].call
        /\ sent' = sent \cup {RequestOf(t)} /\ UNCHANGED <<reply, executed>>
        /\ task[t].at = "lock"
    BY <1>0, <1>3, SendsEffect DEF Sends, peer
  <2>2. \A u \in Tasks : u # t => task[u].at # "answer"
    BY <1>3, OthersOut DEF Sends, LockPoints
  <2>3. reply[t].kind = "none"
    BY <2>1 DEF IInv, RestInv, Waiting, WaitPoints, NoReply
  <2>4. \A p \in Requests : ~(p.key = current /\ p.pos = position[current]) /\ p.call # task[t].call
    <3>1. ASSUME NEW p \in Requests PROVE ~(p.key = current /\ p.pos = position[current])
      <4>1. p.pos < position[p.key] /\ p.pos \in Nat
        BY <1>0, TypedMessage DEF IInv, PositionInv, Requests
      <4>. QED
        BY <4>1
    <3>2. \A p \in Requests : p.call # task[t].call
      BY <2>1 DEF IInv, SentInv
    <3>. QED
      BY <3>1, <3>2
  <2>5. /\ RequestOf(t).key = current /\ RequestOf(t).pos = position[current]
        /\ RequestOf(t).call = task[t].call /\ RequestOf(t).kind = "request"
    BY DEF RequestOf
  <2>6. Requests' = Requests \cup {RequestOf(t)}
    BY <2>1, <2>5 DEF Requests
  <2>7. \A p \in sent' : p.kind = "kex" => p \in sent
    BY <2>1, <2>5
  <2>8. \A u \in Tasks, p \in Requests' : task'[u].at = "answer" =>
          (Own(u, p)' <=> p.call = task'[u].call)
    BY <2>1, <2>2, <2>4, <2>5, <2>6 DEF Own, Alone
  <2>. QED
    BY <1>0, <2>1, <2>2, <2>3, <2>7, <2>8 DEF ReplyInv, Own, Alone
<1>4. ASSUME NEW t \in Tasks, Offers(t) PROVE ReplyInv'
  <2>1. /\ Alone(t) /\ Taken(t) /\ task'[t].at = "kex"
        /\ sent' = sent \cup {[kind |-> "kex", key |-> keys + 1, pos |-> 0, call |-> 0]}
        /\ executed' = executed
    BY <1>0, <1>4, OffersEffect DEF Offers, peer
  <2>2. Requests' = Requests
    BY <1>4, ReauthsRequests DEF Reauths
  <2>3. \A u \in Tasks : task[u].key # keys + 1
    BY <1>0 DEF IInv, KeyInv
  <2>4. \A u \in Tasks : task'[u].at = "kex" /\ reply'[u].kind # "none" =>
          \A p \in sent' : p.kind = "kex" => p.key # task'[u].key
    BY <1>0, <2>1, <2>3 DEF ReplyInv, Alone, Taken, NoReply
  <2>. QED
    BY <1>0, <2>1, <2>2, <2>4 DEF ReplyInv, Own, Alone, Taken
<1>5. ASSUME NEW t \in Tasks, Agrees(t) \/ Swap(t) \/ ReceiveAuth(t) \/ FailAuth(t) PROVE ReplyInv'
  <2>1. Alone(t) /\ Requests' = Requests
    BY <1>5, MovesAlone, ReauthsRequests DEF Moves, Reauths
  <2>2. executed' = executed /\ \A u \in Tasks : u # t => reply'[u] = reply[u]
    BY <1>0, <1>5, Types DEF Agrees, Swap, ReceiveAuth, FailAuth, peer
  <2>3. task'[t].at \notin {"answer", "kex"}
    BY <1>0, <1>5, Types DEF Agrees, Swap, ReceiveAuth, FailAuth, TaskType
  <2>4. \A p \in sent' : p.kind = "kex" => p \in sent
    <3>1. CASE Swap(t)
      BY <3>1 DEF Swap, Transmit
    <3>2. CASE Agrees(t) \/ ReceiveAuth(t) \/ FailAuth(t)
      BY <3>2 DEF Agrees, ReceiveAuth, FailAuth
    <3>. QED
      BY <1>5, <3>1, <3>2
  <2>. QED
    BY <1>a, <2>1, <2>2, <2>3, <2>4
<1>6. CASE Rests
  BY <1>0, <1>6 DEF Rests, ReplyInv, Own, Requests, peer
<1>7. ASSUME NEW p \in sent, DeviceHandle(p) PROVE ReplyInv'
  <2>1. task' = task /\ sent' = sent \ {p} /\ Requests' = Requests \ {p}
    BY <1>7, DeviceEffect DEF client, Requests
  <2>2. \A u \in Tasks : Own(u, p)' <=> Own(u, p)
    BY <2>1 DEF Own
  <2>3. \A u \in Tasks : Own(u, p) /\ task[u].at = "answer" => p \in Requests /\ p.call = task[u].call
    BY <1>0, OwnKind DEF ReplyInv, Requests
  <2>4. \A u \in Tasks : Own(u, p) /\ task[u].at = "kex" =>
          p.kind = "kex" /\ \A q \in sent' : q.kind = "kex" => q.key # task[u].key
    <3>1. ASSUME NEW u \in Tasks, Own(u, p), task[u].at = "kex", NEW q \in sent, q.kind = "kex",
                 q.key = task[u].key
          PROVE  q = p
      <4>1. p.kind = "kex" /\ p.key = q.key
        BY <3>1, OwnKind DEF Own
      <4>2. p.pos = 0 /\ p.call = 0 /\ q.pos = 0 /\ q.call = 0
        BY <3>1, <4>1 DEF IInv, PositionInv
      <4>3. p \in SentType /\ q \in SentType
        BY <1>0, TypedMessage
      <4>. QED
        BY <3>1, <4>1, <4>2, <4>3 DEF SentType
    <3>. QED
      BY <2>1, <3>1, OwnKind
  <2>5. \A u \in Tasks : task[u].at = "kex" /\ reply'[u].kind # "none" =>
          \A q \in sent' : q.kind = "kex" => q.key # task[u].key
    <3>1. \A u \in Tasks : reply'[u] = reply[u] \/ Own(u, p)
      BY <1>7, DeviceEffect DEF Busies, Executes, Otherwise, Replies
    <3>. QED
      BY <1>0, <2>1, <2>4, <3>1 DEF ReplyInv
  <2>6. \A u \in Tasks, q \in Requests' : task[u].at = "answer" =>
          (Own(u, q)' <=> q.call = task[u].call)
    BY <1>0, <2>1 DEF ReplyInv, Own
  <2>7. \A q \in Requests : q.call = p.call /\ p \in Requests => q = p
    BY DEF IInv, SentInv
  <2>8. CASE Busies(p)
    <3>1. \A u \in Tasks : task[u].at = "answer" => reply'[u] = reply[u]
      BY <2>3, <2>8 DEF Busies, Replies, Requests
    <3>2. executed' = executed
      BY <2>8 DEF Busies
    <3>. QED
      BY <1>0, <2>1, <2>5, <2>6, <3>1, <3>2 DEF ReplyInv
  <2>9. CASE Executes(p)
    <3>1. /\ p \in Requests /\ p.call \in Calls /\ executed[p.call] = 0
          /\ executed' = [executed EXCEPT ![p.call] = 1]
      <4>1. p \in Requests /\ p.call \in Calls /\ executed[p.call] = 0
        BY <1>0, <2>9, TypedMessage, LegacyAssumption
           DEF Executes, Requests, IInv, SentInv, LegacyAssumption
      <4>. QED
        BY <1>0, <2>9, <4>1 DEF Executes
    <3>2. \A u \in Tasks : task[u].at = "answer" =>
            \/ Own(u, p) /\ reply'[u].kind = "data" /\ reply'[u].pos = p.pos + 1
            \/ ~Own(u, p) /\ reply'[u] = reply[u]
      BY <2>9 DEF Executes, Replies, Waiting, WaitPoints
    <3>3. \A u \in Tasks : task[u].at = "answer" /\ reply'[u].kind = "data" =>
            /\ reply'[u].pos = task[u].pos + 1
            /\ executed'[task[u].call] = 1
            /\ \A q \in Requests' : q.call # task[u].call
      <4>1. ASSUME NEW u \in Tasks, task[u].at = "answer", reply'[u].kind = "data", Own(u, p)
            PROVE  /\ reply'[u].pos = task[u].pos + 1
                   /\ executed'[task[u].call] = 1
                   /\ \A q \in Requests' : q.call # task[u].call
        BY <1>0, <2>1, <2>3, <2>7, <3>1, <3>2, <4>1 DEF Own
      <4>2. ASSUME NEW u \in Tasks, task[u].at = "answer", reply'[u].kind = "data", ~Own(u, p)
            PROVE  /\ reply'[u].pos = task[u].pos + 1
                   /\ executed'[task[u].call] = 1
                   /\ \A q \in Requests' : q.call # task[u].call
        <5>1. /\ reply'[u].pos = task[u].pos + 1 /\ executed[task[u].call] = 1
              /\ \A q \in Requests : q.call # task[u].call
          BY <1>0, <3>2, <4>2 DEF ReplyInv
        <5>. QED
          BY <1>0, <2>1, <3>1, <5>1
      <4>. QED
        BY <4>1, <4>2
    <3>4. \A u \in Tasks : task[u].at = "answer" /\ reply'[u].kind = "expired" =>
            /\ executed'[task[u].call] = 0
            /\ \A q \in Requests' : q.call # task[u].call
      <4>1. ASSUME NEW u \in Tasks, task[u].at = "answer", reply'[u].kind = "expired"
            PROVE  /\ executed'[task[u].call] = 0
                   /\ \A q \in Requests' : q.call # task[u].call
        <5>1. executed[task[u].call] = 0 /\ \A q \in Requests : q.call # task[u].call
          BY <1>0, <3>2, <4>1 DEF ReplyInv
        <5>. QED
          BY <1>0, <2>1, <3>1, <5>1
      <4>. QED
        BY <4>1
    <3>5. \A u \in Tasks : task[u].at = "answer" => reply'[u].kind # "busy"
      BY <1>0, <3>2 DEF ReplyInv
    <3>. QED
      BY <2>1, <2>5, <2>6, <3>3, <3>4, <3>5 DEF ReplyInv
  <2>10. CASE Otherwise(p)
    <3>1. executed' = executed
      BY <2>10 DEF Otherwise
    <3>2. \A u \in Tasks : task[u].at = "answer" =>
            \/ Own(u, p) /\ reply'[u].kind \in {"expired", "error"}
            \/ ~Own(u, p) /\ reply'[u] = reply[u]
      BY <2>3, <2>10 DEF Otherwise, Replies, Waiting, WaitPoints, Requests
    <3>3. \A u \in Tasks : task[u].at = "answer" /\ reply'[u].kind = "data" =>
            /\ reply'[u].pos = task[u].pos + 1
            /\ executed'[task[u].call] = 1
            /\ \A q \in Requests' : q.call # task[u].call
      BY <1>0, <2>1, <3>1, <3>2 DEF ReplyInv
    <3>4. \A u \in Tasks : task[u].at = "answer" /\ reply'[u].kind = "expired" =>
            /\ executed'[task[u].call] = 0
            /\ \A q \in Requests' : q.call # task[u].call
      <4>1. ASSUME NEW u \in Tasks, task[u].at = "answer", reply'[u].kind = "expired", Own(u, p)
            PROVE  /\ executed'[task[u].call] = 0
                   /\ \A q \in Requests' : q.call # task[u].call
        <5>1. p \in Requests /\ p.call = task[u].call /\ executed[p.call] = 0
          BY <2>3, <4>1 DEF IInv, SentInv
        <5>. QED
          BY <2>1, <2>7, <3>1, <5>1
      <4>2. ASSUME NEW u \in Tasks, task[u].at = "answer", reply'[u].kind = "expired", ~Own(u, p)
            PROVE  /\ executed'[task[u].call] = 0
                   /\ \A q \in Requests' : q.call # task[u].call
        BY <1>0, <2>1, <3>1, <3>2, <4>2 DEF ReplyInv
      <4>. QED
        BY <4>1, <4>2
    <3>5. \A u \in Tasks : task[u].at = "answer" => reply'[u].kind # "busy"
      BY <1>0, <3>2 DEF ReplyInv
    <3>. QED
      BY <2>1, <2>5, <2>6, <3>3, <3>4, <3>5 DEF ReplyInv
  <2>. QED
    BY <1>7, <2>8, <2>9, <2>10, DeviceEffect
<1>8. ASSUME NEW t \in Tasks, Moves(t) PROVE ReplyInv'
  BY <1>1, <1>2, <1>3, <1>4, <1>5, <1>8 DEF Moves
<1>. QED
  BY <1>6, <1>7, <1>8, NextCases

\* Every step keeps OutcomeInv: a call succeeds only with the reply to its own request.
LEMMA OutcomeNext == IInv /\ [Next]_vars => OutcomeInv'
<1>. SUFFICES ASSUME IInv, [Next]_vars
             PROVE  OutcomeInv'
  OBVIOUS
<1>0. /\ TypeOK /\ OutcomeInv /\ CallInv /\ executed \in [Calls -> Nat] /\ 0 \notin Calls
      /\ \A t \in Tasks : task[t].call \in Calls \cup {0}
  BY Typed, Types DEF IInv, Calls
<1>1. ASSUME NEW t \in Tasks, Over(t) PROVE OutcomeInv'
  <2>1. PICK out \in Outcomes : Ends(t, out)
    BY <1>1 DEF Over
  <2>2. \A c \in Calls : outcome'[c] = IF c = task[t].call THEN out ELSE outcome[c]
    BY <1>0, <2>1, OverEffect
  <2>3. Requests' = Requests /\ executed' = executed
    BY <2>1 DEF Ends, Requests, peer
  <2>4. task[t].call \in Calls =>
          /\ out # "garbage"
          /\ out \in {"ok", "expired"} =>
               /\ executed[task[t].call] = IF out = "ok" THEN 1 ELSE 0
               /\ \A p \in Requests : p.call # task[t].call
    BY <1>0, <2>1 DEF Ends, Earned, IInv, ReplyInv
  <2>. QED
    BY <1>0, <2>2, <2>3, <2>4 DEF OutcomeInv
<1>2. ASSUME NEW t \in Tasks, Sends(t) PROVE OutcomeInv'
  <2>1. /\ sent' = sent \cup {RequestOf(t)} /\ UNCHANGED <<outcome, executed>>
        /\ task[t].at = "lock"
    BY <1>0, <1>2, SendsEffect DEF Sends, peer
  <2>2. RequestOf(t).call = task[t].call /\ RequestOf(t).kind = "request"
    BY DEF RequestOf
  <2>3. task[t].call \in Calls => outcome[task[t].call] = "none"
    BY <1>0 DEF CallInv
  <2>4. Requests' = Requests \cup {RequestOf(t)}
    BY <2>1, <2>2 DEF Requests
  <2>. QED
    BY <1>0, <2>1, <2>2, <2>3, <2>4 DEF OutcomeInv
<1>3. ASSUME NEW t \in Tasks, Begin(t) PROVE OutcomeInv'
  BY <1>0, <1>3 DEF Begin, OutcomeInv, Requests, peer
<1>4. ASSUME NEW t \in Tasks, Reauths(t) PROVE OutcomeInv'
  BY <1>0, <1>4, ReauthsEffect, ReauthsRequests DEF OutcomeInv, peer
<1>5. CASE Rests
  BY <1>0, <1>5 DEF Rests, OutcomeInv, Requests, peer
<1>6. ASSUME NEW p \in sent, DeviceHandle(p) PROVE OutcomeInv'
  <2>1. outcome' = outcome /\ Requests' = Requests \ {p}
    BY <1>6, DeviceEffect DEF client, Requests
  <2>2. CASE executed' = executed
    BY <1>0, <2>1, <2>2 DEF OutcomeInv
  <2>3. CASE Executes(p)
    <3>1. p \in Requests
      BY <2>3 DEF Executes, Requests
    <3>2. \A c \in Calls : outcome[c] \in {"ok", "expired"} => c # p.call
      BY <1>0, <3>1 DEF OutcomeInv
    <3>3. \A c \in Calls : c # p.call => executed'[c] = executed[c]
      BY <1>0, <2>3 DEF Executes
    <3>. QED
      BY <1>0, <2>1, <3>2, <3>3 DEF OutcomeInv
  <2>. QED
    BY <1>6, <2>2, <2>3, DeviceEffect DEF Busies, Otherwise
<1>7. ASSUME NEW t \in Tasks, Moves(t) PROVE OutcomeInv'
  BY <1>1, <1>2, <1>3, <1>4, <1>7 DEF Moves, Reauths
<1>. QED
  BY <1>5, <1>6, <1>7, NextCases

\* Every step keeps ContextsAccounted: a context is dropped where it is shut down or orphaned.
LEMMA ContextsNext == IInv /\ [Next]_vars => ContextsAccounted'
<1>. SUFFICES ASSUME IInv, [Next]_vars
             PROVE  ContextsAccounted'
  OBVIOUS
<1>0. TypeOK /\ ContextsAccounted /\ KeyInv
  BY DEF IInv
\* Whoever goes on must keep what he held, or have shut it down.
<1>a. ASSUME NEW t \in Tasks, Alone(t), orphans \subseteq orphans',
             \A k \in contexts' : k \in contexts \/ Holds(t, k)',
             \A k \in contexts' : Holds(t, k) \/ k = current =>
               k = current' \/ k \in orphans' \/ Holds(t, k)'
      PROVE  ContextsAccounted'
  <2>1. ASSUME NEW k \in contexts'
        PROVE  k = current' \/ k \in orphans' \/ \E u \in Tasks : Holds(u, k)'
    <3>1. CASE k \in contexts
      <4>1. k = current \/ k \in orphans \/ \E u \in Tasks : Holds(u, k)
        BY <1>0, <3>1 DEF ContextsAccounted
      <4>2. ASSUME NEW u \in Tasks, Holds(u, k), u # t PROVE Holds(u, k)'
        BY <1>a, <4>2 DEF Holds, Alone
      <4>. QED
        BY <1>a, <2>1, <4>1, <4>2
    <3>2. CASE Holds(t, k)'
      BY <3>2
    <3>. QED
      BY <1>a, <2>1, <3>1, <3>2
  <2>. QED
    BY <2>1 DEF ContextsAccounted
<1>1. ASSUME NEW t \in Tasks, Over(t) PROVE ContextsAccounted'
  <2>1. PICK out \in Outcomes : Ends(t, out)
    BY <1>1 DEF Over
  <2>2. Alone(t)
    BY <1>0, <2>1, OverEffect
  <2>. QED
    BY <1>a, <2>1, <2>2 DEF Ends
<1>2. ASSUME NEW t \in Tasks, Begin(t) \/ Sends(t) PROVE ContextsAccounted'
  <2>1. Alone(t)
    BY <1>2, MovesAlone DEF Moves
  <2>2. UNCHANGED <<contexts, orphans, current>> /\ task[t].at \in {"idle", "lock"}
    BY <1>2 DEF Begin, Sends
  <2>. QED
    BY <1>a, <2>1, <2>2 DEF Holds
<1>3. ASSUME NEW t \in Tasks, Offers(t) PROVE ContextsAccounted'
  <2>1. Alone(t) /\ task'[t].at = "kex" /\ task'[t].key = keys + 1
    BY <1>0, <1>3, OffersEffect
  <2>2. /\ UNCHANGED <<orphans, current>> /\ contexts' \subseteq contexts \cup {keys + 1}
        /\ task[t].at \in {"idle", "kex"}
        /\ task[t].at = "kex" => task[t].key \notin contexts'
    BY <1>3 DEF Offers
  <2>. QED
    BY <1>a, <2>1, <2>2 DEF Holds
<1>4. ASSUME NEW t \in Tasks, Agrees(t) PROVE ContextsAccounted'
  <2>1. GoesTo(t, "relock") /\ UNCHANGED <<orphans, current, contexts>> /\ task[t].at = "kex"
    BY <1>0, <1>4, AgreesEffect DEF Agrees
  <2>. QED
    BY <1>a, <2>1 DEF Holds, GoesTo
<1>5. ASSUME NEW t \in Tasks, Swap(t) PROVE ContextsAccounted'
  <2>1. task[t].at = "relock" /\ task[t].key \in Keys
    BY <1>5, KeyTyped DEF Swap
  <2>2. /\ Alone(t) /\ task'[t].at = "auth" /\ task'[t].key = task[t].key /\ task'[t].old = current
        /\ UNCHANGED <<orphans, contexts>>
    BY <1>0, <1>5, <2>1, SwapEffect DEF Swap
  <2>. QED
    BY <1>a, <2>1, <2>2 DEF Holds
<1>6. ASSUME NEW t \in Tasks, ReceiveAuth(t) \/ FailAuth(t) PROVE ContextsAccounted'
  <2>1. task[t].at = "auth" /\ task[t].key \in Keys /\ task[t].key = current
    BY <1>0, <1>6, KeyTyped DEF ReceiveAuth, FailAuth, KeyInv
  <2>2. UNCHANGED <<orphans, contexts>>
    BY <1>6 DEF ReceiveAuth, FailAuth
  <2>3. CASE ReceiveAuth(t)
    <3>1. GoesTo(t, "retire") /\ current' = current
      BY <1>0, <2>1, <2>3, ReceiveAuthEffect DEF ReceiveAuth
    <3>. QED
      BY <1>a, <2>1, <2>2, <3>1 DEF Holds, GoesTo
  <2>4. CASE FailAuth(t)
    <3>1. GoesTo(t, "restore") /\ current' = task[t].old
      BY <1>0, <2>4, FailAuthEffect DEF FailAuth
    <3>. QED
      BY <1>a, <2>1, <2>2, <3>1 DEF Holds, GoesTo
  <2>. QED
    BY <1>6, <2>3, <2>4
<1>7. CASE Rests \/ \E p \in sent : DeviceHandle(p)
  <2>1. contexts' \subseteq contexts /\ UNCHANGED <<task, current, orphans>>
    BY <1>7, DeviceEffect DEF Rests, client
  <2>. QED
    BY <1>0, <2>1 DEF ContextsAccounted, Holds
<1>8. ASSUME NEW t \in Tasks, Moves(t) PROVE ContextsAccounted'
  BY <1>1, <1>2, <1>3, <1>4, <1>5, <1>6, <1>8 DEF Moves
<1>. QED
  BY <1>7, <1>8, NextCases

-----------------------------------------------------------------------------
(* The theorems.                                                           *)

\* The inductive invariant holds at first,
LEMMA InvInit == Init => IInv
<1>. SUFFICES ASSUME Init
             PROVE  IInv
  OBVIOUS
<1>0. TypeOK
  BY TypeInit
<1>1. /\ \A t \in Tasks : /\ task[t].at = "idle" /\ task[t].call = 0 /\ task[t].key = 0
                          /\ task[t].old = 0 /\ reply[t] = NoReply
      /\ sent = {} /\ current = 1 /\ keys = 1 /\ contexts = {1} /\ calls = 0
      /\ \A c \in Calls : outcome[c] = "none" /\ executed[c] = 0
      /\ 1 \in Keys
  BY LegacyAssumption DEF Init, Idle, LegacyAssumption, Keys
<1>2. LockInv /\ SentInv /\ OutcomeInv /\ ContextsAccounted /\ KeyInv /\ ReplyInv /\ CallInv
  BY <1>1 DEF LockInv, SentInv, OutcomeInv, ContextsAccounted, KeyInv, Fresh, ReplyInv, CallInv,
              Requests, LockPoints
<1>3. RestInv
  <2>1. Busy = {}
    BY <1>1 DEF Busy, NoReply
  <2>2. Cardinality(Busy) = 0
    BY <2>1, FS_EmptySet
  <2>3. MaxKeys \in Nat /\ MaxKeys >= 1
    BY LegacyAssumption DEF LegacyAssumption
  <2>. QED
    BY <1>1, <2>2, <2>3 DEF RestInv
<1>4. PositionInv
  <2>1. position[1] = 2 /\ \A k \in Keys : k > 1 => position[k] = 0
    BY <1>1 DEF Init, Keys
  <2>. QED
    BY <1>1, <2>1 DEF PositionInv, Requests
<1>. QED
  BY <1>0, <1>2, <1>3, <1>4 DEF IInv

\* and every step keeps it.
LEMMA InvNext == IInv /\ [Next]_vars => IInv'
<1>. SUFFICES ASSUME IInv, [Next]_vars
             PROVE  IInv'
  OBVIOUS
<1>. QED
  BY TypeNext, LockNext, RestNext, CallNext, SentNext, KeyNext, PositionNext, ReplyNext,
     OutcomeNext, ContextsNext
     DEF IInv

\* Whatever the coroutines, the device and the network do, the inductive
\* invariant holds: every message and every wait keeps its key, its position
\* and its call.
THEOREM Inductive == Spec => []IInv
  BY InvInit, InvNext, PTL DEF Spec

\* The variables keep their types.
THEOREM TypeCorrect == Spec => []TypeOK
<1>1. IInv => TypeOK
  BY DEF IInv
<1>. QED
  BY <1>1, Inductive, PTL

\* The exchange belongs to the holder of the lock, and a request that succeeds was
\* carried out exactly once.
LEMMA InvInStep == IInv => AnswersInStep
<1>. SUFFICES ASSUME IInv
             PROVE  AnswersInStep
  OBVIOUS
<1>1. InExchange \subseteq {lock}
  BY DEF IInv, LockInv, InExchange
<1>2. IsFiniteSet({lock}) /\ Cardinality({lock}) = 1
  BY FS_Singleton
<1>3. Cardinality(InExchange) \in Nat /\ Cardinality(InExchange) <= 1
  BY <1>1, <1>2, FS_Subset, FS_CardinalityType
<1>4. \A c \in Calls : /\ outcome[c] # "garbage"
                       /\ outcome[c] = "ok" => executed[c] = 1
  BY DEF IInv, OutcomeInv
<1>. QED
  BY <1>3, <1>4 DEF AnswersInStep

\* No interleaving of requests, reauths, timeouts, cancellations and lost
\* messages hands a caller a reply deciphered out of step, and a request that
\* succeeds was carried out exactly once (send_ltpdu, get_ltpdu, reauth).
THEOREM Answered == Spec => []AnswersInStep
<1>1. IInv => AnswersInStep
  BY InvInStep
<1>. QED
  BY <1>1, Inductive, PTL

\* A request that has ended with SessionExpiredError was never carried out and
\* never will be, so the coordinator may repeat it after reauth().
THEOREM ExpiredUnexecuted == Spec => []ExpiredMeansUnexecuted
<1>1. IInv => ExpiredMeansUnexecuted
  BY DEF IInv, OutcomeInv, ExpiredMeansUnexecuted
<1>. QED
  BY <1>1, Inductive, PTL

\* No CoAP context is lost by overlapping, busy or failing reauths, but for those
\* that a cancellation has left behind (kex's owns_context, reauth).
THEOREM ContextsKept == Spec => []ContextsAccounted
<1>1. IInv => ContextsAccounted
  BY DEF IInv
<1>. QED
  BY <1>1, Inductive, PTL

\* No reauth shuts down the context in use, or restores one that another reauth
\* is about to shut down.
THEOREM CurrentKept == Spec => []CurrentNotRetired
<1>1. IInv => CurrentNotRetired
  BY DEF IInv, KeyInv, CurrentNotRetired
<1>. QED
  BY <1>1, Inductive, PTL
=============================================================================
