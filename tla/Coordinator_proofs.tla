------------------------- MODULE Coordinator_proofs -------------------------
(***************************************************************************)
(* Proofs about Coordinator, for any finite number of service calls and    *)
(* any threshold.                                                          *)
(***************************************************************************)
EXTENDS Coordinator, FiniteSetTheorems, SequenceTheorems, TLAPS

-----------------------------------------------------------------------------
(* The queue of the settings lock.                                         *)

\* A sequence without its i-th element.
LEMMA Removal ==
  ASSUME NEW S, NEW q \in Seq(S), NEW i \in 1..Len(q)
  PROVE  LET r == SubSeq(q, 1, i - 1) \o SubSeq(q, i + 1, Len(q)) IN
         /\ r \in Seq(S)
         /\ Len(r) = Len(q) - 1
         /\ \A j \in 1..(i - 1) : r[j] = q[j]
         /\ \A j \in i..(Len(q) - 1) : r[j] = q[j + 1]
<1>. DEFINE a == SubSeq(q, 1, i - 1)
            b == SubSeq(q, i + 1, Len(q))
<1>1. /\ a \in Seq(S) /\ Len(a) = i - 1
      /\ \A j \in 1..(i - 1) : a[j] = q[j]
  OBVIOUS
<1>2. /\ b \in Seq(S) /\ Len(b) = Len(q) - i
      /\ \A j \in 1..(Len(q) - i) : b[j] = q[i + j]
  OBVIOUS
<1>. HIDE DEF a, b
<1>3. /\ a \o b \in Seq(S)
      /\ Len(a \o b) = Len(a) + Len(b)
      /\ \A j \in 1..(Len(a) + Len(b)) : (a \o b)[j] = IF j <= Len(a) THEN a[j] ELSE b[j - Len(a)]
  BY <1>1, <1>2, ConcatProperties
<1>4. Len(a \o b) = Len(q) - 1
  BY <1>1, <1>2, <1>3
<1>5. \A j \in 1..(i - 1) : (a \o b)[j] = q[j]
  BY <1>1, <1>2, <1>3
<1>6. ASSUME NEW j \in i..(Len(q) - 1) PROVE (a \o b)[j] = q[j + 1]
  <2>1. j - Len(a) \in 1..Len(b) /\ j \in (Len(a) + 1)..(Len(a) + Len(b))
    BY <1>1, <1>2
  <2>2. (a \o b)[j] = b[j - Len(a)]
    BY <1>1, <1>3, <2>1
  <2>3. i + (j - Len(a)) = j + 1
    BY <1>1
  <2>. QED
    BY <1>2, <2>1, <2>2, <2>3
<1>. QED
  BY <1>3, <1>4, <1>5, <1>6 DEF a, b

-----------------------------------------------------------------------------
(* The inductive invariant.                                                *)

\* Who holds the settings lock or waits for it.
Wants(t) ==
  \/ t \in Services /\ task[t].op = "settings"
  \/ t = Poller /\ task[t].at \in {"lock", "read"}
Queued(t) == \E i \in 1..Len(settings) : settings[i] = t
First(t) == Len(settings) > 0 /\ settings[1] = t

\* The lock's queue has exactly the tasks that want it, once each, and one that has
\* gone past the wait is its first.
Queue ==
  /\ settings \in Seq(Tasks)
  /\ \A i, j \in 1..Len(settings) : settings[i] = settings[j] => i = j
QueueInv ==
  /\ Queue
  /\ \A t \in Tasks : Queued(t) <=> Wants(t)
  /\ \A t \in Tasks : Wants(t) /\ task[t].at # "lock" => First(t)

\* A task at rest wants nothing, one that opens a session refers to none, and a poll
\* that closes one succeeds or fails.
TaskInv ==
  /\ \A t \in Tasks : task[t].at = "idle" => task[t].op = "none"
  /\ \A t \in Tasks : task[t].at = "open" => task[t].sess = None
  /\ task[Poller].then # "error"

IInv ==
  /\ TypeOK
  /\ TaskInv
  /\ QueueInv

-----------------------------------------------------------------------------
(* What a step does to the tasks and to the queue.                         *)

\* Only task t moves; the session of another may be closed.
Others(t) ==
  \A u \in Tasks \ {t} : /\ task'[u].at = task[u].at
                         /\ task'[u].op = task[u].op
                         /\ task'[u].then = task[u].then
                         /\ task[u].sess = None => task'[u].sess = None

\* It keeps its place in the queue, leaves it or joins it.
Keeps(t) ==
  /\ UNCHANGED settings
  /\ Wants(t)' <=> Wants(t)
  /\ Wants(t) /\ task'[t].at # "lock" => task[t].at # "lock" \/ First(t)
Leaves(t) ==
  /\ Leave(t)
  /\ ~Wants(t)'
Joins(t) ==
  /\ settings' = Append(settings, t)
  /\ ~Wants(t)
  /\ Wants(t)'
  /\ task'[t].at # "lock" => settings = <<>>

Polls == {"none", "ok", "failed", "authfailed", "crashed", "lost"}
Outs == {"ok", "error", "failed"}
Moved(t) ==
  /\ session' \in Sessions \cup {None, Closed}
  /\ task' \in [Tasks -> TaskType]
  /\ polled' \in Polls
  /\ TaskInv'
  /\ Others(t)
  /\ Keeps(t) \/ Leaves(t) \/ Joins(t)

\* Who leaves the queue takes nobody's place.
LEMMA LeaveQueue ==
  ASSUME Queue, NEW t \in Tasks, Leave(t)
  PROVE  /\ Queue'
         /\ \A u \in Tasks : Queued(u)' <=> Queued(u) /\ u # t
         /\ \A u \in Tasks \ {t} : First(u) => First(u)'
<1>1. CASE (\A i \in 1..Len(settings) : settings[i] # t) /\ UNCHANGED settings
  BY <1>1 DEF Queue, Queued, First
<1>2. ASSUME NEW i \in 1..Len(settings), settings[i] = t,
             settings' = SubSeq(settings, 1, i - 1) \o SubSeq(settings, i + 1, Len(settings))
      PROVE  /\ Queue'
             /\ \A u \in Tasks : Queued(u)' <=> Queued(u) /\ u # t
             /\ \A u \in Tasks \ {t} : First(u) => First(u)'
  <2>1. /\ settings' \in Seq(Tasks)
        /\ Len(settings') = Len(settings) - 1
        /\ \A j \in 1..(i - 1) : settings'[j] = settings[j]
        /\ \A j \in i..(Len(settings) - 1) : settings'[j] = settings[j + 1]
    BY <1>2, Removal DEF Queue
  <2>2. Len(settings) \in Nat /\ i \in Nat
    BY DEF Queue
  <2>3. \A j \in 1..Len(settings') :
          \E k \in 1..Len(settings) : /\ settings'[j] = settings[k]
                                      /\ k = IF j < i THEN j ELSE j + 1
    BY <2>1, <2>2
  <2>4. \A j, k \in 1..Len(settings') : settings'[j] = settings'[k] => j = k
    BY <2>2, <2>3 DEF Queue
  <2>5. ASSUME NEW u \in Tasks, NEW j \in 1..Len(settings'), settings'[j] = u
        PROVE  Queued(u) /\ u # t
    <3>1. PICK k \in 1..Len(settings) : /\ settings'[j] = settings[k]
                                        /\ k = IF j < i THEN j ELSE j + 1
      BY <2>3
    <3>2. j \in Nat
      BY <2>1
    <3>3. k # i
      BY <2>2, <3>1, <3>2
    <3>4. settings[k] # settings[i]
      BY <3>3 DEF Queue
    <3>. QED
      BY <1>2, <2>5, <3>1, <3>4 DEF Queued
  <2>6. ASSUME NEW u \in Tasks, u # t, NEW k \in 1..Len(settings), settings[k] = u
        PROVE  \E j \in 1..Len(settings') : settings'[j] = u
    <3>1. CASE k < i
      <4>1. k \in 1..(i - 1) /\ k \in 1..Len(settings')
        BY <2>1, <2>2, <3>1
      <4>. QED
        BY <2>1, <2>6, <4>1
    <3>2. CASE k > i
      <4>1. PICK j \in Nat : j + 1 = k
        BY <2>2, <3>2
      <4>2. j \in i..(Len(settings) - 1) /\ j \in 1..Len(settings')
        BY <2>1, <2>2, <3>2, <4>1
      <4>3. settings'[j] = settings[j + 1]
        BY <2>1, <4>2
      <4>. QED
        BY <2>6, <4>1, <4>2, <4>3
    <3>3. k # i
      BY <1>2, <2>6
    <3>. QED
      BY <2>2, <3>1, <3>2, <3>3
  <2>7. ASSUME NEW u \in Tasks, u # t, First(u) PROVE First(u)'
    <3>1. i > 1
      BY <1>2, <2>2, <2>7 DEF First
    <3>. QED
      BY <2>1, <2>2, <2>7, <3>1 DEF First
  <2>. QED
    BY <2>1, <2>4, <2>5, <2>6, <2>7 DEF Queue, Queued
<1>. QED
  BY <1>1, <1>2 DEF Leave

\* Who joins it is its last.
LEMMA JoinQueue ==
  ASSUME Queue, NEW t \in Tasks, ~Queued(t), settings' = Append(settings, t)
  PROVE  /\ Queue'
         /\ \A u \in Tasks : Queued(u)' <=> Queued(u) \/ u = t
         /\ \A u \in Tasks \ {t} : First(u) => First(u)'
         /\ settings = <<>> => First(t)'
<1>1. /\ settings' \in Seq(Tasks)
      /\ Len(settings) \in Nat
      /\ Len(settings') = Len(settings) + 1
      /\ \A j \in 1..Len(settings) : settings'[j] = settings[j]
      /\ settings'[Len(settings) + 1] = t
  BY DEF Queue
<1>2. \A j \in 1..Len(settings') : j \in 1..Len(settings) \/ j = Len(settings) + 1
  BY <1>1
<1>3. \A j, k \in 1..Len(settings') : settings'[j] = settings'[k] => j = k
  BY <1>1, <1>2 DEF Queue, Queued
<1>4. \A u \in Tasks : Queued(u)' <=> Queued(u) \/ u = t
  BY <1>1, <1>2 DEF Queued
<1>5. \A u \in Tasks \ {t} : First(u) => First(u)'
  BY <1>1 DEF First
<1>6. settings = <<>> => First(t)'
  BY <1>1 DEF First
<1>. QED
  BY <1>1, <1>3, <1>4, <1>5, <1>6 DEF Queue

\* Every move keeps the queue.
LEMMA QueueKept ==
  ASSUME QueueInv, NEW t \in Tasks, Moved(t)
  PROVE  QueueInv'
<1>1. /\ \A u \in Tasks \ {t} : Wants(u)' <=> Wants(u)
      /\ \A u \in Tasks \ {t} : Wants(u)' /\ task'[u].at # "lock" => First(u)
  BY DEF Moved, Others, Wants, QueueInv
<1>2. CASE Keeps(t)
  <2>1. \A u \in Tasks : (Queued(u)' <=> Queued(u)) /\ (First(u)' <=> First(u))
    BY <1>2 DEF Keeps, Queued, First
  <2>2. Queue'
    BY <1>2 DEF Keeps, Queue, QueueInv
  <2>3. (Wants(t)' <=> Wants(t)) /\ (Wants(t) /\ task'[t].at # "lock" => First(t))
    BY <1>2 DEF Keeps, QueueInv
  <2>4. \A u \in Tasks : Queued(u)' <=> Wants(u)'
    BY <1>1, <2>1, <2>3 DEF QueueInv
  <2>5. \A u \in Tasks : Wants(u)' /\ task'[u].at # "lock" => First(u)'
    BY <1>1, <2>1, <2>3
  <2>. QED
    BY <2>2, <2>4, <2>5 DEF QueueInv
<1>3. CASE Leaves(t)
  <2>1. /\ Queue'
        /\ \A u \in Tasks : Queued(u)' <=> Queued(u) /\ u # t
        /\ \A u \in Tasks \ {t} : First(u) => First(u)'
    BY <1>3, LeaveQueue DEF Leaves, QueueInv
  <2>2. \A u \in Tasks : Queued(u)' <=> Wants(u)'
    BY <1>1, <1>3, <2>1 DEF Leaves, QueueInv
  <2>3. \A u \in Tasks : Wants(u)' /\ task'[u].at # "lock" => First(u)'
    BY <1>1, <1>3, <2>1 DEF Leaves
  <2>. QED
    BY <2>1, <2>2, <2>3 DEF QueueInv
<1>4. CASE Joins(t)
  <2>1. /\ Queue'
        /\ \A u \in Tasks : Queued(u)' <=> Queued(u) \/ u = t
        /\ \A u \in Tasks \ {t} : First(u) => First(u)'
        /\ settings = <<>> => First(t)'
    BY <1>4, JoinQueue DEF Joins, QueueInv
  <2>2. \A u \in Tasks : Queued(u)' <=> Wants(u)'
    BY <1>1, <1>4, <2>1 DEF Joins, QueueInv
  <2>3. \A u \in Tasks : Wants(u)' /\ task'[u].at # "lock" => First(u)'
    BY <1>1, <1>4, <2>1 DEF Joins
  <2>. QED
    BY <2>1, <2>2, <2>3 DEF QueueInv
<1>. QED
  BY <1>2, <1>3, <1>4 DEF Moved

\* There is a number for the next session: the task that opens it refers to none.
LEMMA FreshIsFree ==
  ASSUME TypeOK, NEW t \in Tasks, task[t].sess = None
  PROVE  FreshSession \in Sessions
<1>. DEFINE n == Cardinality(Services)
            rest == Tasks \ {t}
            held == {task[u].sess : u \in rest}
            f == [u \in rest |-> task[u].sess]
<1>1. n \in Nat /\ IsFiniteSet(Services)
  BY CoordinatorAssumption, FS_CardinalityType DEF CoordinatorAssumption
<1>2. IsFiniteSet(rest) /\ Cardinality(rest) = n + 1
  <2>1. IsFiniteSet(Services \cup {Poller}) /\ Cardinality(Services \cup {Poller}) = n + 1
    BY <1>1, CoordinatorAssumption, FS_AddElement DEF CoordinatorAssumption
  <2>2. Tasks = (Services \cup {Poller}) \cup {Unloader} /\ Unloader \notin Services \cup {Poller}
    BY CoordinatorAssumption DEF CoordinatorAssumption, Tasks
  <2>3. IsFiniteSet(Tasks) /\ Cardinality(Tasks) = Cardinality(Services \cup {Poller}) + 1
    BY <2>1, <2>2, FS_AddElement
  <2>4. Cardinality(Tasks) = n + 2
    BY <1>1, <2>1, <2>3
  <2>5. IsFiniteSet(rest) /\ Cardinality(rest) = Cardinality(Tasks) - 1
    BY <2>3, FS_RemoveElement
  <2>. QED
    BY <1>1, <2>4, <2>5
<1>3. IsFiniteSet(held) /\ Cardinality(held) <= n + 1
  <2>1. f \in Surjection(rest, held)
    BY DEF Surjection
  <2>. QED
    BY <1>2, <2>1, FS_Surjection
<1>4. IsFiniteSet(held \cup {session}) /\ Cardinality(held \cup {session}) <= n + 2
  <2>. HIDE DEF held
  <2>1. Cardinality(held) \in Nat
    BY <1>3, FS_CardinalityType
  <2>2. /\ IsFiniteSet(held \cup {session})
        /\ Cardinality(held \cup {session}) =
             IF session \in held THEN Cardinality(held) ELSE Cardinality(held) + 1
    BY <1>3, FS_AddElement
  <2>. QED
    BY <1>1, <1>3, <2>1, <2>2
<1>5. IsFiniteSet(Sessions) /\ Cardinality(Sessions) = n + 3
  BY <1>1, FS_Interval DEF Sessions
<1>6. \E s \in Sessions : s \notin held \cup {session}
  <2>1. SUFFICES ASSUME Sessions \subseteq held \cup {session} PROVE FALSE
    OBVIOUS
  <2>. HIDE DEF held
  <2>2. Cardinality(Sessions) <= Cardinality(held \cup {session})
    BY <1>4, <2>1, FS_Subset
  <2>3. Cardinality(held \cup {session}) \in Nat
    BY <1>4, FS_CardinalityType
  <2>. QED
    BY <1>1, <1>4, <1>5, <2>2, <2>3
<1>7. Referenced \subseteq held \cup {session, None}
  BY DEF Referenced
<1>8. None \notin Sessions
  BY CoordinatorAssumption DEF CoordinatorAssumption, Sessions
<1>9. \E s \in Sessions : s \notin Referenced
  BY <1>6, <1>7, <1>8
<1>. QED
  BY <1>9 DEF FreshSession

\* The coroutine of a task ends.
LEMMA EndMoves ==
  ASSUME TypeOK, TaskInv, NEW t \in Tasks, NEW out, End(t, out),
         session' \in {session, None}, t = Poller => out \in Polls
  PROVE  Moved(t)
<1>1. Idle \in TaskType /\ Idle.at = "idle" /\ Idle.op = "none" /\ Idle.then = "none"
  BY DEF Idle, TaskType, Points
<1>2. task' \in [Tasks -> TaskType] /\ task'[t] = Idle /\ \A u \in Tasks \ {t} : task'[u] = task[u]
  BY <1>1 DEF End, TypeOK
<1>3. Poller \in Tasks
  BY DEF Tasks
<1>4. TaskInv'
  BY <1>1, <1>2, <1>3 DEF TaskInv
<1>5. Leaves(t)
  BY <1>1, <1>2 DEF End, Leaves, Wants
<1>6. session' \in Sessions \cup {None, Closed} /\ polled' \in Polls
  BY DEF End, TypeOK, Polls
<1>. QED
  BY <1>2, <1>4, <1>5, <1>6 DEF Moved, Others

\* A task goes on, with its lock if it has it.
LEMMA GoesOn ==
  ASSUME TypeOK, TaskInv, NEW t \in Tasks, NEW r \in TaskType,
         task' = [task EXCEPT ![t] = r], r.op = task[t].op, r.then = task[t].then,
         r.at \notin {"idle", "lock"}, r.at = "open" => r.sess = None,
         task[t].at = "lock" /\ Wants(t) => First(t),
         t = Poller => (r.at = "read" <=> task[t].at \in {"lock", "read"}),
         session' \in Sessions \cup {None, Closed}, UNCHANGED <<settings, polled>>
  PROVE  Moved(t)
<1>1. task' \in [Tasks -> TaskType] /\ task'[t] = r /\ \A u \in Tasks \ {t} : task'[u] = task[u]
  BY DEF TypeOK
<1>2. Poller \in Tasks
  BY DEF Tasks
<1>3. TaskInv'
  BY <1>1, <1>2 DEF TaskInv
<1>4. Wants(t)' <=> Wants(t)
  BY <1>1 DEF Wants
<1>5. Keeps(t)
  BY <1>4 DEF Keeps
<1>6. polled' \in Polls
  BY DEF TypeOK, Polls
<1>. QED
  BY <1>1, <1>3, <1>5, <1>6 DEF Moved, Others

\* A closing session is taken from all that refer to it.
LEMMA SafeCloseMoves ==
  ASSUME TypeOK, TaskInv, NEW t \in Tasks, NEW out \in Outs, SafeClose(t, out),
         t = Poller => out # "error", task[t].at # "lock"
  PROVE  Moved(t)
<1>1. CASE session = None
  BY <1>1, EndMoves DEF SafeClose, Outs, Polls
<1>2. CASE session # None
  <2>. DEFINE r == [task[t] EXCEPT !.at = "close", !.sess = None, !.then = out]
  <2>1. \A u \in Tasks : task[u] \in TaskType
    BY DEF TypeOK
  <2>2. /\ r \in TaskType
        /\ r.at = "close" /\ r.op = task[t].op /\ r.sess = None /\ r.then = out
    BY <2>1 DEF TaskType, Points, Outs
  <2>3. \A u \in Tasks : LET c == [task[u] EXCEPT !.sess = Closed] IN
          c \in TaskType /\ c.at = task[u].at /\ c.op = task[u].op /\ c.then = task[u].then
    BY <2>1 DEF TaskType
  <2>. HIDE DEF r
  <2>4. \A u \in Tasks : task'[u] = IF u = t THEN r
                                    ELSE IF task[u].sess = session
                                         THEN [task[u] EXCEPT !.sess = Closed] ELSE task[u]
    BY <1>2 DEF SafeClose, r
  <2>5. task' \in [Tasks -> TaskType]
    <3>1. \A u \in Tasks : task'[u] \in TaskType
      BY <2>1, <2>2, <2>3, <2>4
    <3>2. task' = [u \in Tasks |-> task'[u]]
      BY <1>2 DEF SafeClose
    <3>. QED
      BY <3>1, <3>2
  <2>6. task'[t] = r /\ Others(t)
    BY <1>2, <2>3, <2>4 DEF Others
  <2>7. TaskInv'
    <3>1. \A u \in Tasks : task'[u].at = "idle" => task'[u].op = "none"
      BY <2>2, <2>6 DEF Others, TaskInv
    <3>2. \A u \in Tasks : task'[u].at = "open" => task'[u].sess = None
      BY <2>2, <2>6 DEF Others, TaskInv
    <3>3. task'[Poller].then # "error"
      BY <2>2, <2>6 DEF Others, TaskInv, Tasks
    <3>. QED
      BY <3>1, <3>2, <3>3 DEF TaskInv
  <2>8. CASE t = Poller
    <3>1. Leaves(t)
      BY <1>2, <2>2, <2>6, <2>8, CoordinatorAssumption
         DEF CoordinatorAssumption, SafeClose, Leaves, Wants
    <3>. QED
      BY <1>2, <2>5, <2>6, <2>7, <3>1 DEF SafeClose, Moved, TypeOK, Polls
  <2>9. CASE t # Poller
    <3>1. Wants(t)' <=> Wants(t)
      BY <2>2, <2>6, <2>9 DEF Wants
    <3>2. Keeps(t)
      BY <1>2, <2>9, <3>1 DEF SafeClose, Keeps
    <3>. QED
      BY <1>2, <2>5, <2>6, <2>7, <3>2 DEF SafeClose, Moved, TypeOK, Polls
  <2>. QED
    BY <2>8, <2>9
<1>. QED
  BY <1>1, <1>2

\* It goes on with the session that is current.
LEMMA GoMoves ==
  ASSUME TypeOK, TaskInv, NEW t \in Tasks, NEW at \in Exchanging, Go(t, at),
         task[t].at = "lock" /\ Wants(t) => First(t),
         t = Poller => (at = "read" <=> task[t].at \in {"lock", "read"}),
         UNCHANGED <<session, settings, polled>>
  PROVE  Moved(t)
<1>. DEFINE r == [task[t] EXCEPT !.at = at, !.sess = session]
<1>1. at \in Points /\ at \notin {"idle", "lock", "open"}
  BY DEF Points, Exchanging
<1>2. session \in Sessions \cup {None, Closed}
  BY DEF TypeOK
<1>3. r \in TaskType /\ r.at = at /\ r.op = task[t].op /\ r.then = task[t].then
  <2>1. task[t] \in TaskType
    BY DEF TypeOK
  <2>. QED
    BY <1>1, <1>2, <2>1 DEF TaskType
<1>4. task' = [task EXCEPT ![t] = r]
  BY DEF Go, TypeOK
<1>. HIDE DEF r
<1>. QED
  BY <1>1, <1>2, <1>3, <1>4, GoesOn

\* It has got a session of its own.
LEMMA ConnectMoves ==
  ASSUME TypeOK, TaskInv, NEW t \in Tasks, NEW at \in Exchanging \ {"read"}, Connect(t, at),
         task[t].at = "open", UNCHANGED <<settings, polled>>
  PROVE  Moved(t)
<1>. DEFINE r == [task[t] EXCEPT !.at = at, !.sess = FreshSession]
<1>1. at \in Points /\ at \notin {"idle", "lock", "open", "read"}
  BY DEF Points, Exchanging
<1>2. FreshSession \in Sessions
  BY FreshIsFree DEF TaskInv
<1>3. r \in TaskType /\ r.at = at /\ r.op = task[t].op /\ r.then = task[t].then
  <2>1. task[t] \in TaskType
    BY DEF TypeOK
  <2>. QED
    BY <1>1, <1>2, <2>1 DEF TaskType
<1>4. task' = [task EXCEPT ![t] = r]
  BY DEF Connect, TypeOK
<1>. HIDE DEF r
<1>. QED
  BY <1>1, <1>2, <1>3, <1>4, GoesOn DEF Connect

\* It reauthenticates the session, or closes it.
LEMMA RecoverMoves ==
  ASSUME TypeOK, TaskInv, NEW t \in Tasks, NEW r, NEW out \in Outs, Recover(t, r, out),
         t = Poller => out # "error" /\ task[t].at \notin {"lock", "read"}, task[t].at # "lock"
  PROVE  Moved(t)
<1>. DEFINE q == [task[t] EXCEPT !.at = "reauth", !.sess = session, !.retry = TRUE]
<1>1. CASE SafeClose(t, out)
  BY <1>1, SafeCloseMoves
<1>2. CASE task' = [task EXCEPT ![t] = q] /\ UNCHANGED <<session, settings, polled>>
  <2>1. task[t] \in TaskType /\ session \in Sessions \cup {None, Closed}
    BY DEF TypeOK
  <2>2. q \in TaskType /\ q.at = "reauth" /\ q.op = task[t].op /\ q.then = task[t].then
    BY <2>1 DEF TaskType, Points, Exchanging
  <2>. HIDE DEF q
  <2>. QED
    BY <1>2, <2>1, <2>2, GoesOn
<1>3. \/ SafeClose(t, out)
      \/ task' = [task EXCEPT ![t] = q] /\ UNCHANGED <<session, settings, polled>>
  BY DEF Recover, TypeOK
<1>. QED
  BY <1>1, <1>2, <1>3

\* It has reauthenticated, or closes the session.
LEMMA ReauthMoves ==
  ASSUME TypeOK, TaskInv, NEW t \in Tasks, NEW at \in Exchanging \ {"read"}, NEW out \in Outs,
         Reauth(t, at, out), t = Poller => out # "error"
  PROVE  Moved(t)
<1>1. CASE SafeClose(t, out)
  BY <1>1, SafeCloseMoves DEF Reauth
<1>2. CASE Go(t, at) /\ UNCHANGED <<session, settings, polled>>
  BY <1>2, GoMoves DEF Reauth
<1>. QED
  BY <1>1, <1>2 DEF Reauth

\* The close has returned.
LEMMA CloseMoves ==
  ASSUME TypeOK, TaskInv, NEW t \in Tasks, CloseEnds(t)
  PROVE  Moved(t)
<1>1. task[t].then \in {"none", "ok", "error", "failed"} /\ (t = Poller => task[t].then # "error")
  BY DEF TypeOK, TaskType, TaskInv
<1>2. End(t, task[t].then) /\ session' = None
  BY DEF CloseEnds, AfterClose
<1>. QED
  BY <1>1, <1>2, EndMoves DEF Polls

\* A service call begins, and queues for the lock if it changes settings.
LEMMA BeginMoves ==
  ASSUME TypeOK, TaskInv, NEW t \in Services, NEW op \in {"command", "settings"}, Begin(t, op)
  PROVE  Moved(t)
<1>. DEFINE b == [Idle EXCEPT !.op = op]
            r == task'[t]
<1>1. task[t].at = "idle" /\ ~Wants(t) /\ t \in Tasks /\ t # Poller
  BY CoordinatorAssumption DEF CoordinatorAssumption, Begin, TaskInv, Wants, Tasks
<1>2. session \in Sessions \cup {None, Closed} /\ session' = session /\ polled' = polled
  BY DEF Begin, TypeOK
<1>3. b \in TaskType /\ b.at = "idle" /\ b.op = op /\ b.sess = None /\ b.then = "none"
  BY DEF Idle, TaskType, Points
<1>. HIDE DEF b
<1>4. /\ Call(b) \in TaskType
      /\ Call(b).at = (IF session = None THEN "open" ELSE "act")
      /\ Call(b).op = op /\ Call(b).sess = session /\ Call(b).then = "none"
  BY <1>2, <1>3 DEF Call, TaskType, Points, Exchanging
<1>5. LET w == [b EXCEPT !.at = "lock"] IN
      w \in TaskType /\ w.at = "lock" /\ w.op = op /\ w.then = "none"
  BY <1>3 DEF TaskType, Points
<1>6. \/ /\ op = "settings"
         /\ settings' = Append(settings, t)
         /\ \/ task' = [task EXCEPT ![t] = Call(b)] /\ settings = <<>>
            \/ task' = [task EXCEPT ![t] = [b EXCEPT !.at = "lock"]]
      \/ /\ op = "command"
         /\ task' = [task EXCEPT ![t] = Call(b)]
         /\ UNCHANGED settings
  BY DEF Begin, LockFree, b
<1>7. /\ task' \in [Tasks -> TaskType]
      /\ \A u \in Tasks \ {t} : task'[u] = task[u]
      /\ r.op = op
      /\ r.at \in {"lock", "open", "act"}
      /\ r.at = "open" => r.sess = None
  BY <1>1, <1>4, <1>5, <1>6 DEF TypeOK
<1>8. TaskInv' /\ Others(t)
  BY <1>1, <1>7 DEF TaskInv, Others, Tasks
<1>9. CASE op = "settings"
  <2>1. Wants(t)'
    BY <1>7, <1>9 DEF Wants
  <2>2. r.at # "lock" => settings = <<>>
    BY <1>1, <1>5, <1>6, <1>9 DEF TypeOK
  <2>3. Joins(t)
    BY <1>1, <1>6, <1>9, <2>1, <2>2 DEF Joins
  <2>. QED
    BY <1>2, <1>7, <1>8, <2>3 DEF Moved, TypeOK, Polls
<1>10. CASE op = "command"
  <2>1. ~Wants(t)'
    BY <1>1, <1>7, <1>10 DEF Wants
  <2>2. Keeps(t)
    BY <1>1, <1>6, <1>10, <2>1 DEF Keeps
  <2>. QED
    BY <1>2, <1>7, <1>8, <2>2 DEF Moved, TypeOK, Polls
<1>. QED
  BY <1>9, <1>10

\* A service call gets the lock.
LEMMA AcquireMoves ==
  ASSUME TypeOK, TaskInv, QueueInv, NEW t \in Services, Acquire(t)
  PROVE  Moved(t)
<1>. DEFINE r == Call(task[t])
<1>1. t \in Tasks /\ t # Poller
  BY CoordinatorAssumption DEF CoordinatorAssumption, Tasks
<1>2. task[t] \in TaskType /\ session \in Sessions \cup {None, Closed}
  BY <1>1 DEF TypeOK
<1>3. /\ r \in TaskType
      /\ r.at = (IF session = None THEN "open" ELSE "act")
      /\ r.op = task[t].op /\ r.sess = session /\ r.then = task[t].then
  BY <1>2 DEF Call, TaskType, Points, Exchanging
<1>4. task' = [task EXCEPT ![t] = r] /\ UNCHANGED <<session, settings, polled>>
  BY DEF Acquire
<1>5. Wants(t) => First(t)
  BY <1>1 DEF QueueInv, Queue, Queued, First, Acquire
<1>. HIDE DEF r
<1>. QED
  BY <1>1, <1>2, <1>3, <1>4, <1>5, GoesOn

\* The steps of a service call.
LEMMA ServiceMoves ==
  ASSUME TypeOK, TaskInv, QueueInv, NEW t \in Services, ServiceStep(t) \/ Cancel(t)
  PROVE  Moved(t)
<1>0. t \in Tasks /\ t # Poller
  BY CoordinatorAssumption DEF CoordinatorAssumption, Tasks
<1>. USE DEF Outs, Exchanging
<1>1. CASE Acquire(t)
  BY <1>1, AcquireMoves
<1>2. CASE ServiceOpen(t)
  BY <1>0, <1>2, ConnectMoves, EndMoves DEF ServiceOpen
<1>3. CASE ServiceAct(t)
  <2>1. task[t].at = "act"
    BY <1>3 DEF ServiceAct
  <2>2. \/ \E out : End(t, out) /\ UNCHANGED session
        \/ SafeClose(t, "error")
        \/ Go(t, "read") /\ UNCHANGED <<session, settings, polled>>
        \/ \E r : Recover(t, r, "error")
    BY <1>3 DEF ServiceAct
  <2>. QED
    BY <1>0, <2>1, <2>2, EndMoves, SafeCloseMoves, GoMoves, RecoverMoves
<1>4. CASE ServiceRead(t)
  <2>1. task[t].at = "read"
    BY <1>4 DEF ServiceRead
  <2>2. \/ End(t, "ok") /\ UNCHANGED session
        \/ \E r : Recover(t, r, "error")
    BY <1>4 DEF ServiceRead
  <2>. QED
    BY <1>0, <2>1, <2>2, EndMoves, RecoverMoves
<1>5. CASE Reauth(t, "act", "error")
  BY <1>0, <1>5, ReauthMoves
<1>6. CASE CloseEnds(t)
  BY <1>0, <1>6, CloseMoves
<1>7. CASE Cancel(t)
  BY <1>0, <1>7, EndMoves DEF Cancel
<1>. QED
  BY <1>1, <1>2, <1>3, <1>4, <1>5, <1>6, <1>7 DEF ServiceStep

\* The poll ends, or queues for the lock to read the settings.
LEMMA PollSettingsMoves ==
  ASSUME TypeOK, TaskInv, task[Poller].at \in {"scene", "rethread"}, PollSettings,
         UNCHANGED session
  PROVE  Moved(Poller)
<1>0. Poller \in Tasks
  BY DEF Tasks
<1>1. CASE End(Poller, "ok")
  BY <1>0, <1>1, EndMoves DEF Polls
<1>2. ASSUME settings' = Append(settings, Poller), UNCHANGED polled,
             NEW at \in {"read", "lock"}, NEW s \in {session, None},
             task' = [task EXCEPT ![Poller].at = at, ![Poller].sess = s],
             at = "read" => settings = <<>>
      PROVE  Moved(Poller)
  <2>. DEFINE r == [task[Poller] EXCEPT !.at = at, !.sess = s]
  <2>1. task[Poller] \in TaskType /\ session \in Sessions \cup {None, Closed} /\ polled' \in Polls
    BY <1>0, <1>2 DEF TypeOK, Polls
  <2>2. r \in TaskType /\ r.at = at /\ r.op = task[Poller].op /\ r.then = task[Poller].then
    BY <2>1 DEF TaskType, Points, Exchanging
  <2>3. task' = [task EXCEPT ![Poller] = r]
    BY <1>2 DEF TypeOK
  <2>. HIDE DEF r
  <2>4. /\ task' \in [Tasks -> TaskType]
        /\ task'[Poller] = r
        /\ \A u \in Tasks \ {Poller} : task'[u] = task[u]
    BY <1>0, <2>2, <2>3 DEF TypeOK
  <2>5. TaskInv' /\ Others(Poller)
    BY <1>0, <2>2, <2>4 DEF TaskInv, Others
  <2>6. ~Wants(Poller) /\ Wants(Poller)'
    BY <2>2, <2>4, CoordinatorAssumption DEF CoordinatorAssumption, Wants
  <2>7. Joins(Poller)
    BY <1>2, <2>2, <2>4, <2>6 DEF Joins
  <2>. QED
    BY <2>1, <2>4, <2>5, <2>7 DEF Moved
<1>3. \/ End(Poller, "ok")
      \/ /\ settings' = Append(settings, Poller)
         /\ UNCHANGED polled
         /\ \/ /\ task' = [task EXCEPT ![Poller].at = "read", ![Poller].sess = session]
               /\ settings = <<>>
            \/ task' = [task EXCEPT ![Poller].at = "lock", ![Poller].sess = None]
  BY DEF PollSettings, LockFree, Go
<1>. QED
  BY <1>1, <1>2, <1>3

\* The poll goes on or ends,
LEMMA ProceedMoves ==
  ASSUME TypeOK, TaskInv, NEW at \in Exchanging, NEW out \in Polls, Proceed(at, out),
         task[Poller].at = "lock" => First(Poller),
         at = "read" <=> task[Poller].at \in {"lock", "read"}, UNCHANGED session
  PROVE  Moved(Poller)
<1>1. Poller \in Tasks
  BY DEF Tasks
<1>2. CASE session = None
  BY <1>1, <1>2, EndMoves DEF Proceed
<1>3. CASE session # None
  BY <1>1, <1>3, GoMoves DEF Proceed
<1>. QED
  BY <1>2, <1>3

\* or closes the session.
LEMMA QueryMoves ==
  ASSUME TypeOK, TaskInv, NEW at \in Exchanging \ {"read"}, Query(at),
         task[Poller].at \notin {"lock", "read"}
  PROVE  Moved(Poller)
<1>1. Poller \in Tasks /\ "failed" \in Outs
  BY DEF Tasks, Outs
<1>2. CASE session = None
  BY <1>1, <1>2, SafeCloseMoves DEF Query
<1>3. CASE session # None
  BY <1>1, <1>3, GoMoves DEF Query
<1>. QED
  BY <1>2, <1>3

\* The steps of the poll.
LEMMA PollMoves ==
  ASSUME TypeOK, TaskInv, QueueInv, BeginPoll \/ PollStep
  PROVE  Moved(Poller)
<1>. USE DEF Outs, Polls, Exchanging, At
<1>0. Poller \in Tasks
  BY DEF Tasks
<1>1. CASE BeginPoll
  <2>1. CASE session # None
    BY <1>0, <1>1, <2>1, GoMoves DEF BeginPoll
  <2>2. CASE session = None
    <3>. DEFINE r == [task[Poller] EXCEPT !.at = "open", !.sess = session]
    <3>1. task[Poller] \in TaskType /\ session \in Sessions \cup {None, Closed}
      BY <1>0 DEF TypeOK
    <3>2. /\ r \in TaskType /\ r.at = "open" /\ r.op = task[Poller].op /\ r.sess = None
          /\ r.then = task[Poller].then
      BY <2>2, <3>1 DEF TaskType, Points
    <3>3. task' = [task EXCEPT ![Poller] = r]
      BY <1>1, <2>2 DEF BeginPoll, Go, TypeOK
    <3>4. task[Poller].at = "idle" /\ UNCHANGED <<session, settings, polled>>
      BY <1>1 DEF BeginPoll
    <3>. HIDE DEF r
    <3>. QED
      BY <1>0, <3>1, <3>2, <3>3, <3>4, GoesOn
  <2>. QED
    BY <2>1, <2>2
<1>2. CASE PollOpen
  <2>1. task[Poller].at = "open"
    BY <1>2 DEF PollOpen
  <2>2. \/ Connect(Poller, "info") /\ UNCHANGED <<settings, polled>>
        \/ \E out \in {"failed", "authfailed"} : End(Poller, out) /\ UNCHANGED session
    BY <1>2 DEF PollOpen
  <2>. QED
    BY <1>0, <2>1, <2>2, ConnectMoves, EndMoves
<1>3. CASE PollInfo
  BY <1>3, ProceedMoves DEF PollInfo
<1>4. CASE PollThread
  <2>1. task[Poller].at = "thread"
    BY <1>4 DEF PollThread
  <2>2. \/ Go(Poller, "scenes") /\ UNCHANGED <<session, settings, polled>>
        \/ Query("light")
        \/ SafeClose(Poller, "failed")
    BY <1>4 DEF PollThread
  <2>. QED
    BY <1>0, <2>1, <2>2, GoMoves, QueryMoves, SafeCloseMoves
<1>5. CASE PollScenes
  BY <1>5, QueryMoves DEF PollScenes
<1>6. CASE PollLight
  <2>1. task[Poller].at = "light"
    BY <1>6 DEF PollLight
  <2>2. Query("scene") \/ \E r : Recover(Poller, r, "failed")
    BY <1>6 DEF PollLight
  <2>. QED
    BY <1>0, <2>1, <2>2, QueryMoves, RecoverMoves
<1>7. CASE PollScene
  <2>1. task[Poller].at = "scene"
    BY <1>7 DEF PollScene
  <2>2. \/ Proceed("rethread", "lost") /\ UNCHANGED session
        \/ PollSettings /\ UNCHANGED session
        \/ \E r : Recover(Poller, r, "failed")
    BY <1>7 DEF PollScene
  <2>. QED
    BY <1>0, <2>1, <2>2, ProceedMoves, PollSettingsMoves, RecoverMoves
<1>8. CASE Reauth(Poller, "light", "failed")
  BY <1>0, <1>8, ReauthMoves
<1>9. CASE PollRethread
  <2>1. task[Poller].at = "rethread"
    BY <1>9 DEF PollRethread
  <2>2. (PollSettings /\ UNCHANGED session) \/ SafeClose(Poller, "ok")
    BY <1>9 DEF PollRethread
  <2>. QED
    BY <1>0, <2>1, <2>2, PollSettingsMoves, SafeCloseMoves
<1>10. CASE PollAcquire
  <2>1. task[Poller].at = "lock" /\ Head(settings) = Poller
    BY <1>10 DEF PollAcquire
  <2>2. First(Poller)
    BY <1>0, <2>1 DEF QueueInv, Queue, Queued, First, Wants
  <2>. QED
    BY <1>10, <2>1, <2>2, ProceedMoves DEF PollAcquire
<1>11. CASE PollRead
  <2>1. task[Poller].at = "read"
    BY <1>11 DEF PollRead
  <2>2. (End(Poller, "ok") /\ UNCHANGED session) \/ SafeClose(Poller, "ok")
    BY <1>11 DEF PollRead
  <2>. QED
    BY <1>0, <2>1, <2>2, EndMoves, SafeCloseMoves
<1>12. CASE CloseEnds(Poller)
  BY <1>0, <1>12, CloseMoves
<1>. QED
  BY <1>1, <1>2, <1>3, <1>4, <1>5, <1>6, <1>7, <1>8, <1>9, <1>10, <1>11, <1>12 DEF PollStep

\* Every step is a move of some task.
LEMMA StepMoves ==
  ASSUME TypeOK, TaskInv, QueueInv, [Next]_vars
  PROVE  \E t \in Tasks : Moved(t)
<1>0. Poller \in Tasks /\ Unloader \in Tasks /\ Services \subseteq Tasks
  BY DEF Tasks
<1>1. ASSUME NEW t \in Services, ServiceStep(t) \/ Cancel(t) PROVE Moved(t)
  BY <1>1, ServiceMoves
<1>2. ASSUME NEW t \in Services, NEW op \in {"command", "settings"}, Begin(t, op) PROVE Moved(t)
  BY <1>2, BeginMoves
<1>3. CASE BeginPoll \/ PollStep
  BY <1>0, <1>3, PollMoves
<1>4. CASE Unload
  BY <1>0, <1>4, SafeCloseMoves, CoordinatorAssumption
     DEF CoordinatorAssumption, Unload, Outs
<1>5. CASE CloseEnds(Unloader)
  BY <1>0, <1>5, CloseMoves
<1>6. CASE UNCHANGED <<session, settings, task, polled>>
  <2>1. Moved(Poller)
    BY <1>6 DEF Moved, Keeps, Others, Wants, TypeOK, TaskInv, Polls
  <2>. QED
    BY <1>0, <2>1
<1>. QED
  BY <1>0, <1>1, <1>2, <1>3, <1>4, <1>5, <1>6 DEF Next, BecomeCalm, vars

Flags ==
  /\ stale \subseteq Sessions
  /\ failures \in 0..Threshold
  /\ \A b \in {calm, fetched, stopped} : b \in BOOLEAN

\* Every step keeps the types of what the tasks do not hold.
LEMMA FlagsKept == Flags /\ [Next]_vars => Flags'
<1>. SUFFICES ASSUME Flags, [Next]_vars PROVE Flags'
  OBVIOUS
<1>1. stale' \subseteq Sessions
  <2>1. ASSUME NEW t \in Tasks, CloseEnds(t) PROVE stale' \subseteq Sessions
    BY <2>1 DEF CloseEnds, Flags
  <2>2. ASSUME NEW t, NEW at, Connect(t, at) PROVE stale' \subseteq Sessions
    BY <2>2 DEF Connect, Flags
  <2>3. ASSUME NEW t, NEW at, NEW out, Reauth(t, at, out) PROVE stale' \subseteq Sessions
    BY <2>3 DEF Reauth, Flags
  <2>4. CASE UNCHANGED stale
    BY <2>4 DEF Flags
  <2>5. CASE BecomeCalm
    BY <2>5 DEF BecomeCalm
  <2>6. ASSUME NEW t \in Services, ServiceStep(t) PROVE stale' \subseteq Sessions
    BY <2>2, <2>3, <2>4, <2>6
       DEF ServiceStep, Acquire, ServiceOpen, ServiceAct, ServiceRead, CloseEnds
  <2>7. CASE PollStep
    BY <2>2, <2>3, <2>4, <2>7
       DEF PollStep, PollOpen, PollInfo, PollThread, PollScenes, PollLight, PollScene,
           PollRethread, PollAcquire, PollRead, CloseEnds
  <2>8. CASE BeginPoll \/ Unload \/ CloseEnds(Unloader) \/ UNCHANGED vars
    BY <2>4, <2>8 DEF BeginPoll, Unload, CloseEnds, vars
  <2>9. ASSUME NEW t \in Services, Cancel(t) \/ \E op \in {"command", "settings"} : Begin(t, op)
        PROVE  stale' \subseteq Sessions
    BY <2>4, <2>9 DEF Cancel, Begin, Flags
  <2>. QED
    BY <2>5, <2>6, <2>7, <2>8, <2>9 DEF Next
<1>2. failures' \in 0..Threshold
  <2>1. CASE UNCHANGED failures
    BY <2>1 DEF Flags
  <2>2. CASE PollOpen
    BY <2>2, CoordinatorAssumption DEF CoordinatorAssumption, PollOpen, AfterConnect, Flags
  <2>3. ASSUME NEW t \in Services, ServiceStep(t) \/ Cancel(t) PROVE UNCHANGED failures
    BY <2>3
       DEF ServiceStep, Acquire, ServiceOpen, ServiceAct, ServiceRead, Reauth, CloseEnds, Cancel
  <2>4. ASSUME PollStep, ~PollOpen PROVE UNCHANGED failures
    BY <2>4
       DEF PollStep, PollInfo, PollThread, PollScenes, PollLight, PollScene, Reauth,
           PollRethread, PollAcquire, PollRead, CloseEnds
  <2>5. ASSUME \/ BeginPoll \/ Unload \/ CloseEnds(Unloader) \/ BecomeCalm \/ UNCHANGED vars
               \/ \E t \in Services, op \in {"command", "settings"} : Begin(t, op)
        PROVE  UNCHANGED failures
    BY <2>5 DEF BeginPoll, Unload, CloseEnds, BecomeCalm, vars, Begin
  <2>. QED
    BY <2>1, <2>2, <2>3, <2>4, <2>5 DEF Next
<1>3. calm' \in BOOLEAN /\ fetched' \in BOOLEAN /\ stopped' \in BOOLEAN
  <2>1. ASSUME NEW t \in Services, ServiceStep(t) \/ Cancel(t)
        PROVE  calm' \in BOOLEAN /\ fetched' \in BOOLEAN /\ stopped' \in BOOLEAN
    BY <2>1
       DEF ServiceStep, Acquire, ServiceOpen, ServiceAct, ServiceRead, Reauth, CloseEnds, Cancel,
           Connect, Flags
  <2>2. CASE PollStep
    BY <2>2
       DEF PollStep, PollOpen, PollInfo, PollThread, PollScenes, PollLight, PollScene, Reauth,
           PollRethread, PollAcquire, PollRead, CloseEnds, Connect, Flags
  <2>3. CASE \/ BeginPoll \/ Unload \/ CloseEnds(Unloader) \/ BecomeCalm \/ UNCHANGED vars
             \/ \E t \in Services, op \in {"command", "settings"} : Begin(t, op)
    BY <2>3 DEF BeginPoll, Unload, CloseEnds, BecomeCalm, vars, Begin, Flags
  <2>. QED
    BY <2>1, <2>2, <2>3 DEF Next
<1>. QED
  BY <1>1, <1>2, <1>3 DEF Flags

-----------------------------------------------------------------------------
(* The theorems.                                                           *)

\* The invariant holds at first,
LEMMA InvInit == Init => IInv
<1>. SUFFICES ASSUME Init PROVE IInv
  OBVIOUS
<1>1. Idle \in TaskType /\ Idle.at = "idle" /\ Idle.op = "none" /\ Idle.then = "none"
  BY DEF Idle, TaskType, Points
<1>2. /\ task \in [Tasks -> TaskType]
      /\ \A t \in Tasks : task[t] = Idle
      /\ settings = <<>>
      /\ Poller \in Tasks
  BY <1>1 DEF Init, Tasks
<1>3. TypeOK
  <2>1. 0 \in 0..Threshold
    BY CoordinatorAssumption DEF CoordinatorAssumption
  <2>2. \A b \in {calm, fetched, stopped} : b \in BOOLEAN
    BY DEF Init
  <2>. QED
    BY <1>2, <2>1, <2>2 DEF Init, TypeOK
<1>4. TaskInv
  BY <1>1, <1>2 DEF TaskInv
<1>5. QueueInv
  BY <1>1, <1>2 DEF QueueInv, Queue, Queued, Wants, Tasks
<1>. QED
  BY <1>3, <1>4, <1>5 DEF IInv

\* and every step keeps it.
LEMMA InvNext == IInv /\ [Next]_vars => IInv'
<1>. SUFFICES ASSUME IInv, [Next]_vars PROVE IInv'
  OBVIOUS
<1>1. PICK t \in Tasks : Moved(t)
  BY StepMoves DEF IInv
<1>2. QueueInv'
  BY <1>1, QueueKept DEF IInv
<1>3. Flags'
  <2>1. Flags
    BY DEF IInv, TypeOK, Flags
  <2>. QED
    BY <2>1, FlagsKept
<1>4. TypeOK'
  BY <1>1, <1>2, <1>3 DEF Moved, QueueInv, Queue, Flags, TypeOK, Polls
<1>. QED
  BY <1>1, <1>2, <1>4 DEF IInv, Moved

\* The invariant holds in every reachable state.
THEOREM Inductive == Spec => []IInv
<1>. QED
  BY InvInit, InvNext, PTL DEF Spec

\* Every reachable state is well typed: there is always a number for the session that
\* a task opens, and no task is in the settings queue twice.
THEOREM TypeCorrect == Spec => []TypeOK
<1>1. IInv => TypeOK
  BY DEF IInv
<1>. QED
  BY <1>1, Inductive, PTL

\* One settings action at a time writes and reads back, and it is first in the queue,
\* however calls overlap, fail or are cancelled and sessions are closed under them.
THEOREM OneSettingsAction == Spec => []SettingsExclusive
<1>1. IInv => SettingsExclusive
  <2>. SUFFICES ASSUME IInv PROVE SettingsExclusive
    OBVIOUS
  <2>1. ASSUME NEW t \in Tasks, InSettings(t) PROVE First(t)
    BY <2>1 DEF IInv, QueueInv, InSettings, Wants
  <2>2. \A t \in Tasks : First(t) => settings # <<>> /\ Head(settings) = t
    BY DEF First, IInv, QueueInv, Queue
  <2>3. \A t, u \in Tasks : First(t) /\ First(u) => t = u
    BY DEF First
  <2>. QED
    BY <2>1, <2>2, <2>3 DEF SettingsExclusive
<1>. QED
  BY <1>1, Inductive, PTL
=============================================================================
