------------------------- MODULE SceneUpload_proofs -------------------------
(***************************************************************************)
(* Proofs about SceneUpload, for any number of uploads at once, any set of *)
(* identifiers, any capacity and any interference by the app.              *)
(***************************************************************************)
EXTENDS SceneUpload, FiniteSetTheorems, TLAPS

-----------------------------------------------------------------------------
(* The inductive invariant: what an upload that holds the lock knows of    *)
(* the bulb, unless the app has added a scene meanwhile.                   *)

After == {"readback", "relist", "play"}

\* An upload has written exactly when its write has been answered.
PhaseOf(t) ==
  /\ ~At(t, "idle") => outcome[t] = "none" /\ task[t].name \in Names
  /\ outcome[t] = "none" /\ ~(task[t].at \in After) => writes[t] = 0
  /\ task[t].at \in After => writes[t] = 1
  /\ outcome[t] = "refused" => writes[t] = 0
  /\ outcome[t] = "ok" => writes[t] = 1
PhaseInv == \A t \in Uploads : PhaseOf(t)

\* The list it has read leaves room, the identifier it has chosen is not in it, and
\* it still has all that is stored: scenes may only have been deleted.
ListOf(t) ==
  task[t].at \in {"check", "add"} =>
    /\ task[t].id \in Ids \ task[t].listed
    /\ Cardinality(task[t].listed) < Limit
    /\ t \notin raced => Occupied \subseteq task[t].listed
ListInv == \A t \in Uploads : ListOf(t)

\* Natively, no scene it has asked for has the name it is to write.
NameOf(t) ==
  native /\ t \notin raced =>
    /\ At(t, "check") => \A j \in Occupied : j \in task[t].left \/ stored[j] # task[t].name
    /\ At(t, "add") => \A j \in Occupied : stored[j] # task[t].name
NameInv == \A t \in Uploads : NameOf(t)

\* What it has verified is still there, or has been deleted.
PlayOf(t) ==
  task[t].at \in After =>
    /\ task[t].id \in Ids
    /\ ~At(t, "readback") /\ t \notin raced => stored[task[t].id] \in {None, task[t].name}
PlayInv == \A t \in Uploads : PlayOf(t)

IInv ==
  /\ TypeOK
  /\ PhaseInv
  /\ ListInv
  /\ NameInv
  /\ PlayInv

-----------------------------------------------------------------------------
(* What the shared operators do to well-typed states.                      *)

Points == {"idle", "lock", "motions", "list", "check", "add", "readback", "relist", "play"}
TaskType == [at : Points, name : Names \cup {None}, play : BOOLEAN,
             listed : SUBSET Ids, left : SUBSET Ids, id : Ids \cup {0}]
Outcomes == {"none", "ok", "refused", "unknown", "cancelled"}

\* What a task begins as is of its type,
LEMMA IdleType == Idle \in TaskType
  BY DEF Idle, TaskType, Points

\* and so is one that has read the list,
LEMMA ListedRecord ==
  ASSUME NEW r \in TaskType, NEW at \in Points, NEW ids \in SUBSET Ids, NEW i \in Ids \cup {0}
  PROVE  [r EXCEPT !.at = at, !.listed = ids, !.left = ids, !.id = i] \in TaskType
  BY DEF TaskType

\* one that has read a name
LEMMA CheckedRecord ==
  ASSUME NEW r \in TaskType, NEW at \in Points, NEW ids \in SUBSET Ids
  PROVE  [r EXCEPT !.left = ids, !.at = at] \in TaskType
  BY DEF TaskType

\* and one that has written.
LEMMA WrittenRecord ==
  ASSUME NEW r \in TaskType, NEW i \in Ids \cup {0}
  PROVE  [r EXCEPT !.at = "readback", !.id = i] \in TaskType
  BY DEF TaskType, Points

\* The bulb stores finitely many scenes.
LEMMA OccupiedFinite ==
  /\ Occupied \subseteq Ids
  /\ IsFiniteSet(Occupied)
  /\ Cardinality(Occupied) \in Nat
<1>1. Occupied \subseteq Ids
  BY DEF Occupied
<1>2. IsFiniteSet(Occupied)
  BY <1>1, UploadAssumption, FS_Subset DEF UploadAssumption
<1>. QED
  BY <1>1, <1>2, FS_CardinalityType

\* Who holds the lock is alone between `async with` and its end.
LEMMA Alone ==
  ASSUME TypeOK, NEW t \in Uploads, task[t].at \notin {"idle", "lock"}
  PROVE  /\ lock = t
         /\ \A u \in Uploads : u # t => task[u].at \in {"idle", "lock"}
  BY DEF TypeOK

\* A task that goes on keeps the rest of its record.
LEMMA GoEffect ==
  ASSUME TypeOK, NEW t \in Uploads, NEW at \in Points, Go(t, at)
  PROVE  /\ task' \in [Uploads -> TaskType]
         /\ task'[t] = [task[t] EXCEPT !.at = at]
         /\ \A u \in Uploads : u # t => task'[u] = task[u]
  BY DEF Go, TypeOK, TaskType, Points

\* An upload that ends leaves the lock, and nobody else is past it.
LEMMA EndEffect ==
  ASSUME TypeOK, NEW t \in Uploads, NEW out \in Outcomes, End(t, out)
  PROVE  /\ task' \in [Uploads -> TaskType]
         /\ task'[t] = Idle
         /\ \A u \in Uploads : u # t => task'[u] = task[u]
         /\ outcome' \in [Uploads -> Outcomes]
         /\ outcome'[t] = out
         /\ \A u \in Uploads : u # t => outcome'[u] = outcome[u]
         /\ lock' = None
  BY IdleType DEF End, TypeOK, TaskType, Points, Outcomes

-----------------------------------------------------------------------------
(* Type correctness.                                                       *)

\* The variables have their types at first.
LEMMA TypeInit == Init => TypeOK
  BY IdleType, UploadAssumption
     DEF Init, TypeOK, TaskType, Points, Idle, Occupied, UploadAssumption

\* Every step keeps the types.
LEMMA TypeNext == TypeOK /\ PhaseInv /\ PlayInv /\ [Next]_vars => TypeOK'
<1>. SUFFICES ASSUME TypeOK, PhaseInv, PlayInv, [Next]_vars
             PROVE  TypeOK'
  OBVIOUS
<1>1. ASSUME NEW t \in Uploads, NEW n \in Names, NEW play \in BOOLEAN, Begin(t, n, play)
      PROVE  TypeOK'
  BY <1>1, IdleType DEF Begin, TypeOK, TaskType, Points
<1>2. ASSUME NEW t \in Uploads, Acquire(t) PROVE TypeOK'
  BY <1>2, UploadAssumption DEF UploadAssumption, Acquire, Free, At, Go, TypeOK
<1>3. ASSUME NEW t \in Uploads, NEW out \in Outcomes, End(t, out), task[t].at \notin {"idle", "lock"}
      PROVE  /\ lock' \in Uploads \cup {None}
             /\ task' \in [Uploads -> TaskType]
             /\ outcome' \in [Uploads -> Outcomes]
             /\ \A u \in Uploads : task'[u].at \notin {"idle", "lock"} => lock' = u
  BY <1>3, EndEffect, Alone DEF TypeOK, Idle
<1>4. ASSUME NEW t \in Uploads, NEW at \in Points, Go(t, at), task[t].at \notin {"idle", "lock"},
             lock' = lock
      PROVE  /\ task' \in [Uploads -> TaskType]
             /\ \A u \in Uploads : task'[u].at \notin {"idle", "lock"} => lock' = u
  BY <1>4, GoEffect DEF TypeOK, TaskType
<1>5. ASSUME NEW t \in Uploads, Refuse(t) \/ WriteFails(t) \/ LaterFails(t) PROVE TypeOK'
  BY <1>3, <1>5 DEF Refuse, WriteFails, LaterFails, At, TypeOK, TaskType, Points, Outcomes
<1>6. ASSUME NEW t \in Uploads, Motions(t) PROVE TypeOK'
  BY <1>4, <1>6 DEF Motions, At, TypeOK, TaskType, Points
<1>7. ASSUME NEW t \in Uploads, Listed(t) PROVE TypeOK'
  <2>1. raced' \subseteq Uploads
    BY <1>7 DEF Listed, TypeOK
  <2>2. CASE End(t, "refused")
    BY <1>3, <1>7, <2>1, <2>2 DEF Listed, At, TypeOK, TaskType, Points, Outcomes
  <2>3. ASSUME NEW i \in Picks(Occupied), NEW at \in {"check", "add"}, lock' = lock, outcome' = outcome,
               task' = [task EXCEPT ![t].at = at, ![t].listed = Occupied,
                                    ![t].left = Occupied, ![t].id = i]
        PROVE  TypeOK'
    <3>1. i \in Ids /\ Occupied \subseteq Ids
      BY OccupiedFinite DEF Picks
    <3>2. lock = t /\ \A u \in Uploads : u # t => task[u].at \in {"idle", "lock"}
      BY <1>7, Alone DEF Listed, At
    <3>3. task' \in [Uploads -> TaskType]
      <4> DEFINE r == [task[t] EXCEPT !.at = at, !.listed = Occupied, !.left = Occupied, !.id = i]
      <4>1. r \in TaskType
        <5>1. task[t] \in TaskType /\ at \in Points
          BY DEF TypeOK, TaskType, Points
        <5>. QED
          BY <3>1, <5>1, ListedRecord
      <4>2. task' = [task EXCEPT ![t] = r]
        BY <2>3 DEF TypeOK
      <4> HIDE DEF r
      <4>. QED
        BY <4>1, <4>2 DEF TypeOK, TaskType, Points
    <3>4. \A u \in Uploads : u # t => task'[u] = task[u]
      BY <2>3 DEF TypeOK
    <3>. QED
      BY <1>7, <2>1, <2>3, <3>2, <3>3, <3>4 DEF Listed, TypeOK, TaskType, Points
  <2>. QED
    BY <1>7, <2>2, <2>3 DEF Listed
<1>8. ASSUME NEW t \in Uploads, CheckName(t) PROVE TypeOK'
  <2>1. CASE End(t, "refused")
    BY <1>3, <1>8, <2>1 DEF CheckName, At, TypeOK, TaskType, Points, Outcomes
  <2>2. ASSUME NEW i \in task[t].left, NEW at \in {"check", "add"}, lock' = lock, outcome' = outcome,
               task' = [task EXCEPT ![t].left = @ \ {i}, ![t].at = at]
        PROVE  TypeOK'
    <3>1. lock = t /\ \A u \in Uploads : u # t => task[u].at \in {"idle", "lock"}
      BY <1>8, Alone DEF CheckName, At
    <3>2. task' \in [Uploads -> TaskType]
      <4> DEFINE r == [task[t] EXCEPT !.left = @ \ {i}, !.at = at]
      <4>1. r \in TaskType
        <5>1. task[t] \in TaskType /\ at \in Points /\ task[t].left \ {i} \in SUBSET Ids
          BY DEF TypeOK, TaskType, Points
        <5>. QED
          BY <5>1, CheckedRecord
      <4>2. task' = [task EXCEPT ![t] = r]
        BY <2>2 DEF TypeOK
      <4> HIDE DEF r
      <4>. QED
        BY <4>1, <4>2 DEF TypeOK, TaskType, Points
    <3>3. \A u \in Uploads : u # t => task'[u] = task[u]
      BY <2>2 DEF TypeOK
    <3>. QED
      BY <1>8, <2>2, <3>1, <3>2, <3>3 DEF CheckName, TypeOK, TaskType, Points
  <2>. QED
    BY <1>8, <2>1, <2>2 DEF CheckName
<1>9. ASSUME NEW t \in Uploads, Write(t) PROVE TypeOK'
  <2>1. PICK i \in Slots(t), n \in Names :
          /\ stored' = [stored EXCEPT ![i] = n]
          /\ writes' = [writes EXCEPT ![t] = @ + 1]
          /\ \/ End(t, "unknown")
             \/ /\ i \notin task[t].listed
                /\ task' = [task EXCEPT ![t].at = "readback", ![t].id = i]
                /\ UNCHANGED <<lock, outcome>>
    BY <1>9 DEF Write, LostWrite
  <2>2. i \in Ids \cup {0}
    BY DEF Slots, TypeOK, TaskType
  <2>3. stored' \in [Ids -> Names \cup {None}]
    BY <2>1 DEF TypeOK
  <2>4. writes' \in [Uploads -> 0..1]
    <3>1. writes[t] = 0
      BY <1>9 DEF Write, At, PhaseInv, PhaseOf, After
    <3>. QED
      BY <2>1, <3>1 DEF TypeOK
  <2>5. CASE End(t, "unknown")
    BY <1>3, <1>9, <2>3, <2>4, <2>5 DEF Write, At, TypeOK, TaskType, Points, Outcomes
  <2>6. CASE /\ task' = [task EXCEPT ![t].at = "readback", ![t].id = i]
             /\ UNCHANGED <<lock, outcome>>
    <3>1. task' \in [Uploads -> TaskType]
      <4> DEFINE r == [task[t] EXCEPT !.at = "readback", !.id = i]
      <4>1. r \in TaskType
        <5>1. task[t] \in TaskType
          BY DEF TypeOK, TaskType, Points
        <5>. QED
          BY <2>2, <5>1, WrittenRecord
      <4>2. task' = [task EXCEPT ![t] = r]
        BY <2>6 DEF TypeOK
      <4> HIDE DEF r
      <4>. QED
        BY <4>1, <4>2 DEF TypeOK, TaskType, Points
    <3>2. lock = t /\ \A u \in Uploads : u # t => task[u].at \in {"idle", "lock"}
      BY <1>9, Alone DEF Write, At
    <3>3. \A u \in Uploads : u # t => task'[u] = task[u]
      BY <2>6 DEF TypeOK
    <3>. QED
      BY <1>9, <2>3, <2>4, <2>6, <3>1, <3>2, <3>3 DEF Write, TypeOK, TaskType, Points
  <2>. QED
    BY <2>1, <2>5, <2>6
<1>10. ASSUME NEW t \in Uploads, ReadBack(t) \/ Relist(t) \/ Play(t) PROVE TypeOK'
  <2>1. task[t].at \notin {"idle", "lock"} /\ UNCHANGED <<native, stored, reader, others, writes, raced>>
    BY <1>10 DEF ReadBack, Relist, Play, At
  <2>2. playing' \in Ids \cup {None} /\ published' \subseteq Ids
    <3>1. CASE ReadBack(t)
      BY <3>1 DEF ReadBack, TypeOK
    <3>2. CASE Relist(t)
      BY <3>2, OccupiedFinite DEF Relist, TypeOK
    <3>3. CASE Play(t)
      BY <3>3 DEF Play, At, PlayInv, PlayOf, After, TypeOK
    <3>. QED
      BY <1>10, <3>1, <3>2, <3>3
  <2>3. \/ \E out \in Outcomes : End(t, out)
        \/ \E at \in Points : Go(t, at) /\ lock' = lock /\ outcome' = outcome
    BY <1>10 DEF ReadBack, Relist, Play, Outcomes, Points
  <2>4. /\ lock' \in Uploads \cup {None}
        /\ task' \in [Uploads -> TaskType]
        /\ outcome' \in [Uploads -> Outcomes]
        /\ \A u \in Uploads : task'[u].at \notin {"idle", "lock"} => lock' = u
    BY <1>3, <1>4, <2>1, <2>3 DEF TypeOK, Outcomes
  <2>. QED
    BY <2>1, <2>2, <2>4 DEF TypeOK, TaskType, Points, Outcomes
<1>11. ASSUME NEW t \in Uploads, Cancel(t) PROVE TypeOK'
  BY <1>11, IdleType DEF Cancel, At, Idle, TypeOK, TaskType, Points
<1>12. CASE BeginReload \/ BeginStatic \/ Publish \/ UNCHANGED vars
  <2>1. others' \in 0..MaxOthers
    BY <1>12, UploadAssumption
       DEF UploadAssumption, BeginReload, BeginStatic, Publish, Other, TypeOK, vars
  <2>2. published' \subseteq Ids /\ (reader' = None \/ reader' \subseteq Ids)
    BY <1>12, OccupiedFinite DEF BeginReload, BeginStatic, Publish, TypeOK, vars
  <2>3. UNCHANGED <<native, lock, task, stored, playing, writes, outcome, raced>>
    BY <1>12 DEF BeginReload, BeginStatic, Publish, vars
  <2>. QED
    BY <2>1, <2>2, <2>3 DEF TypeOK
<1>13. ASSUME NEW i \in Ids, AppDelete(i) \/ \E n \in Names : AppAdd(i, n) PROVE TypeOK'
  <2>1. others' \in 0..MaxOthers
    BY <1>13, UploadAssumption DEF UploadAssumption, AppDelete, AppAdd, Other, TypeOK
  <2>2. stored' \in [Ids -> Names \cup {None}] /\ playing' \in Ids \cup {None} /\ raced' \subseteq Uploads
    BY <1>13 DEF AppDelete, AppAdd, TypeOK
  <2>3. UNCHANGED <<native, lock, task, published, reader, writes, outcome>>
    BY <1>13 DEF AppDelete, AppAdd
  <2>. QED
    BY <2>1, <2>2, <2>3 DEF TypeOK
<1>. QED
  BY <1>1, <1>2, <1>5, <1>6, <1>7, <1>8, <1>9, <1>10, <1>11, <1>12, <1>13 DEF Next, Step

-----------------------------------------------------------------------------
(* What a step leaves alone.                                               *)

Starts(t) == \E n \in Names, play \in BOOLEAN : Begin(t, n, play)
Acts(t) == Step(t) \/ Cancel(t) \/ Starts(t)
Outside ==
  \/ BeginReload \/ BeginStatic \/ Publish \/ UNCHANGED vars
  \/ \E i \in Ids : AppDelete(i) \/ \E n \in Names : AppAdd(i, n)

\* Every step is an upload's or from outside.
LEMMA NextActs == [Next]_vars => Outside \/ \E t \in Uploads : Acts(t)
  BY DEF Next, Outside, Acts, Starts

\* What happens outside leaves the uploads alone.
LEMMA OutsideKeeps == Outside => UNCHANGED <<native, lock, task, writes, outcome>>
  BY DEF Outside, BeginReload, BeginStatic, Publish, AppDelete, AppAdd, vars

\* What an upload does leaves the other uploads alone.
LEMMA ActsKeeps ==
  ASSUME TypeOK, NEW t \in Uploads, Acts(t)
  PROVE  /\ native' = native
         /\ \A u \in Uploads : u # t => /\ task'[u] = task[u]
                                        /\ outcome'[u] = outcome[u]
                                        /\ writes'[u] = writes[u]
<1>1. ASSUME NEW out, End(t, out)
      PROVE  \A u \in Uploads : u # t => task'[u] = task[u] /\ outcome'[u] = outcome[u]
  BY <1>1 DEF End, TypeOK
<1>2. ASSUME NEW at, Go(t, at)
      PROVE  \A u \in Uploads : u # t => task'[u] = task[u]
  BY <1>2 DEF Go, TypeOK
<1>3. CASE Acquire(t) \/ Motions(t)
  BY <1>2, <1>3 DEF Acquire, Motions
<1>4. CASE Refuse(t) \/ WriteFails(t) \/ LaterFails(t)
  BY <1>1, <1>4 DEF Refuse, WriteFails, LaterFails
<1>5. CASE Listed(t) \/ CheckName(t)
  BY <1>1, <1>5 DEF Listed, CheckName, TypeOK
<1>6. CASE Write(t)
  BY <1>1, <1>6 DEF Write, LostWrite, TypeOK
<1>7. CASE ReadBack(t) \/ Relist(t) \/ Play(t)
  BY <1>1, <1>2, <1>7 DEF ReadBack, Relist, Play
<1>8. CASE Cancel(t) \/ Starts(t)
  BY <1>8 DEF Cancel, Starts, Begin, TypeOK
<1>. QED
  BY <1>3, <1>4, <1>5, <1>6, <1>7, <1>8 DEF Acts, Step

\* An upload that ends is idle again, and says how.
LEMMA EndsIdle ==
  ASSUME TypeOK, NEW t \in Uploads, NEW out \in Outcomes, End(t, out)
  PROVE  task'[t].at = "idle" /\ outcome'[t] = out
  BY EndEffect DEF Idle

\* A list that leaves room is kept, with an identifier that is not in it.
LEMMA ListedEffect ==
  ASSUME TypeOK, NEW t \in Uploads, Listed(t), ~End(t, "refused")
  PROVE  /\ task'[t].at = IF native /\ Occupied # {} THEN "check" ELSE "add"
         /\ task'[t].name = task[t].name
         /\ task'[t].listed = Occupied
         /\ task'[t].left = Occupied
         /\ task'[t].id \in Ids \ Occupied
         /\ Cardinality(Occupied) < Limit
         /\ stored' = stored /\ Occupied' = Occupied /\ outcome' = outcome
<1>1. ~Full(Occupied)
  BY DEF Listed
<1>2. PICK i \in Picks(Occupied), at \in {"check", "add"} :
        /\ at = IF native /\ Occupied # {} THEN "check" ELSE "add"
        /\ task' = [task EXCEPT ![t].at = at, ![t].listed = Occupied,
                                ![t].left = Occupied, ![t].id = i]
  BY <1>1 DEF Listed
<1>3. task'[t] = [task[t] EXCEPT !.at = at, !.listed = Occupied, !.left = Occupied, !.id = i]
  BY <1>2 DEF TypeOK
<1>4. task[t] \in TaskType
  BY DEF TypeOK, TaskType, Points
<1>5. /\ task'[t].at = at /\ task'[t].name = task[t].name
      /\ task'[t].listed = Occupied /\ task'[t].left = Occupied /\ task'[t].id = i
  BY <1>3, <1>4 DEF TaskType
<1>6. i \in Ids \ Occupied
  BY DEF Picks
<1>7. Cardinality(Occupied) < Limit
  <2>1. Limit \in Nat
    BY UploadAssumption DEF UploadAssumption
  <2>2. ~(Cardinality(Occupied) >= Limit)
    BY <1>1 DEF Full
  <2>. QED
    BY <2>1, <2>2, OccupiedFinite
<1>8. stored' = stored /\ Occupied' = Occupied /\ outcome' = outcome
  BY <1>1 DEF Listed, Occupied
<1>. QED
  BY <1>2, <1>5, <1>6, <1>7, <1>8

\* A scene whose name was read and differs is left out of what is left to check.
LEMMA CheckedEffect ==
  ASSUME TypeOK, NEW t \in Uploads, CheckName(t), ~End(t, "refused")
  PROVE  \E i \in task[t].left :
           /\ task'[t].at = IF task[t].left = {i} THEN "add" ELSE "check"
           /\ task'[t].name = task[t].name
           /\ task'[t].listed = task[t].listed
           /\ task'[t].left = task[t].left \ {i}
           /\ task'[t].id = task[t].id
           /\ ~Clashes(t, i)
           /\ UNCHANGED <<stored, outcome, raced>>
<1>1. PICK i \in task[t].left :
        /\ ~Clashes(t, i)
        /\ task' = [task EXCEPT ![t].left = @ \ {i},
                                ![t].at = IF task[t].left = {i} THEN "add" ELSE "check"]
  BY DEF CheckName
<1>2. task'[t] = [task[t] EXCEPT !.left = @ \ {i},
                                 !.at = IF task[t].left = {i} THEN "add" ELSE "check"]
  BY <1>1 DEF TypeOK
<1>3. task[t] \in TaskType
  BY DEF TypeOK, TaskType, Points
<1>4. /\ task'[t].at = IF task[t].left = {i} THEN "add" ELSE "check"
      /\ task'[t].name = task[t].name
      /\ task'[t].listed = task[t].listed
      /\ task'[t].left = task[t].left \ {i}
      /\ task'[t].id = task[t].id
  BY <1>2, <1>3 DEF TaskType
<1>5. UNCHANGED <<stored, outcome, raced>>
  BY DEF CheckName
<1>. QED
  BY <1>1, <1>4, <1>5

\* A task that does not hold the lock touches nothing but itself and the lock.
LEMMA BeforeLock ==
  ASSUME TypeOK, NEW t \in Uploads, Acts(t), task[t].at \in {"idle", "lock"}
  PROVE  UNCHANGED <<stored, raced, playing, writes>>
<1>1. Acquire(t) \/ Cancel(t) \/ Starts(t)
  BY DEF Acts, Step, At, Refuse, Motions, Listed, CheckName, Write, WriteFails, ReadBack,
         Relist, LaterFails, Play
<1>. QED
  BY <1>1 DEF Acquire, Cancel, Starts, Begin

\* An upload starts by waiting for the lock.
LEMMA StartsLocked ==
  ASSUME TypeOK, NEW t \in Uploads, Starts(t)
  PROVE  task'[t].at = "lock"
<1>1. PICK n \in Names, play \in BOOLEAN : Begin(t, n, play)
  BY DEF Starts
<1>2. task' = [task EXCEPT ![t] = [Idle EXCEPT !.at = "lock", !.name = n, !.play = play]]
  BY <1>1 DEF Begin
<1>. QED
  BY <1>2 DEF Idle, TypeOK

\* Only a list and a name that was read lead to the checks and the write.
LEMMA ChecksOnly ==
  ASSUME TypeOK, NEW t \in Uploads, Acts(t), task'[t].at \in {"check", "add"}
  PROVE  (Listed(t) \/ CheckName(t)) /\ ~End(t, "refused")
<1>1. ASSUME NEW at \in Points, Go(t, at) PROVE task'[t].at = at
  <2>1. task'[t] = [task[t] EXCEPT !.at = at]
    BY <1>1, GoEffect
  <2>. QED
    BY <2>1 DEF TypeOK
<1>2. ASSUME NEW out \in Outcomes, End(t, out) PROVE task'[t].at = "idle"
  BY <1>2, EndsIdle
<1>3. ~(Acquire(t) \/ Motions(t) \/ ReadBack(t) \/ Relist(t))
  BY <1>1, <1>2 DEF Acquire, Motions, ReadBack, Relist, Points, Outcomes
<1>4. ~(Refuse(t) \/ WriteFails(t) \/ LaterFails(t) \/ Play(t))
  BY <1>2 DEF Refuse, WriteFails, LaterFails, Play, Outcomes
<1>5. ~Write(t)
  BY <1>2 DEF Write, LostWrite, Outcomes, TypeOK
<1>6. ~(Cancel(t) \/ Starts(t))
  <2>1. ~Cancel(t)
    BY DEF Cancel, Idle, TypeOK
  <2>. QED
    BY <2>1, StartsLocked
<1>7. ~End(t, "refused")
  BY <1>2 DEF Outcomes
<1>. QED
  BY <1>3, <1>4, <1>5, <1>6, <1>7 DEF Acts, Step

-----------------------------------------------------------------------------
(* Every part of the invariant is kept.                                    *)

\* Every step keeps PhaseInv,
LEMMA PhaseKept == TypeOK /\ PhaseInv /\ [Next]_vars => PhaseInv'
<1>. SUFFICES ASSUME TypeOK, PhaseInv, [Next]_vars
             PROVE  PhaseInv'
  OBVIOUS
<1>1. ASSUME NEW t \in Uploads, Acts(t) PROVE PhaseOf(t)'
  <2>1. PhaseOf(t)
    BY DEF PhaseInv, PhaseOf
  <2>2. CASE Acquire(t) \/ Motions(t)
    <3>1. PICK at \in {"motions", "list"} : Go(t, at)
      BY <2>2 DEF Acquire, Motions
    <3>2. task'[t] = [task[t] EXCEPT !.at = at]
      BY <3>1, GoEffect DEF Points
    <3>3. task'[t].at = at /\ task'[t].name = task[t].name
      BY <3>2 DEF TypeOK
    <3>. QED
      BY <2>1, <2>2, <3>1, <3>3 DEF Acquire, Motions, PhaseOf, After, At
  <2>3. CASE Refuse(t)
    BY <2>1, <2>3, EndsIdle DEF Refuse, PhaseOf, After, At, Outcomes
  <2>4. CASE WriteFails(t) \/ LaterFails(t)
    BY <2>1, <2>4, EndsIdle DEF WriteFails, LaterFails, PhaseOf, After, At, Outcomes
  <2>5. CASE Listed(t) \/ CheckName(t)
    <3>1. CASE End(t, "refused")
      BY <2>1, <2>5, <3>1, EndsIdle DEF Listed, CheckName, PhaseOf, After, At, Outcomes
    <3>2. CASE ~End(t, "refused")
      <4>1. task'[t].at \in {"check", "add"} /\ task'[t].name = task[t].name /\ outcome' = outcome
        <5>1. CASE Listed(t)
          BY <3>2, <5>1, ListedEffect
        <5>2. CASE CheckName(t)
          BY <3>2, <5>2, CheckedEffect
        <5>. QED
          BY <2>5, <5>1, <5>2
      <4>. QED
        BY <2>1, <2>5, <4>1 DEF Listed, CheckName, PhaseOf, After, At
    <3>. QED
      BY <3>1, <3>2
  <2>6. CASE Write(t)
    <3>1. At(t, "add") /\ writes'[t] = 1
      BY <2>1, <2>6 DEF Write, PhaseOf, At, After, TypeOK
    <3>2. CASE End(t, "unknown")
      BY <3>1, <3>2, EndsIdle DEF PhaseOf, After, At, Outcomes
    <3>3. CASE ~End(t, "unknown")
      <4>1. task'[t].at = "readback" /\ task'[t].name = task[t].name /\ outcome' = outcome
        BY <2>6, <3>3 DEF Write, LostWrite, TypeOK
      <4>. QED
        BY <2>1, <3>1, <4>1 DEF PhaseOf, After, At
    <3>. QED
      BY <3>2, <3>3
  <2>7. CASE ReadBack(t) \/ Relist(t) \/ Play(t)
    <3>1. task[t].at \in After /\ writes' = writes
      BY <2>7 DEF ReadBack, Relist, Play, At, After
    <3>2. ASSUME NEW out \in {"unknown", "ok"}, End(t, out) PROVE PhaseOf(t)'
      BY <2>1, <3>1, <3>2, EndsIdle DEF PhaseOf, After, At, Outcomes
    <3>3. ASSUME NEW at \in {"relist", "play"}, Go(t, at), outcome' = outcome PROVE PhaseOf(t)'
      <4>1. task'[t] = [task[t] EXCEPT !.at = at]
        BY <3>3, GoEffect DEF Points
      <4>2. task'[t].at = at /\ task'[t].name = task[t].name
        BY <4>1 DEF TypeOK
      <4>. QED
        BY <2>1, <3>1, <3>3, <4>2 DEF PhaseOf, After, At
    <3>. QED
      BY <2>7, <3>2, <3>3 DEF ReadBack, Relist, Play
  <2>8. CASE Cancel(t)
    BY <2>1, <2>8 DEF Cancel, PhaseOf, After, At, Idle, TypeOK
  <2>9. CASE Starts(t)
    BY <2>1, <2>9 DEF Starts, Begin, PhaseOf, After, At, Idle, TypeOK
  <2>. QED
    BY <1>1, <2>2, <2>3, <2>4, <2>5, <2>6, <2>7, <2>8, <2>9 DEF Acts, Step
<1>2. ASSUME NEW t \in Uploads, Acts(t) PROVE PhaseInv'
  BY <1>1, <1>2, ActsKeeps DEF PhaseInv, PhaseOf, At
<1>3. CASE Outside
  BY <1>3, OutsideKeeps DEF PhaseInv, PhaseOf, At
<1>. QED
  BY <1>2, <1>3, NextActs

\* Deletions by the app leave less to know; additions void what was known.
LEMMA OutsideShrinks ==
  ASSUME TypeOK, Outside, NEW t \in Uploads
  PROVE  /\ ~At(t, "idle") /\ t \notin raced' =>
              t \notin raced /\ \A i \in Ids : stored'[i] \in {None, stored[i]}
         /\ t \notin raced' => t \notin raced
<1>1. CASE BeginReload \/ BeginStatic \/ Publish \/ UNCHANGED vars
  BY <1>1 DEF BeginReload, BeginStatic, Publish, vars
<1>2. ASSUME NEW i \in Ids, AppDelete(i) PROVE raced' = raced /\ \A j \in Ids : stored'[j] \in {None, stored[j]}
  BY <1>2 DEF AppDelete, TypeOK
<1>3. ASSUME NEW i \in Ids, NEW n \in Names, AppAdd(i, n)
      PROVE  raced \subseteq raced' /\ (~At(t, "idle") => t \in raced')
  BY <1>3 DEF AppAdd
<1>. QED
  BY <1>1, <1>2, <1>3 DEF Outside

\* ListInv,
LEMMA ListKept == TypeOK /\ ListInv /\ [Next]_vars => ListInv'
<1>. SUFFICES ASSUME TypeOK, ListInv, [Next]_vars
             PROVE  ListInv'
  OBVIOUS
<1>1. ASSUME Outside PROVE ListInv'
  <2>. SUFFICES ASSUME NEW t \in Uploads PROVE ListOf(t)'
    BY DEF ListInv
  <2>1. task' = task /\ ListOf(t)
    BY <1>1, OutsideKeeps DEF ListInv
  <2>2. ASSUME task[t].at \in {"check", "add"}, t \notin raced' PROVE Occupied' \subseteq task[t].listed
    BY <1>1, <2>1, <2>2, OutsideShrinks DEF ListOf, Occupied, At
  <2>. QED
    BY <2>1, <2>2 DEF ListOf
<1>2. ASSUME NEW t \in Uploads, Acts(t) PROVE ListOf(t)'
  <2>1. ListOf(t)
    BY DEF ListInv
  <2>2. CASE Listed(t) /\ ~End(t, "refused")
    BY <2>2, ListedEffect DEF ListOf
  <2>3. CASE CheckName(t) /\ ~End(t, "refused")
    <3>1. /\ task'[t].listed = task[t].listed /\ task'[t].id = task[t].id
          /\ Occupied' = Occupied /\ raced' = raced
      BY <2>3, CheckedEffect DEF Occupied
    <3>. QED
      BY <2>1, <2>3, <3>1 DEF CheckName, ListOf, At
  <2>4. CASE task'[t].at \notin {"check", "add"}
    BY <2>4 DEF ListOf
  <2>. QED
    BY <1>2, <2>2, <2>3, <2>4, ChecksOnly
<1>3. ASSUME NEW t \in Uploads, Acts(t), NEW u \in Uploads, u # t PROVE ListOf(u)'
  <2>1. task'[u] = task[u] /\ ListOf(u)
    BY <1>3, ActsKeeps DEF ListInv
  <2>2. CASE task[t].at \in {"idle", "lock"}
    BY <1>3, <2>1, <2>2, BeforeLock DEF ListOf, Occupied
  <2>3. CASE task[t].at \notin {"idle", "lock"}
    BY <1>3, <2>1, <2>3, Alone DEF ListOf
  <2>. QED
    BY <2>2, <2>3
<1>4. ASSUME NEW t \in Uploads, Acts(t) PROVE ListInv'
  BY <1>2, <1>3, <1>4 DEF ListInv
<1>. QED
  BY <1>1, <1>4, NextActs

\* NameInv
LEMMA NameKept == TypeOK /\ ListInv /\ NameInv /\ [Next]_vars => NameInv'
<1>. SUFFICES ASSUME TypeOK, ListInv, NameInv, [Next]_vars
             PROVE  NameInv'
  OBVIOUS
<1>1. ASSUME Outside PROVE NameInv'
  <2>. SUFFICES ASSUME NEW t \in Uploads, native, t \notin raced', task[t].at \in {"check", "add"}
               PROVE  NameOf(t)'
    BY <1>1, OutsideKeeps DEF NameInv, NameOf, At
  <2>1. UNCHANGED <<native, task>> /\ NameOf(t)
    BY <1>1, OutsideKeeps DEF NameInv
  <2>2. t \notin raced /\ \A i \in Ids : stored'[i] \in {None, stored[i]}
    BY <1>1, OutsideShrinks DEF At
  <2>. QED
    BY <2>1, <2>2 DEF NameOf, Occupied, At
<1>2. ASSUME NEW t \in Uploads, Acts(t) PROVE NameOf(t)'
  <2>1. NameOf(t) /\ native' = native
    BY <1>2, ActsKeeps DEF NameInv
  <2>2. CASE task'[t].at \notin {"check", "add"}
    BY <2>2 DEF NameOf, At
  <2>3. CASE Listed(t) /\ ~End(t, "refused")
    BY <2>1, <2>3, ListedEffect DEF NameOf, At, Occupied
  <2>4. CASE CheckName(t) /\ ~End(t, "refused")
    <3>1. PICK i \in task[t].left :
            /\ task'[t].at = IF task[t].left = {i} THEN "add" ELSE "check"
            /\ task'[t].name = task[t].name
            /\ task'[t].left = task[t].left \ {i}
            /\ ~Clashes(t, i)
            /\ stored' = stored /\ raced' = raced
      BY <2>4, CheckedEffect
    <3>2. stored[i] # task[t].name
      BY <3>1 DEF Clashes
    <3>. QED
      BY <2>1, <2>4, <3>1, <3>2 DEF CheckName, NameOf, At, Occupied
  <2>. QED
    BY <1>2, <2>2, <2>3, <2>4, ChecksOnly
<1>3. ASSUME NEW t \in Uploads, Acts(t), NEW u \in Uploads, u # t PROVE NameOf(u)'
  <2>1. task'[u] = task[u] /\ native' = native /\ NameOf(u)
    BY <1>3, ActsKeeps DEF NameInv
  <2>2. CASE task[t].at \in {"idle", "lock"}
    BY <1>3, <2>1, <2>2, BeforeLock DEF NameOf, Occupied, At
  <2>3. CASE task[t].at \notin {"idle", "lock"}
    BY <1>3, <2>1, <2>3, Alone DEF NameOf, At
  <2>. QED
    BY <2>2, <2>3
<1>4. ASSUME NEW t \in Uploads, Acts(t) PROVE NameInv'
  BY <1>2, <1>3, <1>4 DEF NameInv
<1>. QED
  BY <1>1, <1>4, NextActs

\* Only these lead past the write.
LEMMA AfterOnly ==
  ASSUME TypeOK, NEW t \in Uploads, Acts(t), task'[t].at \in After
  PROVE  \/ /\ Write(t) /\ task'[t].at = "readback"
            /\ task'[t].id \in Slots(t)
         \/ /\ ReadBack(t) /\ task'[t].at = "relist" /\ Verified(t)
            /\ task'[t].id = task[t].id /\ task'[t].name = task[t].name
         \/ /\ Relist(t) /\ task'[t].at = "play"
            /\ task'[t].id = task[t].id /\ task'[t].name = task[t].name
<1>1. ASSUME NEW at \in Points, Go(t, at)
      PROVE  task'[t].at = at /\ task'[t].id = task[t].id /\ task'[t].name = task[t].name
  <2>1. task'[t] = [task[t] EXCEPT !.at = at] /\ task[t] \in TaskType
    BY <1>1, GoEffect DEF TypeOK, TaskType, Points
  <2>. QED
    BY <2>1 DEF TaskType
<1>2. ASSUME NEW out \in Outcomes, End(t, out) PROVE task'[t].at = "idle"
  BY <1>2, EndsIdle
<1>3. ~(Acquire(t) \/ Motions(t))
  BY <1>1 DEF Acquire, Motions, Points, After
<1>4. ~(Refuse(t) \/ WriteFails(t) \/ LaterFails(t) \/ Play(t))
  BY <1>2 DEF Refuse, WriteFails, LaterFails, Play, Outcomes, After
<1>5. ~Listed(t)
  BY <1>2, ListedEffect DEF Outcomes, After
<1>6. ~CheckName(t)
  BY <1>2, CheckedEffect DEF Outcomes, After
<1>7. ~Cancel(t)
  BY DEF Cancel, Idle, TypeOK, After
<1>8. ~Starts(t)
  BY StartsLocked DEF After
<1>9. CASE Write(t)
  <2>1. PICK i \in Slots(t) : task' = [task EXCEPT ![t].at = "readback", ![t].id = i]
    BY <1>2, <1>9 DEF Write, LostWrite, Outcomes, After
  <2>2. task'[t].at = "readback" /\ task'[t].id = i
    BY <2>1 DEF TypeOK
  <2>. QED
    BY <1>9, <2>2
<1>10. CASE ReadBack(t)
  BY <1>1, <1>2, <1>10 DEF ReadBack, Outcomes, Points, After
<1>11. CASE Relist(t)
  BY <1>1, <1>2, <1>11 DEF Relist, Outcomes, Points, After
<1>. QED
  BY <1>3, <1>4, <1>5, <1>6, <1>7, <1>8, <1>9, <1>10, <1>11 DEF Acts, Step

\* and PlayInv.
LEMMA PlayKept == TypeOK /\ ListInv /\ PlayInv /\ [Next]_vars => PlayInv'
<1>. SUFFICES ASSUME TypeOK, ListInv, PlayInv, [Next]_vars
             PROVE  PlayInv'
  OBVIOUS
<1>1. ASSUME Outside PROVE PlayInv'
  <2>. SUFFICES ASSUME NEW t \in Uploads, task[t].at \in After
               PROVE  PlayOf(t)'
    BY <1>1, OutsideKeeps DEF PlayInv, PlayOf
  <2>1. task' = task /\ PlayOf(t) /\ ~At(t, "idle")
    BY <1>1, OutsideKeeps DEF PlayInv, At, After
  <2>2. t \notin raced' => t \notin raced /\ \A i \in Ids : stored'[i] \in {None, stored[i]}
    BY <1>1, <2>1, OutsideShrinks
  <2>. QED
    BY <2>1, <2>2 DEF PlayOf, At
<1>2. ASSUME NEW t \in Uploads, Acts(t) PROVE PlayOf(t)'
  <2>. SUFFICES ASSUME task'[t].at \in After PROVE PlayOf(t)'
    BY DEF PlayOf
  <2>1. PlayOf(t) /\ ListOf(t)
    BY DEF PlayInv, ListInv
  <2>2. CASE Write(t) /\ task'[t].at = "readback" /\ task'[t].id \in Slots(t)
    <3>1. task[t].id \in Ids
      BY <2>1, <2>2 DEF Write, At, ListOf
    <3>. QED
      BY <2>2, <3>1 DEF Slots, PlayOf, At
  <2>3. CASE /\ ReadBack(t) /\ task'[t].at = "relist" /\ Verified(t)
             /\ task'[t].id = task[t].id /\ task'[t].name = task[t].name
    BY <2>1, <2>3 DEF ReadBack, Verified, PlayOf, At, After
  <2>4. CASE /\ Relist(t) /\ task'[t].at = "play"
             /\ task'[t].id = task[t].id /\ task'[t].name = task[t].name
    BY <2>1, <2>4 DEF Relist, PlayOf, At, After
  <2>. QED
    BY <1>2, <2>2, <2>3, <2>4, AfterOnly
<1>3. ASSUME NEW t \in Uploads, Acts(t), NEW u \in Uploads, u # t PROVE PlayOf(u)'
  <2>1. task'[u] = task[u] /\ PlayOf(u)
    BY <1>3, ActsKeeps DEF PlayInv
  <2>2. CASE task[t].at \in {"idle", "lock"}
    BY <1>3, <2>1, <2>2, BeforeLock DEF PlayOf, At
  <2>3. CASE task[t].at \notin {"idle", "lock"}
    BY <1>3, <2>1, <2>3, Alone DEF PlayOf, After
  <2>. QED
    BY <2>2, <2>3
<1>4. ASSUME NEW t \in Uploads, Acts(t) PROVE PlayInv'
  BY <1>2, <1>3, <1>4 DEF PlayInv
<1>. QED
  BY <1>1, <1>4, NextActs

-----------------------------------------------------------------------------
(* The invariant holds, and the properties follow.                         *)

\* The inductive invariant holds at first,
LEMMA InvInit == Init => IInv
  BY TypeInit DEF Init, Idle, At, After, IInv, PhaseInv, PhaseOf, ListInv, ListOf,
                  NameInv, NameOf, PlayInv, PlayOf

\* and every step keeps it.
LEMMA InvNext == IInv /\ [Next]_vars => IInv'
  BY TypeNext, PhaseKept, ListKept, NameKept, PlayKept DEF IInv

\* The invariant, which says what the holder of the lock knows of the bulb, holds in
\* every reachable state.
THEOREM Inductive == Spec => []IInv
  BY InvInit, InvNext, PTL DEF Spec

\* Every variable has its type, and whoever is past `async with` holds the lock.
THEOREM TypeCorrect == Spec => []TypeOK
<1>1. IInv => TypeOK
  BY DEF IInv
<1>. QED
  BY <1>1, Inductive, PTL

\* A refusal wrote nothing, and what is reported as saved was written once.
THEOREM RefusedUnwritten == Spec => []RefusedMeansUnwritten
<1>1. IInv => RefusedMeansUnwritten
  BY DEF IInv, PhaseInv, PhaseOf, RefusedMeansUnwritten
<1>. QED
  BY <1>1, Inductive, PTL

\* Only a write counts as one.
LEMMA WroteIsWrite ==
  ASSUME IInv, [Next]_vars, NEW t \in Uploads, Wrote(t)
  PROVE  Write(t)
<1>1. Acts(t)
  <2>1. ~Outside
    BY OutsideKeeps DEF Wrote
  <2>2. PICK u \in Uploads : Acts(u)
    BY <2>1, NextActs
  <2>3. u = t
    BY <2>2, ActsKeeps DEF IInv, Wrote
  <2>. QED
    BY <2>2, <2>3
<1>2. CASE Step(t)
  BY <1>2 DEF Step, Acquire, Refuse, Motions, Listed, CheckName, WriteFails, ReadBack, Relist,
              LaterFails, Play, Wrote
<1>3. CASE Cancel(t) \/ Starts(t)
  BY <1>3 DEF Cancel, Starts, Begin, Wrote
<1>. QED
  BY <1>1, <1>2, <1>3 DEF Acts

\* Unless the app has added a scene, the bulb stores in a slot that was free.
LEMMA WroteFree ==
  ASSUME IInv, [Next]_vars, NEW t \in Uploads, Wrote(t), t \notin raced
  PROVE  \E i \in Ids \ Occupied, n \in Names :
           /\ stored' = [stored EXCEPT ![i] = n]
           /\ Occupied' = Occupied \cup {i}
           /\ At(t, "add")
<1>1. Write(t)
  BY WroteIsWrite
<1>2. At(t, "add") /\ ListOf(t)
  BY <1>1 DEF Write, IInv, ListInv
<1>3. PICK i \in Slots(t), n \in Names : stored' = [stored EXCEPT ![i] = n]
  BY <1>1 DEF Write
<1>4. i \in Ids \ Occupied
  BY <1>2 DEF Slots, ListOf, At
<1>5. Occupied' = Occupied \cup {i}
  BY <1>3, <1>4, UploadAssumption DEF UploadAssumption, Occupied, IInv, TypeOK
<1>. QED
  BY <1>2, <1>3, <1>4, <1>5

\* No upload replaces a scene, but for one the app has added meanwhile.
THEOREM ReplacesNothing == Spec => NeverReplaces
<1>1. ASSUME IInv, [Next]_vars, NEW t \in Uploads, Wrote(t), t \notin raced, NEW i \in Occupied
      PROVE  stored'[i] = stored[i]
  <2>1. PICK j \in Ids \ Occupied, n \in Names : stored' = [stored EXCEPT ![j] = n]
    BY <1>1, WroteFree
  <2>. QED
    BY <2>1, OccupiedFinite DEF IInv, TypeOK
<1>2. IInv /\ [Next]_vars =>
        [\A t \in Uploads : Wrote(t) /\ t \notin raced =>
           \A i \in Occupied : stored'[i] = stored[i]]_vars
  BY <1>1
<1>. QED
  BY <1>2, Inductive, PTL DEF Spec, NeverReplaces

\* No upload makes the bulb hold more than its capacity.
THEOREM KeepsLimit == Spec => WithinLimit
<1>1. ASSUME IInv, [Next]_vars, NEW t \in Uploads, Wrote(t), t \notin raced
      PROVE  Cardinality(Occupied') <= Limit
  <2>1. PICK i \in Ids \ Occupied, n \in Names : Occupied' = Occupied \cup {i} /\ At(t, "add")
    BY <1>1, WroteFree
  <2>2. Cardinality(Occupied') = Cardinality(Occupied) + 1
    BY <2>1, OccupiedFinite, FS_AddElement
  <2>3. Occupied \subseteq task[t].listed /\ Cardinality(task[t].listed) < Limit
    BY <1>1, <2>1 DEF IInv, ListInv, ListOf, At
  <2>4. IsFiniteSet(task[t].listed)
    BY <1>1, UploadAssumption, FS_Subset DEF UploadAssumption, IInv, TypeOK
  <2>5. /\ Cardinality(Occupied) <= Cardinality(task[t].listed)
        /\ Cardinality(task[t].listed) \in Nat
    BY <2>3, <2>4, FS_Subset, FS_CardinalityType
  <2>. QED
    BY <2>2, <2>3, <2>5, OccupiedFinite, UploadAssumption DEF UploadAssumption
<1>2. IInv /\ [Next]_vars =>
        [\A t \in Uploads : Wrote(t) /\ t \notin raced => Cardinality(Occupied') <= Limit]_vars
  BY <1>1
<1>. QED
  BY <1>2, Inductive, PTL DEF Spec, WithinLimit

\* A native upload gives no name twice.
THEOREM NamesStayUnique == Spec => NamesUnique
<1>1. ASSUME IInv, [Next]_vars, NEW t \in Uploads, NEW i \in Ids,
             Wrote(t), native, t \notin raced, i \notin Occupied, stored'[i] = task[t].name
      PROVE  \A j \in Occupied : stored[j] # stored'[i]
  <2>1. At(t, "add")
    BY <1>1, WroteFree
  <2>. QED
    BY <1>1, <2>1 DEF IInv, NameInv, NameOf
<1>2. IInv /\ [Next]_vars =>
        [\A t \in Uploads, i \in Ids :
           Wrote(t) /\ native /\ t \notin raced /\ i \notin Occupied /\ stored'[i] = task[t].name
           => \A j \in Occupied : stored[j] # stored'[i]]_vars
  BY <1>1
<1>. QED
  BY <1>2, Inductive, PTL DEF Spec, NamesUnique

\* An upload that plays a scene plays the one it was asked to save.
THEOREM PlaysOwn == Spec => PlaysVerified
<1>1. ASSUME IInv, [Next]_vars, NEW t \in Uploads, At(t, "play"), task'[t].at = "idle",
             outcome'[t] = "ok", t \notin raced
      PROVE  stored[playing'] = task[t].name
  <2>1. outcome[t] # "ok" /\ PlayOf(t)
    BY <1>1 DEF IInv, PhaseInv, PhaseOf, PlayInv, At
  <2>2. Acts(t)
    <3>1. ~Outside
      BY <1>1, OutsideKeeps DEF At
    <3>2. PICK u \in Uploads : Acts(u)
      BY <1>1, <3>1, NextActs
    <3>3. u = t
      BY <1>1, <3>2, ActsKeeps DEF IInv, At
    <3>. QED
      BY <3>2, <3>3
  <2>3. LaterFails(t) \/ Play(t) \/ Cancel(t)
    BY <1>1, <2>2 DEF Acts, Step, Starts, Begin, At, Acquire, Refuse, Motions, Listed, CheckName,
                      Write, WriteFails, ReadBack, Relist
  <2>4. ASSUME LaterFails(t) \/ Cancel(t) PROVE outcome'[t] # "ok"
    <3>1. CASE LaterFails(t)
      BY <1>1, <3>1 DEF LaterFails, End, IInv, TypeOK
    <3>2. CASE Cancel(t)
      BY <1>1, <3>2 DEF Cancel, IInv, TypeOK
    <3>. QED
      BY <2>4, <3>1, <3>2
  <2>5. Play(t)
    BY <1>1, <2>3, <2>4
  <2>. QED
    BY <1>1, <2>1, <2>5 DEF Play, PlayOf, At, After
<1>2. IInv /\ [Next]_vars =>
        [\A t \in Uploads : At(t, "play") /\ task'[t].at = "idle" /\ outcome'[t] = "ok"
                            /\ t \notin raced
           => stored[playing'] = task[t].name]_vars
  BY <1>1
<1>. QED
  BY <1>2, Inductive, PTL DEF Spec, PlaysVerified
=============================================================================
