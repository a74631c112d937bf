---------------------------- MODULE SceneUpload ----------------------------
(***************************************************************************)
(* Saving a palette animation on a bulb: async_scene_action of             *)
(* coordinator.py with _upload_scene (legacy NL45) or _upload_effect_v2    *)
(* (native NL67).  An upload lists the stored scenes, picks a free slot,   *)
(* writes, reads back, lists again, publishes the list and may play the    *)
(* scene; each step is a service call of its own.  Meanwhile the Nanoleaf  *)
(* app adds and deletes scenes, other uploads queue for _scene_lock, and   *)
(* two coroutines that hold no lock publish scene lists of their own: the  *)
(* "reload scenes" button and the poll after a reconnection.               *)
(* At most one of those two is under way at a time.                        *)
(*                                                                         *)
(* A step that meets an expired session is repeated once after a reauth;   *)
(* expiry means that the device has not seen it (the session modules), so  *)
(* that is no step here.  The bulb's built-in scenes, which take no slot   *)
(* of a user, are left out, and what a scene is made of is its name.       *)
(***************************************************************************)
EXTENDS Naturals, FiniteSets

CONSTANTS
  Uploads,   \* calls of the upload service, one scene each
  Ids,       \* identifiers a scene may have
  Limit,     \* _SCENE_LIMIT, 12 in the code
  Names,
  MaxOthers, \* bound: list reads without the lock and changes by the app
  None

ASSUME UploadAssumption ==
  /\ Ids \subseteq Nat
  /\ IsFiniteSet(Ids)
  /\ Limit \in Nat
  /\ MaxOthers \in Nat
  /\ Limit < Cardinality(Ids)
  /\ None \notin Names
  /\ None \notin Uploads

VARIABLES
  native,      \* the capability scene_protocol is "effectV2"
  lock,        \* _scene_lock: the upload that holds it
  task,        \* what each upload is doing
  stored,      \* the bulb's scenes
  playing,     \* the scene the bulb plays
  published,   \* data["scene_handles"]
  reader,      \* the handles a coroutine without the lock has read and will publish
  others,      \* list reads without the lock and changes by the app so far
  writes,      \* how often the bulb has carried out an upload's write
  outcome,     \* how each upload ended
  raced        \* uploads whose knowledge of the bulb the app has outdated by adding

vars == <<native, lock, task, stored, playing, published, reader, others, writes, outcome, raced>>

Occupied == {i \in Ids : stored[i] # None}
Idle == [at |-> "idle", name |-> None, play |-> FALSE, listed |-> {}, left |-> {}, id |-> 0]
At(t, point) == task[t].at = point

Init ==
  /\ native \in BOOLEAN
  /\ lock = None
  /\ task = [t \in Uploads |-> Idle]
  /\ stored \in {s \in [Ids -> Names \cup {None}] :
                   /\ Cardinality({i \in Ids : s[i] # None}) <= Limit
                   /\ \A i, j \in Ids : s[i] = s[j] /\ s[i] # None => i = j}
  /\ playing = None
  /\ published = Occupied
  /\ reader = None
  /\ others = 0
  /\ writes = [t \in Uploads |-> 0]
  /\ outcome = [t \in Uploads |-> "none"]
  /\ raced = {}

-----------------------------------------------------------------------------
(* Decisions of the code that the actions share.                           *)

\* `async with self._scene_lock`
Free_Always == lock \in Uploads \cup {None}
Free == lock = None

Full_OffByOne(ids) == Cardinality(ids) > Limit
Full(ids) == Cardinality(ids) >= Limit

\* _allocate_effect_id refuses a scene without a name and a name in use.
Clashes_Unnamed(t, i) == stored[i] = None
Clashes(t, i) == stored[i] \in {None, task[t].name}

\* The readback agrees with what was written.
Verified_Listed(t) == stored[task[t].id] # None
Verified(t) == stored[task[t].id] = task[t].name

\* "Readback never retries the write": an error of the write ends the upload.
LostWrite_Retried(t) == UNCHANGED <<lock, task, outcome>>
LostWrite_Refused(t) ==
  /\ task' = [task EXCEPT ![t] = Idle]
  /\ outcome' = [outcome EXCEPT ![t] = "refused"]
  /\ lock' = None

End(t, out) ==
  /\ task' = [task EXCEPT ![t] = Idle]
  /\ outcome' = [outcome EXCEPT ![t] = out]
  /\ lock' = None
LostWrite(t) == End(t, "unknown")

Go(t, at) == task' = [task EXCEPT ![t].at = at]

-----------------------------------------------------------------------------
(* An upload. "refused" is an error that says nothing was written.         *)

Begin(t, name, play) ==
  /\ At(t, "idle")
  /\ outcome[t] = "none"
  /\ task' = [task EXCEPT ![t] = [Idle EXCEPT !.at = "lock", !.name = name, !.play = play]]
  /\ UNCHANGED <<native, lock, stored, playing, published, reader, others, writes, outcome, raced>>

\* The native path asks for the supported motions first.
Acquire(t) ==
  /\ At(t, "lock")
  /\ Free
  /\ lock' = t
  /\ Go(t, IF native THEN "motions" ELSE "list")
  /\ UNCHANGED <<native, stored, playing, published, reader, others, writes, outcome, raced>>

\* The bulb lacks the animation, or a call before the write fails.
Refuse(t) ==
  /\ task[t].at \in {"motions", "list", "check"}
  /\ End(t, "refused")
  /\ UNCHANGED <<native, stored, playing, published, reader, others, writes, raced>>

Motions(t) ==
  /\ At(t, "motions")
  /\ Go(t, "list")
  /\ UNCHANGED <<native, lock, stored, playing, published, reader, others, writes, outcome, raced>>

\* A free identifier: the first for the legacy bulb, a random one natively, where
\* every stored name is read before.
Picks(ids) ==
  {i \in Ids \ ids : native \/ \A j \in Ids \ ids : i <= j}
Listed(t) ==
  /\ At(t, "list")
  /\ IF Full(Occupied)
     THEN End(t, "refused")
     ELSE /\ \E i \in Picks(Occupied) :
               task' = [task EXCEPT ![t].at = IF native /\ Occupied # {} THEN "check" ELSE "add",
                                    ![t].listed = Occupied, ![t].left = Occupied, ![t].id = i]
          /\ UNCHANGED <<lock, outcome>>
  /\ raced' = raced \ {t}
  /\ UNCHANGED <<native, stored, playing, published, reader, others, writes>>

CheckName(t) ==
  /\ At(t, "check")
  /\ \E i \in task[t].left :
       IF Clashes(t, i)
       THEN End(t, "refused")
       ELSE /\ task' = [task EXCEPT ![t].left = @ \ {i},
                                    ![t].at = IF task[t].left = {i} THEN "add" ELSE "check"]
            /\ UNCHANGED <<lock, outcome>>
  /\ UNCHANGED <<native, stored, playing, published, reader, others, writes, raced>>

\* The bulb saves under the identifier asked for, whatever it holds, or (legacy)
\* under a free one of its choice; what it saves may not be what was sent. The
\* answer may be lost, or name an identifier that was listed as taken.
Slots(t) == IF native THEN {task[t].id} ELSE Ids \ Occupied
Write(t) ==
  /\ At(t, "add")
  /\ \E i \in Slots(t), n \in Names :
       /\ stored' = [stored EXCEPT ![i] = n]
       /\ writes' = [writes EXCEPT ![t] = @ + 1]
       /\ \/ LostWrite(t)
          \/ /\ i \in task[t].listed
             /\ End(t, "unknown")
          \/ /\ i \notin task[t].listed
             /\ task' = [task EXCEPT ![t].at = "readback", ![t].id = i]
             /\ UNCHANGED <<lock, outcome>>
  /\ UNCHANGED <<native, playing, published, reader, others, raced>>

\* The write never reached the bulb, or the bulb refused it.
WriteFails(t) ==
  /\ At(t, "add")
  /\ End(t, "unknown")
  /\ UNCHANGED <<native, stored, playing, published, reader, others, writes, raced>>

ReadBack(t) ==
  /\ At(t, "readback")
  /\ IF Verified(t)
     THEN Go(t, "relist") /\ UNCHANGED <<lock, outcome>>
     ELSE End(t, "unknown")
  /\ UNCHANGED <<native, stored, playing, published, reader, others, writes, raced>>

\* The new list is published at once; then the upload plays the scene or returns.
Relist(t) ==
  /\ At(t, "relist")
  /\ IF task[t].id \in Occupied /\ (native => task[t].listed \subseteq Occupied)
     THEN /\ published' = Occupied
          /\ IF task[t].play
             THEN Go(t, "play") /\ UNCHANGED <<lock, outcome>>
             ELSE End(t, "ok")
     ELSE End(t, "unknown") /\ UNCHANGED published
  /\ UNCHANGED <<native, stored, playing, reader, others, writes, raced>>

\* A failed call after the write: readback, second list or activation.
LaterFails(t) ==
  /\ task[t].at \in {"readback", "relist", "play"}
  /\ End(t, "unknown")
  /\ UNCHANGED <<native, stored, playing, published, reader, others, writes, raced>>

Play(t) ==
  /\ At(t, "play")
  /\ stored[task[t].id] # None
  /\ playing' = task[t].id
  /\ End(t, "ok")
  /\ UNCHANGED <<native, stored, published, reader, others, writes, raced>>

Cancel(t) ==
  /\ ~At(t, "idle")
  /\ task' = [task EXCEPT ![t] = Idle]
  /\ outcome' = [outcome EXCEPT ![t] = "cancelled"]
  /\ lock' = IF lock = t THEN None ELSE lock
  /\ UNCHANGED <<native, stored, playing, published, reader, others, writes, raced>>

-----------------------------------------------------------------------------
(* Those who take no lock.                                                 *)

Other == others < MaxOthers /\ others' = others + 1

\* async_reload_scenes reads the data, awaits a scene name per handle, and
\* publishes the data it has read with the new names.
BeginReload ==
  /\ Other
  /\ reader = None
  /\ reader' = published
  /\ UNCHANGED <<native, lock, task, stored, playing, published, writes, outcome, raced>>

\* _refresh_static_data does the same with the bulb's list, or with an empty one
\* when it cannot be had.
BeginStatic ==
  /\ Other
  /\ reader = None
  /\ reader' \in {Occupied, {}}
  /\ UNCHANGED <<native, lock, task, stored, playing, published, writes, outcome, raced>>

Publish ==
  /\ reader # None
  /\ published' = reader
  /\ reader' = None
  /\ UNCHANGED <<native, lock, task, stored, playing, others, writes, outcome, raced>>

\* The app, which keeps to the limit and gives no name twice.
AppAdd(i, n) ==
  /\ Other
  /\ stored[i] = None
  /\ Cardinality(Occupied) < Limit
  /\ \A j \in Ids : stored[j] # n
  /\ stored' = [stored EXCEPT ![i] = n]
  /\ raced' = raced \cup {t \in Uploads : ~At(t, "idle")}
  /\ UNCHANGED <<native, lock, task, playing, published, reader, writes, outcome>>

AppDelete(i) ==
  /\ Other
  /\ stored[i] # None
  /\ stored' = [stored EXCEPT ![i] = None]
  /\ playing' = IF playing = i THEN None ELSE playing
  /\ UNCHANGED <<native, lock, task, published, reader, writes, outcome, raced>>

-----------------------------------------------------------------------------

Step(t) ==
  \/ Acquire(t) \/ Refuse(t) \/ Motions(t) \/ Listed(t) \/ CheckName(t)
  \/ Write(t) \/ WriteFails(t) \/ ReadBack(t) \/ Relist(t) \/ LaterFails(t) \/ Play(t)

Next ==
  \/ \E t \in Uploads : \/ Step(t) \/ Cancel(t)
                        \/ \E n \in Names, play \in BOOLEAN : Begin(t, n, play)
  \/ BeginReload \/ BeginStatic \/ Publish
  \/ \E i \in Ids : AppDelete(i) \/ \E n \in Names : AppAdd(i, n)

Spec == Init /\ [][Next]_vars

\* Every service call has a timeout.
FairSpec == Spec /\ \A t \in Uploads : WF_vars(Step(t))

-----------------------------------------------------------------------------
(* Properties.                                                             *)

TypeOK ==
  /\ native \in BOOLEAN
  /\ lock \in Uploads \cup {None}
  /\ task \in [Uploads -> [at : {"idle", "lock", "motions", "list", "check", "add", "readback",
                                 "relist", "play"},
                           name : Names \cup {None}, play : BOOLEAN,
                           listed : SUBSET Ids, left : SUBSET Ids, id : Ids \cup {0}]]
  /\ stored \in [Ids -> Names \cup {None}]
  /\ playing \in Ids \cup {None}
  /\ published \subseteq Ids
  /\ reader = None \/ reader \subseteq Ids
  /\ others \in 0..MaxOthers
  /\ writes \in [Uploads -> 0..1]
  /\ outcome \in [Uploads -> {"none", "ok", "refused", "unknown", "cancelled"}]
  /\ raced \subseteq Uploads
  /\ \A t \in Uploads : task[t].at \notin {"idle", "lock"} => lock = t

\* An upload that is refused has written nothing and may be repeated; one that may
\* have written, even though its caller saw an error, says so ("Upload failed or its
\* outcome is unknown", "upload was not attempted").
RefusedMeansUnwritten ==
  \A t \in Uploads : /\ outcome[t] = "refused" => writes[t] = 0
                     /\ outcome[t] = "ok" => writes[t] = 1

\* "It never deletes or replaces existing scenes" (README.md): of two uploads the
\* second knows what the first has stored, whichever way the first ended; only a
\* scene the app has added in the meantime is at risk.
Wrote(t) == writes'[t] # writes[t]
NeverReplaces ==
  [][\A t \in Uploads : Wrote(t) /\ t \notin raced =>
       \A i \in Occupied : stored'[i] = stored[i]]_vars

\* No upload exceeds the bulb's capacity, however many are called at once
\* (_SCENE_LIMIT).
WithinLimit ==
  [][\A t \in Uploads : Wrote(t) /\ t \notin raced => Cardinality(Occupied') <= Limit]_vars

\* A native upload gives no name twice, for activation goes by name.
NamesUnique ==
  [][\A t \in Uploads, i \in Ids :
       Wrote(t) /\ native /\ t \notin raced /\ i \notin Occupied /\ stored'[i] = task[t].name
       => \A j \in Occupied : stored[j] # stored'[i]]_vars

\* An upload only ever plays the scene it was asked to save: an acknowledgement
\* alone is no proof, and a scene deleted since is not played.
PlaysVerified ==
  [][\A t \in Uploads : At(t, "play") /\ task'[t].at = "idle" /\ outcome'[t] = "ok"
                        /\ t \notin raced
       => stored[playing'] = task[t].name]_vars

\* README.md: an upload "refreshes the stored effect list before returning".
\* Refuted: a reload or a reconnecting poll that began before it publishes an older
\* list while the upload activates its scene.
ReturnsListed ==
  [][\A t \in Uploads : ~At(t, "idle") /\ outcome'[t] = "ok" => task[t].id \in published']_vars
=============================================================================
