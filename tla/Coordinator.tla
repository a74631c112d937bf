---------------------------- MODULE Coordinator ----------------------------
(***************************************************************************)
(* NanoleafLtpduCoordinator of coordinator.py: one poll task, the service  *)
(* calls of Home Assistant and the unloading of the entry share _session,  *)
(* which each of them opens, reauthenticates and closes, and reads again   *)
(* after every await.                                                      *)
(*                                                                         *)
(* An open session is a number, taken again when nobody refers to it; all  *)
(* closed sessions are Closed.  How an exchange on a session ends is left  *)
(* open until the environment is calm: then a session that is not stale    *)
(* answers, a stale one has expired or is broken, and a new one can be     *)
(* had.  close() of a legacy session awaits the shutdown of its CoAP       *)
(* context; that of a v3 session does not, which is the case where nothing *)
(* happens in between.  The connectivity flag and the timestamps of the    *)
(* optional reads are left out: an optional read is due or it is not.      *)
(***************************************************************************)
EXTENDS Naturals, Sequences, FiniteSets

CONSTANTS
  Services,   \* service calls that may be under way at one time
  Poller,     \* the poll task: Home Assistant runs one poll at a time
  Unloader,   \* async_unload_entry
  Threshold,  \* _AUTH_FAILURE_THRESHOLD, 3 in the code
  None,
  Closed

ASSUME CoordinatorAssumption ==
  /\ IsFiniteSet(Services)
  /\ Poller # Unloader
  /\ {Poller, Unloader} \cap Services = {}
  /\ Threshold \in Nat \ {0}
  /\ None # Closed
  /\ {None, Closed} \cap Nat = {}

Tasks == Services \cup {Poller, Unloader}
\* As many numbers as there can be references, and one for the next session.
Sessions == 1..(Cardinality(Services) + 3)

VARIABLES
  session,    \* _session
  stale,      \* when calm: open sessions that have expired or are broken
  calm,       \* the device is up, takes the token and loses no message
  failures,   \* _consecutive_auth_failures
  fetched,    \* the static data was read since the last connection
  settings,   \* _settings_lock: its holder, then those who wait
  task,       \* what each task is doing
  polled,     \* how the last poll ended
  stopped     \* Home Assistant has stopped the polls

vars == <<session, stale, calm, failures, fetched, settings, task, polled, stopped>>

Idle == [at |-> "idle", op |-> "none", sess |-> None, retry |-> FALSE, then |-> "none"]

Init ==
  /\ session = None
  /\ stale = {}
  /\ calm = FALSE
  /\ failures = 0
  /\ fetched = FALSE
  /\ settings = <<>>
  /\ task = [t \in Tasks |-> Idle]
  /\ polled = "none"
  /\ stopped = FALSE

-----------------------------------------------------------------------------
(* Awaits.                                                                 *)

Referenced == {session} \cup {task[t].sess : t \in Tasks}

\* How an exchange on session s may end. close() fails those under way, and any
\* later one, at once.
Results(s) ==
  IF s = Closed \/ (calm /\ s \in stale) THEN {"expired", "error"}
  ELSE IF calm THEN {"ok"} ELSE {"ok", "expired", "error"}

\* Where a task waits for the device.
Exchanging == {"act", "read", "reauth", "info", "thread", "scenes", "light", "scene", "rethread"}

\* The task goes on to its next exchange, on the session that is current now.
Go(t, at) == task' = [task EXCEPT ![t].at = at, ![t].sess = session]

\* asyncio.Lock is first come first served: a free lock is taken without a wait,
\* and `async with` gives it up however the block ends.
LockFree_Always == Len(settings) >= 0
LockFree == settings = <<>>
Leave_Not(t) == settings' = settings
Leave(t) ==
  \/ \E i \in 1..Len(settings) :
       /\ settings[i] = t
       /\ settings' = SubSeq(settings, 1, i - 1) \o SubSeq(settings, i + 1, Len(settings))
  \/ /\ \A i \in 1..Len(settings) : settings[i] # t
     /\ UNCHANGED settings

\* The coroutine of the task ends.
End(t, out) ==
  /\ task' = [task EXCEPT ![t] = Idle]
  /\ polled' = IF t = Poller THEN out ELSE polled
  /\ Leave(t)

\* _safe_close, which closes the session that is current now; then the task ends.
SafeClose(t, out) ==
  IF session = None
  THEN /\ End(t, out)
       /\ UNCHANGED session
  ELSE /\ session' = Closed
       /\ task' = [u \in Tasks |->
                    IF u = t THEN [task[t] EXCEPT !.at = "close", !.sess = None, !.then = out]
                    ELSE IF task[u].sess = session THEN [task[u] EXCEPT !.sess = Closed]
                    ELSE task[u]]
       /\ UNCHANGED polled
       /\ IF t = Poller THEN Leave(t) ELSE UNCHANGED settings

\* The close returns, or raises, which is ignored. _session is cleared after it.
AfterClose_Kept == session
AfterClose == None
CloseEnds(t) ==
  /\ task[t].at = "close"
  /\ session' = AfterClose
  /\ End(t, task[t].then)
  /\ stopped' = (stopped \/ t = Unloader)
  /\ UNCHANGED <<stale, calm, failures, fetched>>

\* connect_session returns a session, which becomes current whatever there is.
\* That takes several round trips: exchanges that have already failed end before.
FreshSession == CHOOSE s \in Sessions : s \notin Referenced
Connect(t, at) ==
  /\ \A u \in Tasks : task[u].at \in Exchanging => task[u].sess # Closed
  /\ session' = FreshSession
  /\ stale' = stale \ {FreshSession}
  /\ fetched' = FALSE
  /\ task' = [task EXCEPT ![t].at = at, ![t].sess = FreshSession]

-----------------------------------------------------------------------------
(* async_service_call, alone ("command") or in _settings_call ("settings"). *)

\* Its first await: opening a session, or the action on the session there is.
Call(r) == [r EXCEPT !.at = IF session = None THEN "open" ELSE "act", !.sess = session]

Begin(t, op) ==
  /\ task[t].at = "idle"
  /\ ~stopped
  /\ LET r == [Idle EXCEPT !.op = op] IN
     IF op = "settings"
     THEN /\ settings' = Append(settings, t)
          /\ task' = [task EXCEPT ![t] = IF LockFree THEN Call(r)
                                         ELSE [r EXCEPT !.at = "lock"]]
     ELSE /\ task' = [task EXCEPT ![t] = Call(r)]
          /\ UNCHANGED settings
  /\ UNCHANGED <<session, stale, calm, failures, fetched, polled, stopped>>

\* The lock is handed to the task that has waited longest.
Acquire_Alone(t) ==
  /\ task[t].at = "lock"
  /\ settings = <<t>>
  /\ task' = [task EXCEPT ![t] = Call(@)]
  /\ UNCHANGED <<session, stale, calm, failures, fetched, settings, polled, stopped>>
Acquire(t) ==
  /\ task[t].at = "lock"
  /\ Head(settings) = t
  /\ task' = [task EXCEPT ![t] = Call(@)]
  /\ UNCHANGED <<session, stale, calm, failures, fetched, settings, polled, stopped>>

ServiceOpen(t) ==
  /\ task[t].at = "open"
  /\ \/ /\ Connect(t, "act")
        /\ UNCHANGED <<settings, polled>>
     \/ /\ ~calm
        /\ End(t, "error")
        /\ UNCHANGED <<session, stale, fetched>>
  /\ UNCHANGED <<calm, failures, stopped>>

\* SessionExpiredError is answered once, by a reauth of the session that is
\* current now; after any other failure the current session is closed.
Recover(t, r, out) ==
  IF r = "expired" /\ ~task[t].retry /\ session # None
  THEN /\ task' = [task EXCEPT ![t].at = "reauth", ![t].sess = session, ![t].retry = TRUE]
       /\ UNCHANGED <<session, settings, polled>>
  ELSE SafeClose(t, out)

\* The action returns its answer; settings are read back on the session that is
\* current now. What the action itself finds wrong (HomeAssistantError) closes
\* nothing the first time.
ServiceAct(t) ==
  /\ task[t].at = "act"
  /\ \/ /\ "ok" \in Results(task[t].sess)
        /\ task[t].op = "command"
        /\ End(t, "ok")
        /\ UNCHANGED session
     \/ /\ "ok" \in Results(task[t].sess)
        /\ task[t].op = "settings"
        /\ IF session = None
           THEN SafeClose(t, "error")
           ELSE /\ Go(t, "read")
                /\ UNCHANGED <<session, settings, polled>>
     \/ /\ ~task[t].retry
        /\ End(t, "error")
        /\ UNCHANGED session
     \/ /\ task[t].retry
        /\ SafeClose(t, "error")
     \/ \E r \in Results(task[t].sess) \ {"ok"} : Recover(t, r, "error")
  /\ UNCHANGED <<stale, calm, failures, fetched, stopped>>

\* _read_settings and its like: an error that leaves the session usable, as its
\* flags tell, only loses a value.
Tolerated(t) == Results(task[t].sess) \cap {"ok", "error"} # {}
ServiceRead(t) ==
  /\ task[t].at = "read"
  /\ \/ /\ Tolerated(t)
        /\ End(t, "ok")
        /\ UNCHANGED session
     \/ \E r \in Results(task[t].sess) \ {"ok"} : Recover(t, r, "error")
  /\ UNCHANGED <<stale, calm, failures, fetched, stopped>>

\* reauth returns, and the work starts over on the session that is current now,
\* or it raises.
Reauth(t, at, out) ==
  /\ task[t].at = "reauth"
  /\ \/ /\ stale' \in {stale, stale \ {task[t].sess}}
        /\ IF session = None
           THEN SafeClose(t, out)
           ELSE /\ Go(t, at)
                /\ UNCHANGED <<session, settings, polled>>
     \/ /\ ~calm \/ task[t].sess = Closed
        /\ SafeClose(t, out)
        /\ UNCHANGED stale
  /\ UNCHANGED <<calm, failures, fetched, stopped>>

\* A service call is cancelled (a restarted script, a client that hangs up). A
\* session it has been talking on is broken then, or its cipher out of step,
\* unless the exchange was still waiting for its turn.
Cancel(t) ==
  /\ task[t].at # "idle"
  /\ End(t, "cancelled")
  /\ \/ UNCHANGED stale
     \/ /\ calm
        /\ task[t].at \in Exchanging
        /\ stale' = stale \cup ({task[t].sess} \cap Sessions)
  /\ UNCHANGED <<session, calm, failures, fetched, stopped>>

-----------------------------------------------------------------------------
(* _async_update_data.                                                     *)

At(point) == task[Poller].at = point
PollResults == Results(task[Poller].sess)

BeginPoll ==
  /\ At("idle")
  /\ ~stopped
  /\ Go(Poller, IF session = None THEN "open" ELSE "light")
  /\ UNCHANGED <<session, stale, calm, failures, fetched, settings, polled, stopped>>

\* A rejected token is counted; an unreachable device neither counts nor resets.
AfterConnect == 0
PollOpen ==
  /\ At("open")
  /\ \/ /\ Connect(Poller, "info")
        /\ failures' = AfterConnect
        /\ UNCHANGED <<settings, polled>>
     \/ /\ ~calm
        /\ End(Poller, "failed")
        /\ UNCHANGED <<session, stale, fetched, failures>>
     \/ /\ ~calm
        /\ failures' = IF failures < Threshold THEN failures + 1 ELSE failures
        /\ End(Poller, IF failures' = Threshold THEN "authfailed" ELSE "failed")
        /\ UNCHANGED <<session, stale, fetched>>
  /\ UNCHANGED <<calm, stopped>>

\* `assert self._session is not None` outside any handler that expects it.
Proceed(at, out) ==
  IF session = None
  THEN End(Poller, out)
  ELSE /\ Go(Poller, at)
       /\ UNCHANGED <<settings, polled>>

\* Within _query every exception leads to _safe_close.
Query(at) ==
  IF session = None
  THEN SafeClose(Poller, "failed")
  ELSE /\ Go(Poller, at)
       /\ UNCHANGED <<session, settings, polled>>

\* _refresh_device_info ignores every failure.
PollInfo ==
  /\ At("info")
  /\ Proceed("thread", "crashed")
  /\ UNCHANGED <<session, stale, calm, failures, fetched, stopped>>

\* The Thread readings of a new connection; the scene list is asked for next,
\* unless there is no session, which is ignored there.
PollThread ==
  /\ At("thread")
  /\ \/ /\ Tolerated(Poller)
        /\ session # None
        /\ Go(Poller, "scenes")
        /\ UNCHANGED <<session, fetched, settings, polled>>
     \/ /\ Tolerated(Poller)
        /\ session = None
        /\ Query("light")
        /\ fetched' = TRUE
     \/ /\ PollResults # {"ok"}
        /\ SafeClose(Poller, "failed")
        /\ UNCHANGED fetched
  /\ UNCHANGED <<stale, calm, failures, stopped>>

\* The scene list and the scene names: every failure is ignored.
PollScenes ==
  /\ At("scenes")
  /\ fetched' = TRUE
  /\ Query("light")
  /\ UNCHANGED <<stale, calm, failures, stopped>>

PollLight ==
  /\ At("light")
  /\ \/ /\ "ok" \in PollResults
        /\ Query("scene")
     \/ \E r \in PollResults \ {"ok"} : Recover(Poller, r, "failed")
  /\ UNCHANGED <<stale, calm, failures, fetched, stopped>>

\* The optional settings read: skipped without a session, or when it is not due.
PollSettings ==
  \/ End(Poller, "ok")
  \/ /\ session # None
     /\ settings' = Append(settings, Poller)
     /\ IF LockFree THEN Go(Poller, "read")
        ELSE task' = [task EXCEPT ![Poller].at = "lock", ![Poller].sess = None]
     /\ UNCHANGED polled

\* The light state is known. A Thread read may be due, then a settings read.
PollScene ==
  /\ At("scene")
  /\ \/ /\ "ok" \in PollResults
        /\ Proceed("rethread", "lost") \/ PollSettings
        /\ UNCHANGED session
     \/ \E r \in PollResults \ {"ok"} : Recover(Poller, r, "failed")
  /\ UNCHANGED <<stale, calm, failures, fetched, stopped>>

PollRethread ==
  /\ At("rethread")
  /\ \/ /\ Tolerated(Poller)
        /\ PollSettings
        /\ UNCHANGED session
     \/ /\ PollResults # {"ok"}
        /\ SafeClose(Poller, "ok")
  /\ UNCHANGED <<stale, calm, failures, fetched, stopped>>

PollAcquire ==
  /\ At("lock")
  /\ Head(settings) = Poller
  /\ Proceed("read", "lost")
  /\ UNCHANGED <<session, stale, calm, failures, fetched, stopped>>

PollRead ==
  /\ At("read")
  /\ \/ /\ Tolerated(Poller)
        /\ End(Poller, "ok")
        /\ UNCHANGED session
     \/ /\ PollResults # {"ok"}
        /\ SafeClose(Poller, "ok")
  /\ UNCHANGED <<stale, calm, failures, fetched, stopped>>

-----------------------------------------------------------------------------

\* async_shutdown: the polls are stopped after the session has been closed.
Unload ==
  /\ task[Unloader].at = "idle"
  /\ ~stopped
  /\ SafeClose(Unloader, "ok")
  /\ stopped' = (session = None)
  /\ UNCHANGED <<stale, calm, failures, fetched>>

\* The device and the network come to rest; sessions may have died before.
BecomeCalm ==
  /\ ~calm
  /\ calm' = TRUE
  /\ stale' \in SUBSET (Referenced \cap Sessions)
  /\ UNCHANGED <<session, failures, fetched, settings, task, polled, stopped>>

ServiceStep(t) ==
  \/ Acquire(t) \/ ServiceOpen(t) \/ ServiceAct(t) \/ ServiceRead(t)
  \/ Reauth(t, "act", "error") \/ CloseEnds(t)

PollStep ==
  \/ PollOpen \/ PollInfo \/ PollThread \/ PollScenes \/ PollLight \/ PollScene
  \/ Reauth(Poller, "light", "failed")
  \/ PollRethread \/ PollAcquire \/ PollRead \/ CloseEnds(Poller)

Next ==
  \/ \E t \in Services : \/ ServiceStep(t) \/ Cancel(t)
                         \/ \E op \in {"command", "settings"} : Begin(t, op)
  \/ BeginPoll
  \/ PollStep
  \/ Unload
  \/ CloseEnds(Unloader)
  \/ BecomeCalm

Spec == Init /\ [][Next]_vars

\* Every await of the code has a timeout, so every task goes on; a connection
\* attempt ends although others wake up before it again and again. Home Assistant
\* schedules the next poll, except after ConfigEntryAuthFailed.
Fairness ==
  /\ \A t \in Services : WF_vars(ServiceStep(t)) /\ SF_vars(ServiceOpen(t))
  /\ WF_vars(PollStep) /\ SF_vars(PollOpen)
  /\ WF_vars(BeginPoll /\ polled # "authfailed")
  /\ WF_vars(CloseEnds(Unloader))
FairSpec == Spec /\ Fairness

-----------------------------------------------------------------------------
(* Properties.                                                             *)

Points == {"idle", "lock", "open", "close"} \cup Exchanging
TaskType == [at : Points, op : {"none", "command", "settings"},
             sess : Sessions \cup {None, Closed}, retry : BOOLEAN,
             then : {"none", "ok", "error", "failed"}]
TypeOK ==
  /\ session \in Sessions \cup {None, Closed}
  /\ stale \subseteq Sessions
  /\ failures \in 0..Threshold
  /\ task \in [Tasks -> TaskType]
  /\ polled \in {"none", "ok", "failed", "authfailed", "crashed", "lost"}
  /\ \A b \in {calm, fetched, stopped} : b \in BOOLEAN
  /\ \A i \in 1..Len(settings) : settings[i] \in Tasks
  /\ \A i, j \in 1..Len(settings) : settings[i] = settings[j] => i = j

\* While one settings action writes and reads back, or the poll reads the settings,
\* no other does: what is published is what was written last. A cancelled or failed
\* action gives the lock up (_settings_call, _refresh_settings).
InSettings(t) ==
  \/ t \in Services /\ task[t].op = "settings" /\ task[t].at \notin {"idle", "lock"}
  \/ t = Poller /\ task[t].at = "read"
SettingsExclusive ==
  /\ \A t, u \in Tasks : InSettings(t) /\ InSettings(u) => t = u
  /\ \A t \in Tasks : InSettings(t) => settings # <<>> /\ Head(settings) = t

\* "Entities recover automatically once the device comes back" (__init__.py):
\* whatever sessions have died and whichever tasks close one another's session,
\* once the environment is calm polls go on to end, and from some point on each
\* succeeds, or the entry asks for a new token. A cancelled call may cost a poll
\* its only retry, so the calls that break a session come to an end too.
NoSessionDies == <>[][stale' \subseteq stale]_vars
PollsRecover ==
  <>[](calm /\ ~stopped) /\ NoSessionDies =>
    /\ <>[](polled \in {"ok", "authfailed"})
    /\ []<>At("idle")

\* A service call returns to its caller: no wait on the settings lock is for ever.
CallsEnd == \A t \in Services : task[t].at # "idle" ~> task[t].at = "idle"

\* The class docstring: "holds one persistent LTPDU session per device". Refuted.
OneSession == Cardinality(Referenced \cap Sessions) <= 1

\* The comment of _async_update_data on a failed optional read: "Keep the
\* successful light state and reconnect on the next poll." Refuted.
KeepsLightState == polled # "lost"

\* README.md: "Device info, scene lists, and motion capabilities are fetched after
\* connecting": a poll that succeeds has them for its connection. Refuted.
StaticDataFetched ==
  [][~At("idle") /\ (At("idle") /\ polled = "ok")' => fetched']_vars
=============================================================================
