----------------------------- MODULE Onboarding -----------------------------
(***************************************************************************)
(* How the integration gets, replaces and gives up a bulb's token:         *)
(* connect_session of session.py, which tries LTPDUv3 before legacy CoAP,  *)
(* the flows of config_flow.py (user, zeroconf, pair, reauth, reconfigure) *)
(* and async_remove_entry of __init__.py.  Flows run beside one another;   *)
(* each await may fail or be cancelled.                                    *)
(*                                                                         *)
(* There is one bulb, and a token is a number with the protocol it was     *)
(* given under.  The bulb may be reset, which voids its tokens and may     *)
(* change the protocols it speaks, but not in the moment between a         *)
(* successful exchange and the end of its flow.  Addresses, names and      *)
(* texts are left out, and so is the choice of an error message.           *)
(***************************************************************************)
EXTENDS Naturals, FiniteSets

CONSTANTS
  Tasks,       \* config flows and removals that may be under way at one time
  MaxTokens,   \* bound: pairings
  MaxEntries,  \* bound: config entries created
  MaxResets    \* bound: resets of the bulb

ASSUME OnboardingAssumption ==
  \A n \in {MaxTokens, MaxEntries, MaxResets} : n \in Nat

Protocols == {"v3", "legacy"}
Tokens == [n : 1..MaxTokens, protocol : Protocols]
NoToken == [n |-> 0, protocol |-> "v3"]

VARIABLES
  task,      \* what each flow is doing
  open,      \* sessions that are not closed: the flow and the protocol
  entries,   \* config entries: number, token, and whether the unique id is known
  created,   \* config entries so far
  outcome,   \* how the last submission of each flow ended
  speaks,    \* protocols the bulb speaks
  accepts,   \* tokens the bulb accepts
  given,     \* tokens so far
  resets     \* resets so far

bulb == <<speaks, accepts, given, resets>>
stored == <<entries, created>>
vars == <<task, open, stored, outcome, bulb>>

Adding == {"pair", "discovered"}  \* flows that create an entry
Idle == [flow |-> "none", at |-> "idle", with |-> "nothing", protocol |-> "v3",
         rejected |-> FALSE, token |-> NoToken, entry |-> 0, known |-> FALSE]
\* A flow waiting for its user. Only one discovered with its eui64 knows the unique id.
Form(flow, entry) == [Idle EXCEPT !.flow = flow, !.at = "form", !.entry = entry,
                                  !.known = flow = "discovered"]
At(t, point) == task[t].at = point
Go(t, at) == task' = [task EXCEPT ![t].at = at]

Init ==
  /\ task = [t \in Tasks |-> Idle]
  /\ open = {}
  /\ entries = {}
  /\ created = 0
  /\ outcome = [t \in Tasks |-> "none"]
  /\ speaks \in (SUBSET Protocols) \ {{}}
  /\ accepts = {}
  /\ given = 0
  /\ resets = 0

-----------------------------------------------------------------------------
(* Decisions of the code that the actions share.                           *)

\* `except asyncio.CancelledError: close; raise`, and the flows' `finally`.
CloseOnCancel_Not(t) == open
CloseOnCancel(t) == {s \in open : s[1] # t}

\* An AuthRejectedError of either protocol makes the whole attempt a rejection;
\* a timeout or a lost connection does not.
Rejects_AnyFailure(t) == TRUE
Rejects(t) == task[t].token \notin accepts \/ task[t].token.protocol # task[t].protocol

\* The token that is stored: the session's, which is the paired one after pairing.
\* connect_session sets it on a legacy session; a v3 session has it.
SessionToken_V3Only(t, new) == IF task[t].protocol = "v3" THEN new ELSE NoToken
SessionToken(t, new) == new

StoredToken_Old(t, e) == e.token
StoredToken(t, e) == task[t].token

\* _abort_if_unique_id_configured
Configured_Never(known) == FALSE
Configured(known) == known /\ \E e \in entries : e.known

\* The flow, or the removal, is over.
Finish(t, out) ==
  /\ task' = [task EXCEPT ![t] = Idle]
  /\ outcome' = [outcome EXCEPT ![t] = out]

\* connect_session has raised, or closing has: a flow shows its form again; a
\* removal goes on without having revoked the token.
Failed(t) ==
  LET out == IF task[t].rejected THEN "rejected" ELSE "failed" IN
  IF task[t].flow = "remove"
  THEN /\ Finish(t, out)
       /\ entries' = {e \in entries : e.n # task[t].entry}
  ELSE /\ task' = [task EXCEPT ![t] = Form(@.flow, @.entry)]
       /\ outcome' = [outcome EXCEPT ![t] = out]
       /\ UNCHANGED entries

\* The next protocol of connect_session's loop, if there is one.
TryNext(t) ==
  IF task[t].protocol = "v3"
  THEN /\ task' = [task EXCEPT ![t].protocol = "legacy", ![t].at = "connect"]
       /\ UNCHANGED <<entries, outcome>>
  ELSE Failed(t)

-----------------------------------------------------------------------------
(* The flows.                                                              *)

\* The user step. Its probe comes first.
BeginUser(t) ==
  /\ At(t, "idle")
  /\ task' = [task EXCEPT ![t] = Form("user", 0)]
  /\ outcome' = [outcome EXCEPT ![t] = "none"]
  /\ UNCHANGED <<open, stored, bulb>>

\* mDNS discovery, with or without the eui64: an entry with this unique id, or
\* without the eui64 one at this address, ends the flow at once; so does a flow
\* under way for this unique id.
BeginZeroconf(t, eui64) ==
  /\ At(t, "idle")
  /\ IF eui64 THEN ~Configured(TRUE) ELSE entries = {}
  /\ eui64 => \A u \in Tasks : task[u].flow # "discovered"
  /\ task' = [task EXCEPT ![t] = Form(IF eui64 THEN "discovered" ELSE "pair", 0)]
  /\ outcome' = [outcome EXCEPT ![t] = "none"]
  /\ UNCHANGED <<open, stored, bulb>>

\* reauth and reconfigure of an entry that is not being removed.
BeginOnEntry(t, flow, e) ==
  /\ At(t, "idle")
  /\ \A u \in Tasks : task[u].entry = e.n => task[u].flow # "remove"
  /\ task' = [task EXCEPT ![t] = Form(flow, e.n)]
  /\ outcome' = [outcome EXCEPT ![t] = "none"]
  /\ UNCHANGED <<open, stored, bulb>>

\* async_remove_entry, of an entry that no flow is on.
BeginRemove(t, e) ==
  /\ At(t, "idle")
  /\ \A u \in Tasks : task[u].entry # e.n
  /\ task' = [task EXCEPT ![t] = [Idle EXCEPT !.flow = "remove", !.at = "connect",
                                              !.with = "token", !.token = e.token,
                                              !.entry = e.n]]
  /\ outcome' = [outcome EXCEPT ![t] = "none"]
  /\ UNCHANGED <<open, stored, bulb>>

\* What the forms ask for: an address, a pairing code, or either that or nothing.
Asks(flow) ==
  CASE flow = "user" -> {"nothing"}
    [] flow \in {"pair", "discovered", "reauth"} -> {"pin"}
    [] flow = "reconfigure" -> {"pin", "token"}

Submit(t, with) ==
  /\ At(t, "form")
  /\ with \in Asks(task[t].flow)
  /\ \E token \in IF with = "token" THEN {e.token : e \in {f \in entries : f.n = task[t].entry}}
                  ELSE {NoToken} :
       task' = [task EXCEPT ![t].at = "connect", ![t].with = with, ![t].protocol = "v3",
                            ![t].rejected = FALSE, ![t].token = token]
  /\ outcome' = [outcome EXCEPT ![t] = "none"]
  /\ UNCHANGED <<open, stored, bulb>>

\* The user closes the form.
GiveUp(t) ==
  /\ At(t, "form")
  /\ Finish(t, "none")
  /\ UNCHANGED <<open, stored, bulb>>

-----------------------------------------------------------------------------
(* connect_session.                                                        *)

\* backend.connect returns its session, which is all the user step wants.
Connected(t) ==
  /\ At(t, "connect")
  /\ task[t].protocol \in speaks
  /\ IF task[t].with = "nothing"
     THEN /\ Go(t, "leave")
          /\ UNCHANGED open
     ELSE /\ Go(t, "credential")
          /\ open' = open \cup {<<t, task[t].protocol>>}
  /\ UNCHANGED <<stored, outcome, bulb>>

\* It raises, having closed what it had opened.
NotConnected(t) ==
  /\ At(t, "connect")
  /\ TryNext(t)
  /\ UNCHANGED <<open, created, bulb>>

\* connect_session returns; the pair step may want to know the unique id.
Return(t, token) ==
  LET next == CASE task[t].flow = "remove" -> "unpair"
                [] task[t].flow = "pair" -> "query"
                [] OTHER -> "leave" IN
  /\ task' = [task EXCEPT ![t].at = next, ![t].token = token]
  /\ open' = IF next = "leave" THEN {s \in open : s[1] # t} ELSE open

\* The failed session is closed before the next protocol is tried.
CloseFailed(t, rejected) ==
  /\ task' = [task EXCEPT ![t].at = "closing", ![t].rejected = @ \/ rejected]
  /\ open' = {s \in open : s[1] # t}

\* The bulb takes the code and gives a token, whose arrival is another matter.
Pair(t) ==
  /\ At(t, "credential")
  /\ task[t].with = "pin"
  /\ given < MaxTokens
  /\ given' = given + 1
  /\ LET token == [n |-> given + 1, protocol |-> task[t].protocol] IN
       /\ accepts' = accepts \cup {token}
       /\ Return(t, SessionToken(t, token)) \/ CloseFailed(t, FALSE)
  /\ UNCHANGED <<stored, outcome, speaks, resets>>

Authenticate(t) ==
  /\ At(t, "credential")
  /\ task[t].with = "token"
  /\ IF Rejects(t) THEN CloseFailed(t, TRUE) ELSE Return(t, task[t].token)
  /\ UNCHANGED <<stored, outcome, bulb>>

\* A refused code, an error or a timeout.
CredentialFails(t) ==
  /\ At(t, "credential")
  /\ CloseFailed(t, FALSE)
  /\ UNCHANGED <<stored, outcome, bulb>>

\* The close has returned or raised, which is ignored.
FailedClosed(t) ==
  /\ At(t, "closing")
  /\ TryNext(t)
  /\ UNCHANGED <<open, created, bulb>>

-----------------------------------------------------------------------------
(* With a session.                                                         *)

\* query_device_info, for an eui64 that mDNS has not given, may fail. The session
\* is closed after it.
Query(t) ==
  /\ At(t, "query")
  /\ \E known \in BOOLEAN : task' = [task EXCEPT ![t].at = "leave", ![t].known = known]
  /\ open' = {s \in open : s[1] # t}
  /\ UNCHANGED <<stored, outcome, bulb>>

\* The bulb forgets the token, or the call fails; the session is closed after it.
Unpair(t) ==
  /\ At(t, "unpair")
  /\ Go(t, "leave")
  /\ open' = {s \in open : s[1] # t}
  /\ accepts' \in {accepts, accepts \ {task[t].token}}
  /\ UNCHANGED <<stored, outcome, speaks, given, resets>>

\* The close returns: the flow goes to its pair step, or stores what it has.
Leave(t) ==
  /\ At(t, "leave")
  /\ CASE task[t].flow = "user" ->
            /\ task' = [task EXCEPT ![t] = Form("pair", 0)]
            /\ UNCHANGED <<outcome, stored>>
       [] task[t].flow = "remove" ->
            /\ Finish(t, "ok")
            /\ entries' = {e \in entries : e.n # task[t].entry}
            /\ UNCHANGED created
       [] task[t].flow \in Adding /\ Configured(task[t].known) ->
            /\ Finish(t, "aborted")
            /\ UNCHANGED stored
       [] task[t].flow \in Adding /\ ~Configured(task[t].known) ->
            /\ created < MaxEntries
            /\ created' = created + 1
            /\ entries' = entries \cup {[n |-> created + 1, token |-> task[t].token,
                                         known |-> task[t].known]}
            /\ Finish(t, "ok")
       [] task[t].flow \in {"reauth", "reconfigure"} ->
            /\ entries' = {IF e.n = task[t].entry
                           THEN [e EXCEPT !.token = StoredToken(t, e)] ELSE e : e \in entries}
            /\ Finish(t, "ok")
            /\ UNCHANGED created
  /\ UNCHANGED <<open, bulb>>

\* The close raises: what the flow has done is taken for a failure.
LeaveFails(t) ==
  /\ At(t, "leave")
  /\ Failed(t)
  /\ UNCHANGED <<open, created, bulb>>

\* Cancelled at any await, the attempt closes its session and is not continued
\* with the other protocol.
Cancel(t) ==
  /\ task[t].at \notin {"idle", "form"}
  /\ Finish(t, "cancelled")
  /\ open' = CloseOnCancel(t)
  /\ UNCHANGED <<stored, bulb>>

-----------------------------------------------------------------------------

\* A factory reset, a firmware upgrade, or removal from the Matter fabric.
Reset ==
  /\ resets < MaxResets
  /\ \A t \in Tasks : task[t].at \notin {"query", "leave"}
  /\ resets' = resets + 1
  /\ accepts' = {}
  /\ speaks' \in (SUBSET Protocols) \ {{}}
  /\ UNCHANGED <<task, open, stored, outcome, given>>

Step(t) ==
  \/ Connected(t) \/ NotConnected(t) \/ Pair(t) \/ Authenticate(t) \/ CredentialFails(t)
  \/ FailedClosed(t) \/ Query(t) \/ Unpair(t) \/ Leave(t) \/ LeaveFails(t)

Next ==
  \/ \E t \in Tasks :
       \/ BeginUser(t)
       \/ \E eui64 \in BOOLEAN : BeginZeroconf(t, eui64)
       \/ \E e \in entries :
            BeginRemove(t, e) \/ \E flow \in {"reauth", "reconfigure"} : BeginOnEntry(t, flow, e)
       \/ \E with \in {"nothing", "pin", "token"} : Submit(t, with)
       \/ GiveUp(t) \/ Step(t) \/ Cancel(t)
  \/ Reset

Spec == Init /\ [][Next]_vars

-----------------------------------------------------------------------------
(* Properties.                                                             *)

Entries == [n : 1..MaxEntries, token : Tokens, known : BOOLEAN]
TypeOK ==
  /\ task \in [Tasks -> [flow : {"none", "user", "pair", "discovered", "reauth",
                                 "reconfigure", "remove"},
                         at : {"idle", "form", "connect", "credential", "closing", "query",
                               "unpair", "leave"},
                         with : {"nothing", "pin", "token"}, protocol : Protocols,
                         rejected : BOOLEAN, token : Tokens \cup {NoToken},
                         entry : 0..MaxEntries, known : BOOLEAN]]
  /\ open \subseteq Tasks \X Protocols
  /\ entries \subseteq Entries
  /\ created \in 0..MaxEntries
  /\ outcome \in [Tasks -> {"none", "ok", "failed", "rejected", "aborted", "cancelled"}]
  /\ speaks \subseteq Protocols
  /\ accepts \subseteq Tokens
  /\ given \in 0..MaxTokens
  /\ resets \in 0..MaxResets

\* Every open session is in the hands of a flow that is using it, under the protocol
\* the flow is at: none outlives a fallback, a failure, a cancellation or the end of
\* its flow (docstring of connect_session).
NothingLeftOpen ==
  \A s \in open : /\ task[s[1]].at \in {"credential", "query", "unpair"}
                  /\ task[s[1]].protocol = s[2]

\* A flow that reports success leaves an entry whose token the bulb accepts,
\* whatever other flows have paired or stored meanwhile.
SuccessMeansUsable ==
  [][\A t \in Tasks :
       /\ At(t, "leave")
       /\ task[t].flow \in Adding \cup {"reauth", "reconfigure"}
       /\ task'[t].at = "idle" /\ outcome'[t] = "ok"
       => \A e \in entries' : e.n = task[t].entry \/ e \notin entries => e.token \in accepts]_vars

\* A bulb has one entry at most, those made while its unique id could not be read
\* apart, although flows for it may pair at the same time.
OneEntry == Cardinality({e \in entries : e.known}) <= 1

\* The entry is asked to pair again only when its token is of no use: a bulb that
\* speaks one protocol and accepts the token is never said to have rejected it,
\* however the network fails.
RejectedMeansInvalid ==
  [][\A t \in Tasks :
       /\ outcome[t] # "rejected" /\ outcome'[t] = "rejected"
       /\ task[t].with = "token"
       /\ Cardinality(speaks) = 1
       => task[t].token \notin accepts \/ task[t].token.protocol \notin speaks]_vars
=============================================================================
