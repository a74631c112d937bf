-------------------------- MODULE Onboarding_proofs --------------------------
(***************************************************************************)
(* Proofs about Onboarding, for any flows and any number of pairings,      *)
(* config entries and resets of the bulb.                                  *)
(***************************************************************************)
EXTENDS Onboarding, FiniteSetTheorems, TLAPS

-----------------------------------------------------------------------------
(* The inductive invariant.                                                *)

OnEntry == {"reauth", "reconfigure"}
Usable == Adding \cup OnEntry

\* What a flow has, by what it is and where it stands.
FlowInv ==
  \A t \in Tasks :
    /\ task[t].flow \in OnEntry \cup {"remove"} => task[t].entry \in 1..created
    /\ task[t].flow \notin OnEntry \cup {"remove"} => task[t].entry = 0
    /\ task[t].at = "idle" <=> task[t].flow = "none"
    /\ task[t].at \notin {"idle", "form"} =>
         IF task[t].flow = "remove" THEN task[t].with = "token"
         ELSE task[t].with \in Asks(task[t].flow)
    /\ task[t].with = "token" \/ task[t].at \in {"query", "leave"} \/ task[t].token = NoToken
    /\ task[t].at = "query" => task[t].flow = "pair"
    /\ task[t].at = "unpair" => task[t].flow = "remove"
    /\ task[t].at \in {"idle", "form"} => task[t].with = "nothing"
    /\ task[t].flow = "remove" => task[t].at # "form"

Held(t) == task[t].token # NoToken

\* A token has one entry at most, and who holds one that others have too is on that entry.
TokenInv ==
  /\ \A e \in entries : e.n <= created /\ e.token.n <= given
  /\ \A a \in accepts : a.n <= given
  /\ \A t \in Tasks : task[t].token.n <= given
  /\ \A e, f \in entries : e.n = f.n \/ e.token = f.token => e = f
  /\ \A t \in Tasks, e \in entries : Held(t) /\ e.token = task[t].token => e.n = task[t].entry
  /\ \A t, u \in Tasks : t # u /\ Held(t) /\ task[t].token = task[u].token =>
       task[t].entry = task[u].entry /\ task[t].entry # 0

\* No flow is on an entry that is being removed.
RemoveInv ==
  \A t, u \in Tasks : t # u /\ task[u].flow = "remove" => task[t].entry # task[u].entry

\* What the bulb has said of the token in a flow's hands is still so.
AcceptInv ==
  \A t \in Tasks :
    /\ task[t].at \in {"query", "leave"} /\ task[t].flow \in Usable => task[t].token \in accepts
    /\ task[t].at = "credential" /\ task[t].with = "token" =>
         task[t].protocol \in speaks \/ task[t].token \notin accepts
    /\ task[t].with = "token" /\ task[t].rejected =>
         task[t].token \notin accepts \/ \E p \in speaks : p # task[t].token.protocol

KnownInv == \A e, f \in entries : e.known /\ f.known => e = f

IInv == TypeOK /\ FlowInv /\ TokenInv /\ RemoveInv /\ AcceptInv /\ KnownInv /\ NothingLeftOpen

-----------------------------------------------------------------------------
(* What the actions do to well-typed states.                               *)

Flows == {"none", "user", "pair", "discovered", "reauth", "reconfigure", "remove"}
Points == {"idle", "form", "connect", "credential", "closing", "query", "unpair", "leave"}
TaskType == [flow : Flows, at : Points, with : {"nothing", "pin", "token"}, protocol : Protocols,
             rejected : BOOLEAN, token : Tokens \cup {NoToken}, entry : 0..MaxEntries,
             known : BOOLEAN]
Outcomes == {"none", "ok", "failed", "rejected", "aborted", "cancelled"}

\* TypeOK with the types by name.
LEMMA Types ==
  TypeOK <=> /\ task \in [Tasks -> TaskType]
             /\ open \subseteq Tasks \X Protocols
             /\ entries \subseteq Entries
             /\ created \in 0..MaxEntries
             /\ outcome \in [Tasks -> Outcomes]
             /\ speaks \subseteq Protocols
             /\ accepts \subseteq Tokens
             /\ given \in 0..MaxTokens
             /\ resets \in 0..MaxResets
  BY DEF TypeOK, TaskType, Flows, Points, Outcomes

\* The fields of a flow are of their types.
LEMMA Typed ==
  ASSUME TypeOK, NEW t \in Tasks
  PROVE  /\ task[t] \in TaskType /\ task[t].flow \in Flows /\ task[t].at \in Points
         /\ task[t].with \in {"nothing", "pin", "token"} /\ task[t].protocol \in Protocols
         /\ task[t].rejected \in BOOLEAN /\ task[t].token \in Tokens \cup {NoToken}
         /\ task[t].entry \in 0..MaxEntries /\ task[t].known \in BOOLEAN
         /\ task[t].entry \in Nat
<1>1. task[t] \in TaskType
  BY Types
<1>2. \A i \in 0..MaxEntries : i \in Nat
  OBVIOUS
<1>. QED
  BY <1>1, <1>2 DEF TaskType

\* Tokens are numbered from 1.
LEMMA TokenTyped ==
  /\ \A k \in Tokens : k.n \in Nat /\ k.n > 0 /\ k.protocol \in Protocols /\ k # NoToken
  /\ NoToken.n = 0 /\ NoToken.protocol \in Protocols
<1>1. ASSUME NEW k \in Tokens
      PROVE  k.n \in Nat /\ k.n > 0 /\ k.protocol \in Protocols /\ k # NoToken
  BY DEF Tokens, NoToken
<1>. QED
  BY <1>1 DEF NoToken, Protocols

\* A flow changes alone.
Alone(t) ==
  /\ task' \in [Tasks -> TaskType]
  /\ \A u \in Tasks : u # t => task'[u] = task[u]
\* What a step that sets one flow makes of the flows.
LEMMA AloneIf ==
  ASSUME TypeOK, NEW t \in Tasks, NEW q \in TaskType, task' = [task EXCEPT ![t] = q]
  PROVE  Alone(t) /\ task'[t] = q
  BY Types DEF Alone

\* A flow is over, or waits for its user.
IsIdle(r) ==
  r.at = "idle" /\ r.flow = "none" /\ r.entry = 0 /\ r.token = NoToken /\ r.with = "nothing"
    /\ ~r.rejected
IsForm(r, flow, e) ==
  r.at = "form" /\ r.flow = flow /\ r.entry = e /\ r.token = NoToken /\ r.with = "nothing"
    /\ ~r.rejected
\* The record of no flow is well typed.
LEMMA IdleRecord == Idle \in TaskType /\ IsIdle(Idle)
  BY OnboardingAssumption
     DEF Idle, IsIdle, TaskType, Flows, Points, Protocols, OnboardingAssumption
\* So is that of a flow that waits for its user,
LEMMA FormRecord ==
  ASSUME NEW flow \in Flows, NEW e \in 0..MaxEntries
  PROVE  Form(flow, e) \in TaskType /\ IsForm(Form(flow, e), flow, e)
<1>. DEFINE q == [Idle EXCEPT !.flow = flow, !.at = "form", !.entry = e,
                              !.known = flow = "discovered"]
<1>1. q \in TaskType /\ IsForm(q, flow, e)
  BY IdleRecord DEF Idle, IsForm, TaskType, Flows, Points, Protocols
<1>. QED
  BY <1>1 DEF Form

\* Where it goes on, a flow keeps what it is, its answer to the form and its token.
Same(t) ==
  /\ task'[t].flow = task[t].flow /\ task'[t].with = task[t].with
  /\ task'[t].token = task[t].token /\ task'[t].entry = task[t].entry
\* that of a flow that goes on to the second protocol,
LEMMA NextProtocolRecord ==
  ASSUME NEW r \in TaskType
  PROVE  LET q == [r EXCEPT !.protocol = "legacy", !.at = "connect"] IN
         /\ q \in TaskType /\ q.at = "connect" /\ q.flow = r.flow /\ q.with = r.with
         /\ q.token = r.token /\ q.entry = r.entry /\ q.protocol = "legacy"
         /\ q.rejected = r.rejected
  BY DEF TaskType, Points, Protocols
\* and that of a removal that begins.
LEMMA RemoveRecord ==
  ASSUME NEW e \in Entries
  PROVE  LET q == [Idle EXCEPT !.flow = "remove", !.at = "connect", !.with = "token",
                               !.token = e.token, !.entry = e.n] IN
         /\ q \in TaskType /\ q.at = "connect" /\ q.flow = "remove" /\ q.with = "token"
         /\ q.token = e.token /\ q.entry = e.n /\ ~q.rejected
<1>1. e.token \in Tokens /\ e.n \in 0..MaxEntries
  BY DEF Entries
<1>. QED
  BY <1>1 DEF Idle, TaskType, Flows, Points, Protocols

-----------------------------------------------------------------------------
(* The shapes of the steps.                                                *)

\* Sessions that are open afterwards are others', or this flow's at its protocol.
Opens(t) ==
  /\ open' \subseteq Tasks \X Protocols
  /\ \A s \in open' : \/ s \in open /\ s[1] # t
                      \/ /\ s[1] = t /\ s[2] = task'[t].protocol
                         /\ task'[t].at \in {"credential", "query", "unpair"}

\* The flow is over or waits for its user; an entry may be gone.
Rests(t) ==
  /\ Alone(t)
  /\ \/ IsIdle(task'[t])
     \/ \E flow \in {"user", "pair", "discovered"} : IsForm(task'[t], flow, 0)
     \/ \E flow \in OnEntry, e \in 1..created :
          /\ IsForm(task'[t], flow, e)
          /\ \A u \in Tasks : u # t /\ task[u].flow = "remove" => task[u].entry # e
  /\ entries' \subseteq entries
  /\ created' = created
  /\ UNCHANGED bulb
  /\ Opens(t)

\* It goes on, and the bulb has given and forgotten nothing.
Goes(t) ==
  /\ Alone(t)
  /\ Same(t)
  /\ task[t].at \notin {"idle", "form"} /\ task'[t].at \notin {"idle", "form"}
  /\ task'[t].at = "query" => task[t].flow = "pair"
  /\ task'[t].at = "unpair" => task[t].flow = "remove"
  /\ \/ task[t].with = "token" \/ task'[t].at = "leave" \/ task[t].token = NoToken
  /\ task'[t].at \in {"query", "leave"} /\ task[t].flow \in Usable => task[t].token \in accepts
  /\ task'[t].at = "credential" => task'[t].protocol \in speaks
  /\ task'[t].rejected => \/ task[t].rejected \/ task[t].with # "token"
                          \/ task[t].token \notin accepts
                          \/ \E p \in speaks : p # task[t].token.protocol
  /\ UNCHANGED <<stored, bulb>>
  /\ Opens(t)

\* It revokes its token, and its entry will go.
Unpairs(t) ==
  /\ Alone(t)
  /\ Same(t)
  /\ task[t].flow = "remove"
  /\ task'[t].at = "leave"
  /\ task'[t].rejected = task[t].rejected
  /\ accepts' \in {accepts, accepts \ {task[t].token}}
  /\ UNCHANGED <<stored, speaks, given, resets>>
  /\ Opens(t)

\* The bulb gives a token, which arrives or is lost.
Gives(t) ==
  /\ given' = given + 1 /\ given' \in 0..MaxTokens
  /\ \E k \in Tokens :
       /\ k.n = given + 1
       /\ accepts' = accepts \cup {k}
       /\ task'[t].token \in {k, NoToken}
       /\ task'[t].token = NoToken => task'[t].at = "closing"
  /\ Alone(t)
  /\ task[t].at = "credential" /\ task[t].with = "pin" /\ task'[t].with = "pin"
  /\ task'[t].flow = task[t].flow /\ task'[t].entry = task[t].entry
  /\ task'[t].at \in {"query", "leave", "closing"}
  /\ task'[t].at = "query" => task[t].flow = "pair"
  /\ task'[t].at = "closing" => task'[t].token = NoToken
  /\ UNCHANGED <<stored, speaks, resets>>
  /\ Opens(t)

\* It takes nothing, or the token of its entry.
Takes(t) ==
  /\ Alone(t)
  /\ \/ /\ task'[t].flow = task[t].flow /\ task'[t].entry = task[t].entry
        /\ task[t].at = "form"
        /\ task'[t].with \in Asks(task[t].flow)
        /\ task'[t].with = "token" \/ task'[t].token = NoToken
     \/ /\ task'[t].flow = "remove" /\ task'[t].entry \in 1..created /\ task'[t].with = "token"
        /\ \A u \in Tasks : task[u].entry # task'[t].entry
  /\ ~task'[t].rejected
  /\ task'[t].at = "connect"
  /\ \/ task'[t].token = NoToken
     \/ \E e \in entries : task'[t].token = e.token /\ e.n = task'[t].entry
  /\ UNCHANGED <<stored, bulb>>
  /\ Opens(t)

\* It ends with an entry of its own, or a new token for its entry.
Adds(t) ==
  /\ Alone(t)
  /\ IsIdle(task'[t])
  /\ task[t].at = "leave" /\ task[t].flow \in Adding
  /\ created' = created + 1 /\ created' \in 0..MaxEntries
  /\ \E e \in Entries :
       /\ e.n = created + 1 /\ e.token = task[t].token
       /\ e.known => \A f \in entries : ~f.known
       /\ entries' = entries \cup {e}
  /\ UNCHANGED bulb
  /\ Opens(t)
Stores(t) ==
  /\ Alone(t)
  /\ IsIdle(task'[t])
  /\ task[t].at = "leave" /\ task[t].flow \in OnEntry
  /\ created' = created
  /\ entries' \subseteq Entries
  /\ \A e \in entries' : \E f \in entries :
       /\ e.n = f.n /\ e.known = f.known
       /\ (e = f /\ f.n # task[t].entry) \/ (e.token = task[t].token /\ f.n = task[t].entry)
       /\ e.n = task[t].entry => e = [f EXCEPT !.token = task[t].token]
  /\ UNCHANGED bulb
  /\ Opens(t)

\* A flow that is not using a session has none.
LEMMA NoSession ==
  ASSUME IInv, NEW t \in Tasks, task[t].at \notin {"credential", "query", "unpair"},
         task' \in [Tasks -> TaskType], open' = open
  PROVE  Opens(t)
  BY Types DEF IInv, NothingLeftOpen, Opens

\* A flow that closes its sessions has none.
LEMMA SessionsClosed ==
  ASSUME IInv, NEW t \in Tasks, open' = {s \in open : s[1] # t}
  PROVE  Opens(t)
  BY Types DEF IInv, Opens

\* A flow that keeps its session keeps its protocol.
LEMMA SessionKept ==
  ASSUME IInv, NEW t \in Tasks, open' = open, task'[t].protocol = task[t].protocol,
         task'[t].at \in {"credential", "query", "unpair"}
  PROVE  Opens(t)
  BY Types DEF IInv, NothingLeftOpen, Opens

\* A flow that ends without an entry rests.
LEMMA IdleRests ==
  ASSUME IInv, NEW t \in Tasks, task' = [task EXCEPT ![t] = Idle], Opens(t), created' = created,
         entries' \subseteq entries, UNCHANGED bulb
  PROVE  Rests(t)
<1>1. Alone(t) /\ task'[t] = Idle
  BY AloneIf, IdleRecord DEF IInv
<1>. QED
  BY <1>1, IdleRecord DEF Rests

\* So does one that shows a form.
LEMMA FormRests ==
  ASSUME IInv, NEW t \in Tasks, NEW flow \in Flows, NEW e \in 0..MaxEntries,
         task' = [task EXCEPT ![t] = Form(flow, e)],
         \/ flow \in {"user", "pair", "discovered"} /\ e = 0
         \/ /\ flow \in OnEntry /\ e \in 1..created
            /\ \A u \in Tasks : u # t /\ task[u].flow = "remove" => task[u].entry # e,
         Opens(t), UNCHANGED <<stored, bulb>>
  PROVE  Rests(t)
<1>1. Alone(t) /\ IsForm(task'[t], flow, e)
  BY AloneIf, FormRecord DEF IInv
<1>. QED
  BY <1>1 DEF Rests, stored

\* The attempt has failed with every protocol.
LEMMA FailedRests ==
  ASSUME IInv, NEW t \in Tasks, task[t].at \in {"connect", "closing", "leave"},
         Failed(t), UNCHANGED <<open, created, bulb>>
  PROVE  Rests(t)
<1>0. Idle \in TaskType
  BY IdleRecord
<1>1. CASE task[t].flow = "remove"
  <2>1. task' = [task EXCEPT ![t] = Idle] /\ entries' \subseteq entries
    BY <1>1 DEF Failed, Finish
  <2>2. Opens(t)
    BY <1>0, <2>1, NoSession, AloneIf DEF IInv, Alone
  <2>. QED
    BY <2>1, <2>2, IdleRests
<1>2. CASE task[t].flow # "remove"
  <2>1. task' = [task EXCEPT ![t] = Form(@.flow, @.entry)] /\ entries' = entries
    BY <1>2 DEF Failed
  <2>2. task' = [task EXCEPT ![t] = Form(task[t].flow, task[t].entry)]
    BY <2>1
  <2>3. task[t].flow \in Flows /\ task[t].entry \in 0..MaxEntries
    BY Typed DEF IInv
  <2>4. Opens(t)
    BY <2>2, <2>3, NoSession, AloneIf, FormRecord DEF IInv, Alone
  <2>5. \/ task[t].flow \in {"user", "pair", "discovered"} /\ task[t].entry = 0
        \/ task[t].flow \in OnEntry /\ task[t].entry \in 1..created
    BY <1>2, <2>3 DEF IInv, FlowInv, Flows, OnEntry
  <2>6. \A u \in Tasks : u # t /\ task[u].flow = "remove" => task[u].entry # task[t].entry
    BY DEF IInv, RemoveInv
  <2>. QED
    BY <2>1, <2>2, <2>3, <2>4, <2>5, <2>6, FormRests DEF stored
<1>. QED
  BY <1>1, <1>2

\* The next protocol is tried, or there is none.
LEMMA TryNextCases ==
  ASSUME IInv, NEW t \in Tasks, task[t].at \in {"connect", "closing"},
         TryNext(t), UNCHANGED <<open, created, bulb>>
  PROVE  Goes(t) \/ Rests(t)
<1>1. CASE task[t].protocol = "v3"
  <2>. DEFINE q == [task[t] EXCEPT !.protocol = "legacy", !.at = "connect"]
  <2>1. task[t] \in TaskType
    BY Typed DEF IInv
  <2>2. /\ q \in TaskType /\ q.at = "connect" /\ q.flow = task[t].flow
        /\ q.with = task[t].with /\ q.token = task[t].token /\ q.entry = task[t].entry
        /\ q.rejected = task[t].rejected
    BY <2>1, NextProtocolRecord
  <2>3. task' = [task EXCEPT ![t] = q] /\ UNCHANGED <<entries, outcome>>
    BY <1>1 DEF TryNext
  <2>. HIDE DEF q
  <2>4. Alone(t) /\ task'[t] = q
    BY <2>2, <2>3, AloneIf DEF IInv
  <2>5. Opens(t)
    BY <2>4, NoSession DEF Alone
  <2>6. task[t].with = "token" \/ task[t].token = NoToken
    BY DEF IInv, FlowInv
  <2>. QED
    BY <2>2, <2>3, <2>4, <2>5, <2>6 DEF Goes, Same, stored
<1>2. CASE task[t].protocol # "v3"
  BY <1>2, FailedRests DEF TryNext
<1>. QED
  BY <1>1, <1>2

\* A flow begins: a form, or a removal with the token of its entry.
LEMMA BeginCases ==
  ASSUME IInv, NEW t \in Tasks,
         \/ BeginUser(t) \/ (\E eui64 \in BOOLEAN : BeginZeroconf(t, eui64))
         \/ (\E e \in entries : \E flow \in {"reauth", "reconfigure"} : BeginOnEntry(t, flow, e))
         \/ (\E e \in entries : BeginRemove(t, e))
  PROVE  Rests(t) \/ Takes(t)
<1>1. TypeOK /\ entries \subseteq Entries
  BY Types DEF IInv
<1>2. \A e \in entries : e.n \in 1..created
  <2>1. ASSUME NEW e \in entries PROVE e.n \in Nat /\ e.n > 0 /\ e.n <= created /\ created \in Nat
    BY <1>1, Types, OnboardingAssumption DEF IInv, TokenInv, Entries, OnboardingAssumption
  <2>. QED
    BY <2>1
<1>3. 0 \in 0..MaxEntries /\ \A n \in 1..created : n \in 0..MaxEntries
  BY <1>1, Types, OnboardingAssumption DEF OnboardingAssumption
<1>4. ASSUME NEW flow \in Flows, NEW e \in 0..MaxEntries, task[t].at = "idle",
             task' = [task EXCEPT ![t] = Form(flow, e)], UNCHANGED <<open, stored, bulb>>,
             \/ flow \in {"user", "pair", "discovered"} /\ e = 0
             \/ /\ flow \in OnEntry /\ e \in 1..created
                /\ \A u \in Tasks : u # t /\ task[u].flow = "remove" => task[u].entry # e
      PROVE  Rests(t)
  <2>1. Alone(t)
    BY <1>1, <1>4, AloneIf, FormRecord
  <2>2. Opens(t)
    BY <1>4, <2>1, NoSession DEF Alone
  <2>. QED
    BY <1>4, <2>2, FormRests
<1>5. CASE BeginUser(t)
  BY <1>3, <1>4, <1>5 DEF BeginUser, At, Flows
<1>6. ASSUME NEW eui64 \in BOOLEAN, BeginZeroconf(t, eui64) PROVE Rests(t)
  <2>1. CASE eui64
    BY <1>3, <1>4, <1>6, <2>1 DEF BeginZeroconf, At, Flows
  <2>2. CASE ~eui64
    BY <1>3, <1>4, <1>6, <2>2 DEF BeginZeroconf, At, Flows
  <2>. QED
    BY <2>1, <2>2
<1>7. ASSUME NEW e \in entries, NEW flow \in OnEntry, BeginOnEntry(t, flow, e) PROVE Rests(t)
  BY <1>2, <1>3, <1>4, <1>7 DEF BeginOnEntry, At, Flows, OnEntry
<1>8. ASSUME NEW e \in entries, BeginRemove(t, e) PROVE Takes(t)
  <2>. DEFINE q == [Idle EXCEPT !.flow = "remove", !.at = "connect", !.with = "token",
                                !.token = e.token, !.entry = e.n]
  <2>1. /\ q \in TaskType /\ q.at = "connect" /\ q.flow = "remove" /\ q.with = "token"
        /\ q.token = e.token /\ q.entry = e.n /\ ~q.rejected
    BY <1>1, RemoveRecord
  <2>2. task' = [task EXCEPT ![t] = q]
    BY <1>8 DEF BeginRemove
  <2>. HIDE DEF q
  <2>3. Alone(t) /\ task'[t] = q
    BY <1>1, <2>1, <2>2, AloneIf
  <2>4. Opens(t)
    BY <1>8, <2>3, NoSession DEF BeginRemove, At, Alone
  <2>. QED
    BY <1>2, <1>8, <2>1, <2>3, <2>4 DEF BeginRemove, Takes
<1>. QED
  BY <1>5, <1>6, <1>7, <1>8 DEF OnEntry

\* A form is submitted or closed.
LEMMA FormCases ==
  ASSUME IInv, NEW t \in Tasks,
         GiveUp(t) \/ \E with \in {"nothing", "pin", "token"} : Submit(t, with)
  PROVE  Rests(t) \/ Takes(t)
<1>1. TypeOK /\ entries \subseteq Entries /\ task[t] \in TaskType
  BY Types, Typed DEF IInv
<1>2. CASE GiveUp(t)
  <2>1. task' = [task EXCEPT ![t] = Idle] /\ task[t].at = "form"
    BY <1>2 DEF GiveUp, Finish, At
  <2>2. Opens(t)
    BY <1>1, <1>2, <2>1, NoSession, AloneIf, IdleRecord DEF GiveUp, Alone
  <2>. QED
    BY <1>2, <2>1, <2>2, IdleRests DEF GiveUp, stored
<1>3. ASSUME NEW with \in {"nothing", "pin", "token"}, Submit(t, with) PROVE Takes(t)
  <2>1. PICK token \in IF with = "token"
                        THEN {e.token : e \in {f \in entries : f.n = task[t].entry}}
                        ELSE {NoToken} :
          task' = [task EXCEPT ![t].at = "connect", ![t].with = with, ![t].protocol = "v3",
                               ![t].rejected = FALSE, ![t].token = token]
    BY <1>3 DEF Submit
  <2>2. /\ token \in Tokens \cup {NoToken}
        /\ with = "token" \/ token = NoToken
        /\ token = NoToken \/ \E e \in entries : token = e.token /\ e.n = task[t].entry
    BY <1>1, <2>1 DEF Entries
  <2>. DEFINE q == [task[t] EXCEPT !.at = "connect", !.with = with, !.protocol = "v3",
                                   !.rejected = FALSE, !.token = token]
  <2>3. /\ q \in TaskType /\ q.at = "connect" /\ q.flow = task[t].flow /\ q.with = with
        /\ q.token = token /\ q.entry = task[t].entry /\ ~q.rejected
    BY <1>1, <2>2 DEF TaskType, Points, Protocols
  <2>4. task' = [task EXCEPT ![t] = q]
    BY <1>1, <2>1, Types
  <2>. HIDE DEF q
  <2>5. Alone(t) /\ task'[t] = q
    BY <1>1, <2>3, <2>4, AloneIf
  <2>6. Opens(t)
    BY <1>3, <2>5, NoSession DEF Submit, At, Alone
  <2>. QED
    BY <1>3, <2>2, <2>3, <2>5, <2>6 DEF Submit, At, Takes
<1>. QED
  BY <1>2, <1>3

\* connect_session goes on, up to the bulb's token.
LEMMA ConnectCases ==
  ASSUME IInv, NEW t \in Tasks,
         \/ Connected(t) \/ NotConnected(t) \/ Pair(t) \/ Authenticate(t)
         \/ CredentialFails(t) \/ FailedClosed(t)
  PROVE  Goes(t) \/ Rests(t) \/ Gives(t)
<1>1. /\ TypeOK /\ task[t] \in TaskType /\ task[t].protocol \in Protocols
      /\ task[t].rejected \in BOOLEAN /\ task[t].token \in Tokens \cup {NoToken}
      /\ task[t].flow \in Flows
  BY Typed DEF IInv
<1>2. task[t].at \in {"connect", "credential"} =>
        /\ task[t].with = "token" \/ task[t].token = NoToken
        /\ task[t].with = "nothing" => task[t].flow = "user"
        /\ task[t].with = "token" => task[t].flow \in {"reconfigure", "remove"}
        /\ task[t].with = "pin" => task[t].flow \in {"pair", "discovered", "reauth", "reconfigure"}
  BY <1>1 DEF IInv, FlowInv, Asks, Flows
<1>3. CASE Connected(t)
  <2>1. PICK at \in {"leave", "credential"} :
          /\ task' = [task EXCEPT ![t].at = at]
          /\ at = "leave" => task[t].with = "nothing" /\ open' = open
          /\ at = "credential" => open' = open \cup {<<t, task[t].protocol>>}
    BY <1>3 DEF Connected, Go
  <2>. DEFINE q == [task[t] EXCEPT !.at = at]
  <2>2. /\ q \in TaskType /\ q.at = at /\ q.flow = task[t].flow /\ q.with = task[t].with
        /\ q.token = task[t].token /\ q.entry = task[t].entry
        /\ q.protocol = task[t].protocol /\ q.rejected = task[t].rejected
    BY <1>1 DEF TaskType, Points
  <2>3. task' = [task EXCEPT ![t] = q]
    BY <1>1, <2>1, Types
  <2>. HIDE DEF q
  <2>4. Alone(t) /\ task'[t] = q
    BY <1>1, <2>2, <2>3, AloneIf
  <2>5. Opens(t)
    <3>1. CASE at = "leave"
      BY <1>3, <2>1, <2>4, <3>1, NoSession DEF Connected, At, Alone
    <3>2. CASE at = "credential"
      <4>1. \A s \in open : s[1] # t
        BY <1>3 DEF Connected, At, IInv, NothingLeftOpen
      <4>2. open \subseteq Tasks \X Protocols
        BY <1>1, Types
      <4>. QED
        BY <1>1, <2>1, <2>2, <2>4, <3>2, <4>1, <4>2 DEF Opens
    <3>. QED
      BY <3>1, <3>2
  <2>. QED
    BY <1>2, <1>3, <2>1, <2>2, <2>4, <2>5 DEF Connected, At, Goes, Same, Usable, OnEntry, Adding
<1>4. CASE NotConnected(t) \/ FailedClosed(t)
  BY <1>4, TryNextCases DEF NotConnected, FailedClosed, At
<1>5. ASSUME NEW rejected \in BOOLEAN, CloseFailed(t, rejected), task[t].at = "credential"
      PROVE  /\ Alone(t) /\ Opens(t) /\ Same(t) /\ task'[t].at = "closing"
             /\ task'[t].rejected <=> (task[t].rejected \/ rejected)
  <2>. DEFINE q == [task[t] EXCEPT !.at = "closing", !.rejected = @ \/ rejected]
  <2>1. /\ q \in TaskType /\ q.at = "closing" /\ q.flow = task[t].flow /\ q.with = task[t].with
        /\ q.token = task[t].token /\ q.entry = task[t].entry
        /\ q.rejected <=> (task[t].rejected \/ rejected)
    BY <1>1 DEF TaskType, Points
  <2>2. task' = [task EXCEPT ![t] = q]
    BY <1>1, <1>5, Types DEF CloseFailed
  <2>. HIDE DEF q
  <2>3. Alone(t) /\ task'[t] = q
    BY <1>1, <2>1, <2>2, AloneIf
  <2>4. Opens(t)
    BY <1>5, SessionsClosed DEF CloseFailed
  <2>. QED
    BY <2>1, <2>3, <2>4 DEF Same
<1>6. ASSUME NEW token \in Tokens \cup {NoToken}, Return(t, token), task[t].at = "credential",
             task[t].with \in {"pin", "token"}
      PROVE  /\ Alone(t) /\ Opens(t) /\ task'[t].token = token
             /\ task'[t].flow = task[t].flow /\ task'[t].entry = task[t].entry
             /\ task'[t].with = task[t].with /\ task'[t].rejected = task[t].rejected
             /\ task'[t].at = CASE task[t].flow = "remove" -> "unpair"
                                [] task[t].flow = "pair" -> "query"
                                [] OTHER -> "leave"
  <2>. DEFINE next == CASE task[t].flow = "remove" -> "unpair"
                        [] task[t].flow = "pair" -> "query"
                        [] OTHER -> "leave"
              q == [task[t] EXCEPT !.at = next, !.token = token]
  <2>1. next \in {"unpair", "query", "leave"}
    OBVIOUS
  <2>2. /\ q \in TaskType /\ q.at = next /\ q.flow = task[t].flow /\ q.with = task[t].with
        /\ q.token = token /\ q.entry = task[t].entry /\ q.protocol = task[t].protocol
        /\ q.rejected = task[t].rejected
    BY <1>1, <2>1 DEF TaskType, Points
  <2>3. /\ task' = [task EXCEPT ![t] = q]
        /\ open' = IF next = "leave" THEN {s \in open : s[1] # t} ELSE open
    BY <1>1, <1>6, Types DEF Return
  <2>. HIDE DEF q, next
  <2>4. Alone(t) /\ task'[t] = q
    BY <1>1, <2>2, <2>3, AloneIf
  <2>5. Opens(t)
    <3>1. CASE next = "leave"
      BY <2>3, <3>1, SessionsClosed
    <3>2. CASE next # "leave"
      BY <2>1, <2>2, <2>3, <2>4, <3>2, SessionKept
    <3>. QED
      BY <3>1, <3>2
  <2>. QED
    BY <2>2, <2>4, <2>5 DEF next
<1>7. CASE Pair(t)
  <2>. DEFINE k == [n |-> given + 1, protocol |-> task[t].protocol]
  <2>1. given + 1 \in 1..MaxTokens /\ given + 1 \in 0..MaxTokens
    BY <1>1, <1>7, Types, OnboardingAssumption DEF Pair, OnboardingAssumption
  <2>2. k \in Tokens /\ k.n = given + 1
    BY <1>1, <2>1 DEF Tokens
  <2>3. /\ given' = given + 1 /\ accepts' = accepts \cup {k}
        /\ Return(t, k) \/ CloseFailed(t, FALSE)
        /\ task[t].at = "credential" /\ task[t].with = "pin"
        /\ UNCHANGED <<stored, speaks, resets>>
    BY <1>7 DEF Pair, SessionToken, At
  <2>. HIDE DEF k
  <2>4. CASE Return(t, k)
    <3>1. /\ Alone(t) /\ Opens(t) /\ task'[t].token = k /\ task'[t].with = "pin"
          /\ task'[t].flow = task[t].flow /\ task'[t].entry = task[t].entry
          /\ task'[t].at \in {"query", "leave"}
          /\ task'[t].at = "query" => task[t].flow = "pair"
      BY <1>2, <1>6, <2>2, <2>3, <2>4
    <3>2. k # NoToken
      BY <2>2, TokenTyped
    <3>. QED
      BY <2>1, <2>2, <2>3, <3>1, <3>2 DEF Gives
  <2>5. CASE CloseFailed(t, FALSE)
    <3>1. /\ Alone(t) /\ Opens(t) /\ task'[t].token = NoToken /\ task'[t].with = "pin"
          /\ task'[t].flow = task[t].flow /\ task'[t].entry = task[t].entry
          /\ task'[t].at = "closing"
      BY <1>2, <1>5, <2>3, <2>5 DEF Same
    <3>. QED
      BY <2>1, <2>2, <2>3, <3>1 DEF Gives
  <2>. QED
    BY <2>3, <2>4, <2>5
<1>8. CASE Authenticate(t)
  <2>1. /\ task[t].at = "credential" /\ task[t].with = "token" /\ UNCHANGED <<stored, bulb>>
        /\ IF Rejects(t) THEN CloseFailed(t, TRUE) ELSE Return(t, task[t].token)
    BY <1>8 DEF Authenticate, At
  <2>2. CASE Rejects(t)
    <3>1. task[t].token \notin accepts \/ \E p \in speaks : p # task[t].token.protocol
      BY <2>1, <2>2 DEF Rejects, IInv, AcceptInv
    <3>2. /\ Alone(t) /\ Opens(t) /\ Same(t) /\ task'[t].at = "closing"
      BY <1>5, <2>1, <2>2
    <3>. QED
      BY <2>1, <3>1, <3>2 DEF Goes
  <2>3. CASE ~Rejects(t)
    <3>1. /\ Alone(t) /\ Opens(t) /\ Same(t) /\ task'[t].rejected = task[t].rejected
          /\ task'[t].at \in {"unpair", "leave"}
          /\ task'[t].at = "unpair" => task[t].flow = "remove"
      BY <1>1, <1>2, <1>6, <2>1, <2>3 DEF Same
    <3>2. task[t].token \in accepts
      BY <2>3 DEF Rejects
    <3>. QED
      BY <2>1, <3>1, <3>2 DEF Goes
  <2>. QED
    BY <2>2, <2>3
<1>9. CASE CredentialFails(t)
  <2>1. /\ task[t].at = "credential" /\ CloseFailed(t, FALSE) /\ UNCHANGED <<stored, bulb>>
    BY <1>9 DEF CredentialFails, At
  <2>2. /\ Alone(t) /\ Opens(t) /\ Same(t) /\ task'[t].at = "closing"
        /\ task'[t].rejected <=> task[t].rejected
    BY <1>5, <2>1
  <2>. QED
    BY <1>2, <2>1, <2>2 DEF Goes
<1>. QED
  BY <1>3, <1>4, <1>7, <1>8, <1>9

\* A flow that has a session uses it, ends or is cancelled.
LEMMA EndCases ==
  ASSUME IInv, NEW t \in Tasks,
         Query(t) \/ Unpair(t) \/ Leave(t) \/ LeaveFails(t) \/ Cancel(t)
  PROVE  Goes(t) \/ Rests(t) \/ Unpairs(t) \/ Adds(t) \/ Stores(t)
<1>1. /\ TypeOK /\ task[t] \in TaskType /\ task[t].token \in Tokens \cup {NoToken}
      /\ task[t].flow \in Flows /\ task[t].known \in BOOLEAN /\ entries \subseteq Entries
  BY Typed, Types DEF IInv
<1>2. Idle \in TaskType /\ IsIdle(Idle)
  BY IdleRecord
<1>3. CASE Query(t)
  <2>1. PICK known \in BOOLEAN : task' = [task EXCEPT ![t].at = "leave", ![t].known = known]
    BY <1>3 DEF Query
  <2>. DEFINE q == [task[t] EXCEPT !.at = "leave", !.known = known]
  <2>2. /\ q \in TaskType /\ q.at = "leave" /\ q.flow = task[t].flow /\ q.with = task[t].with
        /\ q.token = task[t].token /\ q.entry = task[t].entry /\ q.rejected = task[t].rejected
    BY <1>1 DEF TaskType, Points
  <2>3. task' = [task EXCEPT ![t] = q]
    BY <1>1, <2>1, Types
  <2>. HIDE DEF q
  <2>4. Alone(t) /\ task'[t] = q
    BY <1>1, <2>2, <2>3, AloneIf
  <2>5. Opens(t)
    BY <1>3, SessionsClosed DEF Query
  <2>6. task[t].flow \in Usable => task[t].token \in accepts
    BY <1>3 DEF Query, At, IInv, AcceptInv
  <2>. QED
    BY <1>3, <2>2, <2>4, <2>5, <2>6 DEF Query, At, Goes, Same
<1>4. CASE Unpair(t)
  <2>. DEFINE q == [task[t] EXCEPT !.at = "leave"]
  <2>1. /\ q \in TaskType /\ q.at = "leave" /\ q.flow = task[t].flow /\ q.with = task[t].with
        /\ q.token = task[t].token /\ q.entry = task[t].entry /\ q.rejected = task[t].rejected
    BY <1>1 DEF TaskType, Points
  <2>2. task' = [task EXCEPT ![t] = q]
    BY <1>1, <1>4, Types DEF Unpair, Go
  <2>. HIDE DEF q
  <2>3. Alone(t) /\ task'[t] = q
    BY <1>1, <2>1, <2>2, AloneIf
  <2>4. Opens(t)
    BY <1>4, SessionsClosed DEF Unpair
  <2>5. task[t].flow = "remove"
    BY <1>4 DEF Unpair, At, IInv, FlowInv
  <2>. QED
    BY <1>4, <2>1, <2>3, <2>4, <2>5 DEF Unpair, Unpairs, Same
<1>5. CASE LeaveFails(t)
  BY <1>5, FailedRests DEF LeaveFails, At
<1>6. CASE Cancel(t)
  <2>1. task' = [task EXCEPT ![t] = Idle] /\ open' = {s \in open : s[1] # t}
    BY <1>6 DEF Cancel, Finish, CloseOnCancel
  <2>. QED
    BY <1>6, <2>1, IdleRests, SessionsClosed DEF Cancel, stored
<1>7. CASE Leave(t)
  <2>1. task[t].at = "leave" /\ UNCHANGED <<open, bulb>>
    BY <1>7 DEF Leave, At
  <2>2. ASSUME NEW out, Finish(t, out)
        PROVE  Alone(t) /\ task'[t] = Idle /\ task' = [task EXCEPT ![t] = Idle] /\ Opens(t)
    <3>1. task' = [task EXCEPT ![t] = Idle]
      BY <2>2 DEF Finish
    <3>2. Alone(t) /\ task'[t] = Idle
      BY <1>1, <1>2, <3>1, AloneIf
    <3>. QED
      BY <2>1, <3>1, <3>2, NoSession DEF Alone
  <2>3. CASE task[t].flow = "user"
    <3>1. task' = [task EXCEPT ![t] = Form("pair", 0)] /\ UNCHANGED stored
      BY <1>7, <2>3 DEF Leave, Adding
    <3>2. "pair" \in Flows /\ 0 \in 0..MaxEntries
      BY OnboardingAssumption DEF Flows, OnboardingAssumption
    <3>3. Alone(t)
      BY <1>1, <3>1, <3>2, FormRecord, AloneIf
    <3>. QED
      BY <2>1, <3>1, <3>2, <3>3, NoSession, FormRests DEF Alone
  <2>4. CASE task[t].flow = "remove"
    <3>1. Finish(t, "ok") /\ entries' \subseteq entries /\ UNCHANGED created
      BY <1>7, <2>4 DEF Leave, Adding
    <3>. QED
      BY <2>1, <2>2, <3>1, IdleRests
  <2>5. CASE task[t].flow \in Adding /\ Configured(task[t].known)
    <3>1. Finish(t, "aborted") /\ UNCHANGED stored
      BY <1>7, <2>5 DEF Leave, Adding
    <3>. QED
      BY <2>1, <2>2, <3>1, IdleRests DEF stored
  <2>6. CASE task[t].flow \in Adding /\ ~Configured(task[t].known)
    <3>. DEFINE e == [n |-> created + 1, token |-> task[t].token, known |-> task[t].known]
    <3>1. /\ Finish(t, "ok") /\ created < MaxEntries /\ created' = created + 1
          /\ entries' = entries \cup {e}
      BY <1>7, <2>6 DEF Leave, Adding
    <3>2. created + 1 \in 1..MaxEntries /\ created + 1 \in 0..MaxEntries
      BY <1>1, <3>1, Types, OnboardingAssumption DEF OnboardingAssumption
    <3>3. task[t].token \in Tokens
      <4>1. task[t].token \in accepts
        BY <2>1, <2>6 DEF IInv, AcceptInv, Usable
      <4>. QED
        BY <1>1, <4>1, Types
    <3>4. e \in Entries /\ e.n = created + 1 /\ e.token = task[t].token /\ e.known = task[t].known
      BY <1>1, <3>2, <3>3 DEF Entries
    <3>5. task[t].known => \A f \in entries : ~f.known
      BY <2>6 DEF Configured
    <3>. HIDE DEF e
    <3>. QED
      BY <1>2, <2>1, <2>2, <2>6, <3>1, <3>2, <3>4, <3>5 DEF Adds
  <2>7. CASE task[t].flow \in OnEntry
    <3>1. /\ entries' = {IF e.n = task[t].entry
                         THEN [e EXCEPT !.token = StoredToken(t, e)] ELSE e : e \in entries}
          /\ Finish(t, "ok") /\ created' = created
      BY <1>7, <2>7 DEF Leave, Adding, OnEntry
    <3>2. task[t].token \in Tokens
      <4>1. task[t].token \in accepts
        BY <2>1, <2>7 DEF IInv, AcceptInv, Usable
      <4>. QED
        BY <1>1, <4>1, Types
    <3>3. ASSUME NEW f \in entries
          PROVE  LET g == [f EXCEPT !.token = task[t].token] IN
                 g \in Entries /\ g.n = f.n /\ g.known = f.known /\ g.token = task[t].token
      BY <1>1, <3>2 DEF Entries
    <3>4. ASSUME NEW e \in entries'
          PROVE  /\ e \in Entries
                 /\ \E f \in entries :
                      /\ e.n = f.n /\ e.known = f.known
                      /\ \/ e = f /\ f.n # task[t].entry
                         \/ e.token = task[t].token /\ f.n = task[t].entry
                      /\ e.n = task[t].entry => e = [f EXCEPT !.token = task[t].token]
      <4>1. PICK f \in entries :
              e = IF f.n = task[t].entry THEN [f EXCEPT !.token = task[t].token] ELSE f
        BY <3>1 DEF StoredToken
      <4>2. f \in Entries
        BY <1>1
      <4>3. CASE f.n = task[t].entry
        BY <3>3, <4>1, <4>3
      <4>4. CASE f.n # task[t].entry
        BY <4>1, <4>2, <4>4
      <4>. QED
        BY <4>3, <4>4
    <3>5. entries' \subseteq Entries
      BY <3>4
    <3>. QED
      BY <1>2, <2>1, <2>2, <2>7, <3>1, <3>4, <3>5 DEF Stores
  <2>8. task[t].flow # "none"
    BY <2>1 DEF IInv, FlowInv
  <2>. QED
    BY <1>1, <2>3, <2>4, <2>5, <2>6, <2>7, <2>8 DEF Flows, Adding, OnEntry
<1>. QED
  BY <1>3, <1>4, <1>5, <1>6, <1>7

Shape(t) ==
  Rests(t) \/ Goes(t) \/ Unpairs(t) \/ Gives(t) \/ Takes(t) \/ Adds(t) \/ Stores(t)

\* Every step is a flow's, the bulb's reset or none.
LEMMA NextCases ==
  ASSUME IInv, [Next]_vars
  PROVE  (\E t \in Tasks : Shape(t)) \/ Reset \/ UNCHANGED vars
<1>1. ASSUME NEW t \in Tasks, NEW eui64 \in BOOLEAN, BeginUser(t) \/ BeginZeroconf(t, eui64)
      PROVE  Shape(t)
  BY <1>1, BeginCases DEF Shape
<1>2. ASSUME NEW t \in Tasks, NEW e \in entries,
             \/ BeginRemove(t, e)
             \/ \E flow \in {"reauth", "reconfigure"} : BeginOnEntry(t, flow, e)
      PROVE  Shape(t)
  BY <1>2, BeginCases DEF Shape
<1>3. ASSUME NEW t \in Tasks,
             GiveUp(t) \/ \E with \in {"nothing", "pin", "token"} : Submit(t, with)
      PROVE  Shape(t)
  BY <1>3, FormCases DEF Shape
<1>4. ASSUME NEW t \in Tasks, Step(t) \/ Cancel(t) PROVE Shape(t)
  <2>1. CASE \/ Connected(t) \/ NotConnected(t) \/ Pair(t) \/ Authenticate(t)
             \/ CredentialFails(t) \/ FailedClosed(t)
    BY <2>1, ConnectCases DEF Shape
  <2>2. CASE Query(t) \/ Unpair(t) \/ Leave(t) \/ LeaveFails(t) \/ Cancel(t)
    BY <2>2, EndCases DEF Shape
  <2>. QED
    BY <1>4, <2>1, <2>2 DEF Step
<1>. QED
  BY <1>1, <1>2, <1>3, <1>4 DEF Next

-----------------------------------------------------------------------------
(* Each part of the invariant is kept.                                     *)

\* How flows end is told in one of a few words.
LEMMA OutcomeNext == IInv /\ [Next]_vars => outcome' \in [Tasks -> Outcomes]
<1>. SUFFICES ASSUME IInv, [Next]_vars
             PROVE  outcome' \in [Tasks -> Outcomes]
  OBVIOUS
<1>0. TypeOK /\ outcome \in [Tasks -> Outcomes]
  BY Types DEF IInv
<1>1. CASE outcome' = outcome
  BY <1>0, <1>1
<1>2. ASSUME NEW t \in Tasks, NEW out \in Outcomes, outcome' = [outcome EXCEPT ![t] = out]
      PROVE  outcome' \in [Tasks -> Outcomes]
  BY <1>0, <1>2
<1>3. ASSUME NEW t \in Tasks, Failed(t) PROVE outcome' \in [Tasks -> Outcomes]
  BY <1>2, <1>3 DEF Failed, Finish, Outcomes
<1>4. ASSUME NEW t \in Tasks, TryNext(t) PROVE outcome' \in [Tasks -> Outcomes]
  BY <1>1, <1>3, <1>4 DEF TryNext
<1>5. ASSUME NEW t \in Tasks, Leave(t) PROVE outcome' \in [Tasks -> Outcomes]
  <2>1. outcome' = outcome \/ \E out \in Outcomes : outcome' = [outcome EXCEPT ![t] = out]
    <3>1. task[t].flow \in Flows \ {"none"}
      BY <1>0, <1>5, Typed DEF Leave, At, IInv, FlowInv
    <3>2. CASE task[t].flow \in {"user", "remove"}
      BY <1>5, <3>2 DEF Leave, Finish, Outcomes, Adding
    <3>3. CASE task[t].flow \in Adding
      BY <1>5, <3>3 DEF Leave, Finish, Outcomes, Adding
    <3>4. CASE task[t].flow \in OnEntry
      BY <1>5, <3>4 DEF Leave, Finish, Outcomes, Adding, OnEntry
    <3>. QED
      BY <3>1, <3>2, <3>3, <3>4 DEF Flows, Adding, OnEntry
  <2>. QED
    BY <1>1, <1>2, <2>1
<1>6. ASSUME NEW t \in Tasks, Step(t) PROVE outcome' \in [Tasks -> Outcomes]
  BY <1>1, <1>3, <1>4, <1>5, <1>6
     DEF Step, Connected, NotConnected, Pair, Authenticate, CredentialFails, FailedClosed,
         Query, Unpair, LeaveFails
<1>7. ASSUME NEW t \in Tasks,
             \/ BeginUser(t) \/ (\E eui64 \in BOOLEAN : BeginZeroconf(t, eui64))
             \/ (\E e \in entries : BeginRemove(t, e))
             \/ (\E e \in entries : \E flow \in OnEntry : BeginOnEntry(t, flow, e))
             \/ (\E with \in {"nothing", "pin", "token"} : Submit(t, with))
             \/ GiveUp(t) \/ Cancel(t)
      PROVE  outcome' \in [Tasks -> Outcomes]
  <2>1. \E out \in Outcomes : outcome' = [outcome EXCEPT ![t] = out]
    BY <1>7 DEF BeginUser, BeginZeroconf, BeginRemove, BeginOnEntry, Submit, GiveUp, Cancel,
                Finish, Outcomes
  <2>. QED
    BY <1>2, <2>1
<1>. QED
  BY <1>1, <1>6, <1>7 DEF Next, Reset, vars, OnEntry

\* Every step keeps the types.
LEMMA TypeNext == IInv /\ [Next]_vars => TypeOK'
<1>. SUFFICES ASSUME IInv, [Next]_vars
             PROVE  TypeOK'
  OBVIOUS
<1>0. TypeOK /\ outcome' \in [Tasks -> Outcomes]
  BY OutcomeNext DEF IInv
<1>a. ASSUME task' \in [Tasks -> TaskType], open' \subseteq Tasks \X Protocols,
             entries' \subseteq Entries, created' \in 0..MaxEntries, speaks' \subseteq Protocols,
             accepts' \subseteq Tokens, given' \in 0..MaxTokens, resets' \in 0..MaxResets
      PROVE  TypeOK'
  BY <1>0, <1>a DEF TypeOK, TaskType, Flows, Points, Outcomes
<1>1. ASSUME NEW t \in Tasks, Shape(t) PROVE TypeOK'
  <2>1. task' \in [Tasks -> TaskType] /\ open' \subseteq Tasks \X Protocols
    BY <1>1 DEF Shape, Rests, Goes, Unpairs, Gives, Takes, Adds, Stores, Alone, Opens
  <2>2. entries' \subseteq Entries /\ created' \in 0..MaxEntries
    <3>0. entries \subseteq Entries /\ created \in 0..MaxEntries
      BY <1>0, Types
    <3>1. CASE Adds(t)
      BY <3>0, <3>1 DEF Adds
    <3>2. CASE Stores(t)
      BY <3>0, <3>2 DEF Stores
    <3>. QED
      BY <1>1, <3>0, <3>1, <3>2 DEF Shape, Rests, Goes, Unpairs, Gives, Takes, stored
  <2>3. /\ speaks' \subseteq Protocols /\ accepts' \subseteq Tokens
        /\ given' \in 0..MaxTokens /\ resets' \in 0..MaxResets
    <3>0. /\ speaks \subseteq Protocols /\ accepts \subseteq Tokens
          /\ given \in 0..MaxTokens /\ resets \in 0..MaxResets
      BY <1>0, Types
    <3>1. CASE Gives(t)
      BY <3>0, <3>1 DEF Gives
    <3>2. CASE Unpairs(t)
      BY <3>0, <3>2 DEF Unpairs
    <3>. QED
      BY <1>1, <3>0, <3>1, <3>2 DEF Shape, Rests, Goes, Takes, Adds, Stores, bulb
  <2>. QED
    BY <1>a, <2>1, <2>2, <2>3
<1>2. CASE Reset
  <2>1. resets + 1 \in 0..MaxResets
    BY <1>0, <1>2, Types, OnboardingAssumption DEF Reset, OnboardingAssumption
  <2>. QED
    BY <1>0, <1>2, <1>a, <2>1, Types DEF Reset, stored
<1>3. CASE UNCHANGED vars
  BY <1>0, <1>3, <1>a, Types DEF vars, stored, bulb
<1>. QED
  BY <1>1, <1>2, <1>3, NextCases

\* Every step keeps FlowInv.
LEMMA FlowNext == IInv /\ [Next]_vars => FlowInv'
<1>. SUFFICES ASSUME IInv, [Next]_vars
             PROVE  FlowInv'
  OBVIOUS
<1>. DEFINE FlowOf(t) ==
    /\ task[t].flow \in OnEntry \cup {"remove"} => task[t].entry \in 1..created
    /\ task[t].flow \notin OnEntry \cup {"remove"} => task[t].entry = 0
    /\ task[t].at = "idle" <=> task[t].flow = "none"
    /\ task[t].at \notin {"idle", "form"} =>
         IF task[t].flow = "remove" THEN task[t].with = "token"
         ELSE task[t].with \in Asks(task[t].flow)
    /\ task[t].with = "token" \/ task[t].at \in {"query", "leave"} \/ task[t].token = NoToken
    /\ task[t].at = "query" => task[t].flow = "pair"
    /\ task[t].at = "unpair" => task[t].flow = "remove"
    /\ task[t].at \in {"idle", "form"} => task[t].with = "nothing"
    /\ task[t].flow = "remove" => task[t].at # "form"
<1>0. /\ TypeOK /\ created \in Nat /\ \A u \in Tasks : FlowOf(u)
  BY Types, OnboardingAssumption DEF IInv, FlowInv, OnboardingAssumption
<1>a. FlowInv' <=> \A u \in Tasks : FlowOf(u)'
  BY DEF FlowInv
<1>1. ASSUME NEW t \in Tasks, Shape(t) PROVE FlowInv'
  <2>1. created' \in {created, created + 1}
    BY <1>1 DEF Shape, Rests, Goes, Unpairs, Gives, Takes, Adds, Stores, stored
  <2>2. \A n \in 1..created : n \in 1..created'
    BY <1>0, <2>1
  <2>3. \A u \in Tasks : u # t => task'[u] = task[u]
    BY <1>1 DEF Shape, Rests, Goes, Unpairs, Gives, Takes, Adds, Stores, Alone
  <2>4. ASSUME NEW u \in Tasks, u # t PROVE FlowOf(u)'
    <3>1. FlowOf(u) /\ task'[u] = task[u]
      BY <1>0, <2>3, <2>4
    <3>. QED
      BY <2>2, <3>1
  <2>5. FlowOf(t)'
    <3>1. FlowOf(t)
      BY <1>0
    <3>2. CASE IsIdle(task'[t])
      BY <3>2 DEF IsIdle, OnEntry
    <3>3. CASE Rests(t)
      BY <2>2, <3>2, <3>3 DEF Rests, IsForm, OnEntry
    <3>4. CASE Goes(t)
      BY <2>2, <3>1, <3>4 DEF Goes, Same
    <3>5. CASE Unpairs(t)
      BY <2>2, <3>1, <3>5 DEF Unpairs, Same
    <3>6. CASE Gives(t)
      <4>1. /\ created' = created
            /\ task[t].with \in Asks(task[t].flow) /\ task[t].flow # "remove"
            /\ task[t].flow # "none"
        BY <3>1, <3>6 DEF Gives, stored
      <4>2. /\ task'[t].flow = task[t].flow /\ task'[t].entry = task[t].entry
            /\ task'[t].with = task[t].with
            /\ task'[t].at \in {"query", "leave", "closing"}
            /\ task'[t].at = "query" => task[t].flow = "pair"
            /\ task'[t].at = "closing" => task'[t].token = NoToken
        BY <3>1, <3>6 DEF Gives
      <4>. QED
        BY <3>1, <4>1, <4>2
    <3>7. CASE Takes(t)
      <4>1. created' = created
        BY <3>7 DEF Takes, stored
      <4>2. CASE task'[t].flow = "remove"
        BY <3>1, <3>7, <4>1, <4>2 DEF Takes, OnEntry
      <4>3. CASE task'[t].flow # "remove"
        BY <3>1, <3>7, <4>1, <4>3 DEF Takes, OnEntry
      <4>. QED
        BY <4>2, <4>3
    <3>. QED
      BY <1>1, <3>2, <3>3, <3>4, <3>5, <3>6, <3>7 DEF Shape, Adds, Stores
  <2>. QED
    BY <1>a, <2>4, <2>5
<1>2. CASE Reset \/ UNCHANGED vars
  BY <1>0, <1>2, <1>a DEF Reset, vars, stored
<1>. QED
  BY <1>1, <1>2, NextCases

\* Every step keeps TokenInv: a token comes from the bulb, which has not given it
\* before, or from the entry a flow is on.
LEMMA TokenNext == IInv /\ [Next]_vars => TokenInv'
<1>. SUFFICES ASSUME IInv, [Next]_vars
             PROVE  TokenInv'
  OBVIOUS
<1>0. /\ TypeOK /\ TokenInv /\ given \in Nat /\ created \in Nat /\ NoToken.n = 0
      /\ \A u \in Tasks : task[u].token.n \in Nat /\ task[u].entry \in Nat
      /\ \A e \in entries : e.n \in Nat /\ e.n # 0 /\ e.token.n \in Nat /\ e.token # NoToken
      /\ \A a \in accepts : a.n \in Nat
  <2>1. TypeOK /\ TokenInv /\ given \in Nat /\ created \in Nat
    BY Types, OnboardingAssumption DEF IInv, OnboardingAssumption
  <2>2. \A u \in Tasks : task[u].token.n \in Nat /\ task[u].entry \in Nat
    BY <2>1, Typed, TokenTyped
  <2>3. \A e \in entries : e.n \in Nat /\ e.n # 0 /\ e.token \in Tokens
    BY <2>1, Types, OnboardingAssumption DEF Entries, OnboardingAssumption
  <2>. QED
    BY <2>1, <2>2, <2>3, Types, TokenTyped
<1>1. ASSUME NEW t \in Tasks, Alone(t), entries' \subseteq entries, created' = created,
             given' = given, accepts' \subseteq accepts,
             \/ task'[t].token = NoToken
             \/ task'[t].token = task[t].token /\ task'[t].entry = task[t].entry
      PROVE  TokenInv'
  <2>1. \A u \in Tasks :
          \/ task'[u].token = NoToken
          \/ task'[u].token = task[u].token /\ task'[u].entry = task[u].entry
    BY <1>1 DEF Alone
  <2>. QED
    BY <1>0, <1>1, <2>1 DEF TokenInv, Held
<1>2. ASSUME NEW t \in Tasks, Takes(t) PROVE TokenInv'
  <2>1. CASE task'[t].token = NoToken
    BY <1>1, <1>2, <2>1 DEF Takes, stored, bulb
  <2>2. ASSUME NEW e \in entries, task'[t].token = e.token, e.n = task'[t].entry PROVE TokenInv'
    <3>1. UNCHANGED <<entries, created, given, accepts>>
      BY <1>2 DEF Takes, stored, bulb
    <3>2. \A u \in Tasks : u # t => task'[u] = task[u]
      BY <1>2 DEF Takes, Alone
    <3>3. \A f \in entries : f.token = task'[t].token => f.n = task'[t].entry
      BY <1>0, <2>2 DEF TokenInv
    <3>4. \A u \in Tasks : u # t /\ task'[t].token = task[u].token =>
            task[u].entry = task'[t].entry /\ task[u].entry # 0
      BY <1>0, <2>2 DEF TokenInv, Held
    <3>5. task'[t].token.n <= given
      BY <1>0, <2>2 DEF TokenInv
    <3>. QED
      BY <1>0, <3>1, <3>2, <3>3, <3>4, <3>5 DEF TokenInv, Held
  <2>. QED
    BY <1>2, <2>1, <2>2 DEF Takes
<1>3. ASSUME NEW t \in Tasks, Gives(t) PROVE TokenInv'
  <2>1. PICK k \in Tokens :
          /\ k.n = given + 1 /\ accepts' = accepts \cup {k}
          /\ task'[t].token \in {k, NoToken}
    BY <1>3 DEF Gives
  <2>2. UNCHANGED <<entries, created>> /\ given' = given + 1 /\ k.n = given'
    BY <1>3, <2>1 DEF Gives, stored
  <2>3. \A u \in Tasks : u # t => task'[u] = task[u]
    BY <1>3 DEF Gives, Alone
  <2>4. /\ \A u \in Tasks : task[u].token.n <= given' /\ task[u].token # k
        /\ \A e \in entries : e.token.n <= given' /\ e.token # k
        /\ \A a \in accepts' : a.n <= given'
    BY <1>0, <2>1, <2>2 DEF TokenInv
  <2>5. \A u \in Tasks : task'[u].token.n <= given'
    BY <1>0, <2>1, <2>2, <2>3, <2>4
  <2>6. \A u, v \in Tasks : u # v /\ Held(u)' /\ task'[u].token = task'[v].token =>
          task'[u].entry = task'[v].entry /\ task'[u].entry # 0
    BY <1>0, <2>1, <2>3, <2>4 DEF TokenInv, Held
  <2>7. \A u \in Tasks, e \in entries : Held(u)' /\ e.token = task'[u].token =>
          e.n = task'[u].entry
    BY <1>0, <2>1, <2>3, <2>4 DEF TokenInv, Held
  <2>. QED
    BY <1>0, <2>2, <2>4, <2>5, <2>6, <2>7 DEF TokenInv
<1>4. ASSUME NEW t \in Tasks, Adds(t) PROVE TokenInv'
  <2>1. PICK e \in Entries :
          /\ e.n = created + 1 /\ e.token = task[t].token
          /\ entries' = entries \cup {e}
    BY <1>4 DEF Adds
  <2>2. /\ created' = created + 1 /\ UNCHANGED <<accepts, given>> /\ task'[t].token = NoToken
        /\ \A u \in Tasks : u # t => task'[u] = task[u]
    BY <1>4 DEF Adds, bulb, Alone, IsIdle
  <2>3. task[t].entry = 0 /\ Held(t)
    <3>1. e.token \in Tokens
      BY DEF Entries
    <3>. QED
      BY <1>4, <2>1, <3>1, TokenTyped DEF Adds, IInv, FlowInv, Held, Adding, OnEntry
  <2>4. \A f \in entries : f.n # e.n /\ f.token # e.token /\ f.n <= created'
    BY <1>0, <2>1, <2>2, <2>3 DEF TokenInv
  <2>5. \A u \in Tasks : u # t => task[u].token # e.token
    BY <1>0, <2>1, <2>3 DEF TokenInv
  <2>6. e.n <= created' /\ e.token.n <= given
    BY <1>0, <2>1, <2>2 DEF TokenInv
  <2>. QED
    BY <1>0, <2>1, <2>2, <2>4, <2>5, <2>6 DEF TokenInv, Held
<1>5. ASSUME NEW t \in Tasks, Stores(t) PROVE TokenInv'
  <2>1. /\ created' = created /\ UNCHANGED <<accepts, given>> /\ task'[t].token = NoToken
        /\ \A u \in Tasks : u # t => task'[u] = task[u]
    BY <1>5 DEF Stores, bulb, Alone, IsIdle
  <2>2. \A e \in entries' : \E f \in entries :
          /\ e.n = f.n
          /\ (e = f /\ f.n # task[t].entry) \/ (e.token = task[t].token /\ f.n = task[t].entry)
          /\ e.n = task[t].entry => e = [f EXCEPT !.token = task[t].token]
    BY <1>5 DEF Stores
  <2>3. Held(t) /\ task[t].entry # 0
    <3>1. task[t].token \in accepts
      BY <1>5 DEF Stores, IInv, AcceptInv, Usable
    <3>2. task[t].entry \in 1..created
      BY <1>5 DEF Stores, IInv, FlowInv
    <3>. QED
      BY <1>0, <3>1, <3>2, Types, TokenTyped DEF Held
  <2>4. \A e \in entries' : e.n <= created' /\ e.token.n <= given'
    BY <1>0, <2>1, <2>2 DEF TokenInv
  <2>5. \A e \in entries' : e.token = task[t].token => e.n = task[t].entry
    BY <1>0, <2>2, <2>3 DEF TokenInv
  <2>6. ASSUME NEW e \in entries', NEW f \in entries', e.n = f.n \/ e.token = f.token
        PROVE  e = f
    <3>1. PICK i \in entries :
            /\ e.n = i.n
            /\ (e = i /\ i.n # task[t].entry) \/ (e.token = task[t].token /\ i.n = task[t].entry)
            /\ e.n = task[t].entry => e = [i EXCEPT !.token = task[t].token]
      BY <2>2
    <3>2. PICK j \in entries :
            /\ f.n = j.n
            /\ (f = j /\ j.n # task[t].entry) \/ (f.token = task[t].token /\ j.n = task[t].entry)
            /\ f.n = task[t].entry => f = [j EXCEPT !.token = task[t].token]
      BY <2>2
    <3>3. CASE e.n = task[t].entry
      <4>1. f.n = task[t].entry
        BY <2>5, <2>6, <3>1, <3>3
      <4>2. i = j
        <5>1. i.n = j.n
          BY <3>1, <3>2, <3>3, <4>1
        <5>2. \A a, b \in entries : a.n = b.n => a = b
          BY <1>0 DEF TokenInv
        <5>. QED
          BY <5>1, <5>2
      <4>. QED
        BY <3>1, <3>2, <3>3, <4>1, <4>2
    <3>4. CASE e.n # task[t].entry
      <4>1. f.n # task[t].entry
        BY <2>5, <2>6, <3>2, <3>4
      <4>. QED
        BY <1>0, <2>6, <3>1, <3>2, <3>4, <4>1 DEF TokenInv
    <3>. QED
      BY <3>3, <3>4
  <2>7. \A u \in Tasks, e \in entries' : u # t /\ Held(u) /\ e.token = task[u].token =>
          e.n = task[u].entry
    BY <1>0, <2>2, <2>3, <2>5 DEF TokenInv, Held
  <2>. QED
    BY <1>0, <2>1, <2>4, <2>6, <2>7 DEF TokenInv, Held
<1>6. CASE Reset \/ UNCHANGED vars
  BY <1>0, <1>6 DEF Reset, vars, stored, bulb, TokenInv, Held
<1>7. ASSUME NEW t \in Tasks, Rests(t) PROVE TokenInv'
  BY <1>1, <1>7 DEF Rests, IsIdle, IsForm, bulb
<1>8. ASSUME NEW t \in Tasks, Goes(t) \/ Unpairs(t) PROVE TokenInv'
  BY <1>1, <1>8 DEF Goes, Unpairs, Same, stored, bulb
<1>. QED
  BY <1>2, <1>3, <1>4, <1>5, <1>6, <1>7, <1>8, NextCases DEF Shape

\* Every step keeps RemoveInv: a removal begins when no flow is on the entry, and
\* none begins on it until the removal is over.
LEMMA RemoveNext == IInv /\ [Next]_vars => RemoveInv'
<1>. SUFFICES ASSUME IInv, [Next]_vars
             PROVE  RemoveInv'
  OBVIOUS
<1>0. /\ RemoveInv /\ created \in Nat
      /\ \A u \in Tasks : task[u].flow = "remove" => task[u].entry \in 1..created
  BY Types, OnboardingAssumption DEF IInv, FlowInv, OnboardingAssumption
<1>1. ASSUME NEW t \in Tasks, Alone(t), task'[t].flow = task[t].flow,
             task'[t].entry = task[t].entry
      PROVE  RemoveInv'
  BY <1>0, <1>1 DEF RemoveInv, Alone
<1>2. ASSUME NEW t \in Tasks, Alone(t), task'[t].flow # "remove",
             \A u \in Tasks : u # t /\ task[u].flow = "remove" => task[u].entry # task'[t].entry
      PROVE  RemoveInv'
  BY <1>0, <1>2 DEF RemoveInv, Alone
<1>3. ASSUME NEW t \in Tasks, Rests(t) PROVE RemoveInv'
  BY <1>0, <1>2, <1>3 DEF Rests, IsIdle, IsForm, OnEntry
<1>4. ASSUME NEW t \in Tasks, Goes(t) \/ Unpairs(t) \/ Gives(t) PROVE RemoveInv'
  BY <1>1, <1>4 DEF Goes, Unpairs, Gives, Same
<1>5. ASSUME NEW t \in Tasks, Takes(t) PROVE RemoveInv'
  <2>1. CASE task'[t].flow = task[t].flow /\ task'[t].entry = task[t].entry
    BY <1>1, <1>5, <2>1 DEF Takes
  <2>2. CASE \A u \in Tasks : task[u].entry # task'[t].entry
    BY <1>0, <1>5, <2>2 DEF Takes, RemoveInv, Alone
  <2>. QED
    BY <1>5, <2>1, <2>2 DEF Takes
<1>6. ASSUME NEW t \in Tasks, Adds(t) \/ Stores(t) PROVE RemoveInv'
  BY <1>0, <1>2, <1>6 DEF Adds, Stores, IsIdle
<1>7. CASE Reset \/ UNCHANGED vars
  BY <1>0, <1>7 DEF Reset, vars, RemoveInv
<1>. QED
  BY <1>3, <1>4, <1>5, <1>6, <1>7, NextCases DEF Shape

\* Every step keeps AcceptInv: no other flow revokes the token that a flow is about
\* to store, and a token that is void stays so.
LEMMA AcceptNext == IInv /\ [Next]_vars => AcceptInv'
<1>. SUFFICES ASSUME IInv, [Next]_vars
             PROVE  AcceptInv'
  OBVIOUS
<1>. DEFINE AcceptOf(t) ==
    /\ task[t].at \in {"query", "leave"} /\ task[t].flow \in Usable => task[t].token \in accepts
    /\ task[t].at = "credential" /\ task[t].with = "token" =>
         task[t].protocol \in speaks \/ task[t].token \notin accepts
    /\ task[t].with = "token" /\ task[t].rejected =>
         task[t].token \notin accepts \/ \E p \in speaks : p # task[t].token.protocol
<1>0. TypeOK /\ given \in Nat /\ \A u \in Tasks : AcceptOf(u)
  BY Types, OnboardingAssumption DEF IInv, AcceptInv, OnboardingAssumption
<1>a. AcceptInv' <=> \A u \in Tasks : AcceptOf(u)'
  BY DEF AcceptInv
<1>b. ASSUME NEW t \in Tasks, Alone(t), UNCHANGED <<accepts, speaks>>, AcceptOf(t)'
      PROVE  AcceptInv'
  <2>1. ASSUME NEW u \in Tasks, u # t PROVE AcceptOf(u)'
    <3>1. AcceptOf(u) /\ task'[u] = task[u]
      BY <1>0, <1>b, <2>1 DEF Alone
    <3>. QED
      BY <1>b, <3>1
  <2>. QED
    BY <1>a, <1>b, <2>1
<1>1. ASSUME NEW t \in Tasks, Rests(t) PROVE AcceptInv'
  <2>1. task'[t].at \in {"idle", "form"} /\ task'[t].with = "nothing"
    BY <1>1 DEF Rests, IsIdle, IsForm
  <2>2. AcceptOf(t)'
    BY <2>1
  <2>. QED
    BY <1>1, <1>b, <2>2 DEF Rests, bulb
<1>2. ASSUME NEW t \in Tasks, Goes(t) PROVE AcceptInv'
  <2>1. AcceptOf(t)
    BY <1>0
  <2>2. AcceptOf(t)'
    BY <1>2, <2>1 DEF Goes, Same, bulb
  <2>. QED
    BY <1>2, <1>b, <2>2 DEF Goes, bulb
<1>3. ASSUME NEW t \in Tasks, Takes(t) PROVE AcceptInv'
  <2>1. AcceptOf(t)'
    BY <1>3 DEF Takes
  <2>. QED
    BY <1>3, <1>b, <2>1 DEF Takes, bulb
<1>4. ASSUME NEW t \in Tasks, Adds(t) \/ Stores(t) PROVE AcceptInv'
  <2>1. task'[t].at = "idle" /\ task'[t].with = "nothing"
    BY <1>4 DEF Adds, Stores, IsIdle
  <2>2. AcceptOf(t)'
    BY <2>1
  <2>. QED
    BY <1>4, <1>b, <2>2 DEF Adds, Stores, bulb
<1>5. ASSUME NEW t \in Tasks, Unpairs(t) PROVE AcceptInv'
  <2>1. /\ accepts' \subseteq accepts /\ \A k \in accepts : k # task[t].token => k \in accepts'
        /\ speaks' = speaks
    BY <1>5 DEF Unpairs
  <2>2. AcceptOf(t)'
    <3>1. AcceptOf(t)
      BY <1>0
    <3>. QED
      BY <1>5, <2>1, <3>1 DEF Unpairs, Same, Usable, Adding, OnEntry
  <2>3. ASSUME NEW u \in Tasks, u # t PROVE AcceptOf(u)'
    <3>1. AcceptOf(u) /\ task'[u] = task[u]
      BY <1>0, <1>5, <2>3 DEF Unpairs, Alone
    <3>2. task[u].at \in {"query", "leave"} /\ task[u].flow \in Usable =>
            task[u].token # task[t].token
      <4>1. task[u].entry # task[t].entry
        BY <1>5, <2>3 DEF Unpairs, IInv, RemoveInv
      <4>2. task[u].token \in accepts => Held(u)
        BY <1>0, Types, TokenTyped DEF Held
      <4>. QED
        BY <2>3, <3>1, <4>1, <4>2 DEF IInv, TokenInv
    <3>. QED
      BY <2>1, <3>1, <3>2
  <2>. QED
    BY <1>a, <2>2, <2>3
<1>6. ASSUME NEW t \in Tasks, Gives(t) PROVE AcceptInv'
  <2>1. PICK k \in Tokens :
          /\ k.n = given + 1
          /\ accepts' = accepts \cup {k}
          /\ task'[t].token \in {k, NoToken}
          /\ task'[t].token = NoToken => task'[t].at = "closing"
    BY <1>6 DEF Gives
  <2>2. speaks' = speaks /\ task'[t].with = "pin" /\ task'[t].at \in {"query", "leave", "closing"}
    BY <1>6 DEF Gives
  <2>3. AcceptOf(t)'
    BY <2>1, <2>2
  <2>4. ASSUME NEW u \in Tasks, u # t PROVE AcceptOf(u)'
    <3>1. AcceptOf(u) /\ task'[u] = task[u]
      BY <1>0, <1>6, <2>4 DEF Gives, Alone
    <3>2. task[u].token # k
      <4>1. task[u].token.n <= given /\ task[u].token.n \in Nat
        BY <1>0, Typed, TokenTyped DEF IInv, TokenInv
      <4>. QED
        BY <1>0, <2>1, <4>1
    <3>. QED
      BY <2>1, <2>2, <3>1, <3>2
  <2>. QED
    BY <1>a, <2>3, <2>4
<1>7. CASE Reset
  <2>1. /\ task' = task /\ accepts' = {} /\ \A u \in Tasks : task[u].at \notin {"query", "leave"}
    BY <1>7 DEF Reset
  <2>2. ASSUME NEW u \in Tasks PROVE AcceptOf(u)'
    BY <2>1
  <2>. QED
    BY <1>a, <2>2
<1>8. CASE UNCHANGED vars
  BY <1>0, <1>8, <1>a DEF vars, bulb
<1>. QED
  BY <1>1, <1>2, <1>3, <1>4, <1>5, <1>6, <1>7, <1>8, NextCases DEF Shape

\* Every step keeps KnownInv: an entry with the unique id is made only where none is.
LEMMA KnownNext == IInv /\ [Next]_vars => KnownInv'
<1>. SUFFICES ASSUME IInv, [Next]_vars
             PROVE  KnownInv'
  OBVIOUS
<1>0. KnownInv /\ TokenInv
  BY DEF IInv
<1>1. CASE entries' \subseteq entries
  BY <1>0, <1>1 DEF KnownInv
<1>2. ASSUME NEW t \in Tasks, Adds(t) PROVE KnownInv'
  BY <1>0, <1>2 DEF KnownInv, Adds
<1>3. ASSUME NEW t \in Tasks, Stores(t) PROVE KnownInv'
  <2>1. ASSUME NEW e \in entries', NEW f \in entries', e.known, f.known PROVE e.n = f.n
    <3>1. PICK i \in entries : e.n = i.n /\ e.known = i.known
      BY <1>3 DEF Stores
    <3>2. PICK j \in entries : f.n = j.n /\ f.known = j.known
      BY <1>3 DEF Stores
    <3>. QED
      BY <1>0, <2>1, <3>1, <3>2 DEF KnownInv
  <2>2. TokenInv'
    BY TokenNext
  <2>. QED
    BY <2>1, <2>2 DEF TokenInv, KnownInv
<1>. QED
  BY <1>1, <1>2, <1>3, NextCases
     DEF Shape, Rests, Goes, Unpairs, Gives, Takes, Reset, vars, stored

\* Every step keeps NothingLeftOpen.
LEMMA OpenNext == IInv /\ [Next]_vars => NothingLeftOpen'
<1>. SUFFICES ASSUME IInv, [Next]_vars
             PROVE  NothingLeftOpen'
  OBVIOUS
<1>0. NothingLeftOpen /\ open \subseteq Tasks \X Protocols
  BY Types DEF IInv
<1>1. ASSUME NEW t \in Tasks, Alone(t), Opens(t) PROVE NothingLeftOpen'
  <2>1. ASSUME NEW s \in open'
        PROVE  /\ task'[s[1]].at \in {"credential", "query", "unpair"}
               /\ task'[s[1]].protocol = s[2]
    <3>1. CASE s \in open /\ s[1] # t
      BY <1>0, <1>1, <3>1 DEF Alone, NothingLeftOpen
    <3>2. CASE s[1] = t
      BY <1>1, <2>1, <3>2 DEF Opens
    <3>. QED
      BY <1>1, <2>1, <3>1, <3>2 DEF Opens
  <2>. QED
    BY <2>1 DEF NothingLeftOpen
<1>2. CASE UNCHANGED <<task, open>>
  BY <1>0, <1>2 DEF NothingLeftOpen
<1>. QED
  BY <1>1, <1>2, NextCases
     DEF Shape, Rests, Goes, Unpairs, Gives, Takes, Adds, Stores, Reset, vars

-----------------------------------------------------------------------------
(* The theorems.                                                           *)

\* The inductive invariant holds at first,
LEMMA InvInit == Init => IInv
<1>. SUFFICES ASSUME Init PROVE IInv
  OBVIOUS
<1>1. /\ 0 \in 0..MaxTokens /\ 0 \in 0..MaxEntries /\ 0 \in 0..MaxResets
      /\ \A t \in Tasks : task[t] = Idle
  BY OnboardingAssumption DEF Init, OnboardingAssumption
<1>2. TypeOK
  BY <1>1, IdleRecord, Types DEF Init, Outcomes
<1>3. FlowInv /\ RemoveInv /\ AcceptInv
  BY <1>1, IdleRecord DEF IsIdle, FlowInv, RemoveInv, AcceptInv, OnEntry
<1>4. TokenInv /\ KnownInv /\ NothingLeftOpen
  BY <1>1, IdleRecord, TokenTyped
     DEF Init, IsIdle, TokenInv, Held, KnownInv, NothingLeftOpen
<1>. QED
  BY <1>2, <1>3, <1>4 DEF IInv

\* and every step keeps it.
LEMMA InvNext == IInv /\ [Next]_vars => IInv'
  BY TypeNext, FlowNext, TokenNext, RemoveNext, AcceptNext, KnownNext, OpenNext DEF IInv

\* The inductive invariant: whose each token is, and what the bulb has said of it.
THEOREM Inductive == Spec => []IInv
  BY InvInit, InvNext, PTL DEF Spec

\* The variables keep their types.
THEOREM TypeCorrect == Spec => []TypeOK
<1>1. IInv => TypeOK
  BY DEF IInv
<1>. QED
  BY <1>1, Inductive, PTL

\* No session outlives the attempt that opened it, whatever fails or is cancelled
\* (connect_session).
THEOREM SessionsEnd == Spec => []NothingLeftOpen
<1>1. IInv => NothingLeftOpen
  BY DEF IInv
<1>. QED
  BY <1>1, Inductive, PTL

\* The entries whose unique id is known are one or none.
LEMMA InvOneEntry == IInv => OneEntry
<1>. SUFFICES ASSUME IInv PROVE OneEntry
  OBVIOUS
<1>. DEFINE known == {e \in entries : e.known}
<1>1. known = {} \/ \E e \in known : known = {e}
  BY DEF IInv, KnownInv
<1>2. Cardinality(known) \in {0, 1}
  BY <1>1, FS_EmptySet, FS_Singleton
<1>. QED
  BY <1>2 DEF OneEntry

\* Flows that pair at the same time never make two entries with the bulb's unique id
\* (_abort_if_unique_id_configured).
THEOREM OneEntryEach == Spec => []OneEntry
<1>1. IInv => OneEntry
  BY InvOneEntry
<1>. QED
  BY <1>1, Inductive, PTL

-----------------------------------------------------------------------------
(* What the flows report.                                                  *)

\* The flow that acts is the only one whose state and outcome change, and it says
\* "rejected" only where the attempt has failed and the bulb has rejected the token.
Reports(u) ==
  /\ \A t \in Tasks : t # u => task'[t] = task[t] /\ outcome'[t] = outcome[t]
  /\ outcome'[u] = "rejected" => outcome[u] = "rejected" \/ task[u].rejected
  /\ Leave(u) \/ task[u].at # "leave" \/ task'[u].at # "idle" \/ outcome'[u] # "ok"

\* A flow that ends otherwise than by failing does not say "rejected".
LEMMA FailedReports ==
  ASSUME TypeOK, NEW u \in Tasks, Failed(u)
  PROVE  Reports(u)
<1>1. /\ task \in [Tasks -> TaskType] /\ outcome \in [Tasks -> Outcomes]
      /\ task[u].rejected \in BOOLEAN
  BY Types, Typed
<1>2. PICK q : task' = [task EXCEPT ![u] = q]
  <2>1. CASE task[u].flow = "remove"
    BY <2>1 DEF Failed, Finish
  <2>2. CASE task[u].flow # "remove"
    BY <2>2 DEF Failed
  <2>. QED
    BY <2>1, <2>2
<1>3. outcome' = [outcome EXCEPT ![u] = IF task[u].rejected THEN "rejected" ELSE "failed"]
  BY DEF Failed, Finish
<1>4. outcome'[u] # "ok" /\ (outcome'[u] = "rejected" => task[u].rejected)
  BY <1>1, <1>3
<1>. QED
  BY <1>1, <1>2, <1>3, <1>4 DEF Reports

\* The connection attempts and the other steps that say nothing, or not "rejected".
LEMMA StepReports ==
  ASSUME IInv, NEW u \in Tasks, Step(u)
  PROVE  Reports(u)
<1>1. task \in [Tasks -> TaskType] /\ outcome \in [Tasks -> Outcomes]
  BY Types DEF IInv
<1>2. ASSUME NEW q, task' = [task EXCEPT ![u] = q], outcome' = outcome, task[u].at # "leave"
      PROVE  Reports(u)
  BY <1>1, <1>2 DEF Reports
<1>3. CASE Connected(u)
  BY <1>2, <1>3 DEF Connected, Go, At
<1>4. CASE NotConnected(u) \/ FailedClosed(u)
  <2>1. task[u].at # "leave" /\ TryNext(u)
    BY <1>4 DEF NotConnected, FailedClosed, At
  <2>2. CASE task[u].protocol = "v3"
    BY <1>2, <2>1, <2>2 DEF TryNext
  <2>. QED
    BY <2>1, <2>2, FailedReports DEF TryNext, IInv
<1>5. CASE Pair(u)
  BY <1>2, <1>5 DEF Pair, Return, CloseFailed, At
<1>6. CASE Authenticate(u) \/ CredentialFails(u)
  BY <1>2, <1>6 DEF Authenticate, CredentialFails, Return, CloseFailed, At
<1>7. CASE Query(u) \/ Unpair(u)
  BY <1>2, <1>7 DEF Query, Unpair, Go, At
<1>8. CASE Leave(u)
  <2>1. \E q, out : /\ task' = [task EXCEPT ![u] = q]
                    /\ outcome' = [outcome EXCEPT ![u] = out]
                    /\ out \in {"ok", "aborted"} \/ outcome' = outcome
    <3>1. CASE task[u].flow = "user"
      <4>1. task' = [task EXCEPT ![u] = Form("pair", 0)] /\ outcome' = outcome
        BY <1>8, <3>1 DEF Leave, Adding
      <4>2. outcome' = [outcome EXCEPT ![u] = outcome[u]]
        BY <1>1, <4>1
      <4>. QED
        BY <4>1, <4>2
    <3>2. CASE task[u].flow = "remove"
      <4>1. Finish(u, "ok")
        BY <1>8, <3>2 DEF Leave, Adding
      <4>. QED
        BY <4>1 DEF Finish
    <3>3. CASE task[u].flow \in {"reauth", "reconfigure"}
      <4>1. Finish(u, "ok")
        BY <1>8, <3>3 DEF Leave, Adding
      <4>. QED
        BY <4>1 DEF Finish
    <3>4. CASE task[u].flow \in Adding
      <4>1. Finish(u, "ok") \/ Finish(u, "aborted")
        <5>1. task[u].flow \notin {"user", "remove", "reauth", "reconfigure"}
          BY <3>4 DEF Adding
        <5>2. CASE Configured(task[u].known)
          BY <1>8, <3>4, <5>1, <5>2 DEF Leave
        <5>3. CASE ~Configured(task[u].known)
          BY <1>8, <3>4, <5>1, <5>3 DEF Leave
        <5>. QED
          BY <5>2, <5>3
      <4>. QED
        BY <4>1 DEF Finish
    <3>5. task[u].flow \in Flows \ {"none"}
      BY <1>8, Typed DEF Leave, At, IInv, FlowInv
    <3>. QED
      BY <3>1, <3>2, <3>3, <3>4, <3>5 DEF Flows, Adding
  <2>. QED
    BY <1>1, <1>8, <2>1 DEF Reports
<1>9. CASE LeaveFails(u)
  BY <1>9, FailedReports DEF LeaveFails, IInv
<1>. QED
  BY <1>3, <1>4, <1>5, <1>6, <1>7, <1>8, <1>9 DEF Step

\* Every step of a flow.
LEMMA NextReports ==
  ASSUME IInv, [Next]_vars
  PROVE  (\E u \in Tasks : Reports(u)) \/ UNCHANGED <<task, outcome>>
<1>1. task \in [Tasks -> TaskType] /\ outcome \in [Tasks -> Outcomes]
  BY Types DEF IInv
<1>2. ASSUME NEW u \in Tasks, NEW q, NEW out \in {"none", "cancelled"},
             task' = [task EXCEPT ![u] = q], outcome' = [outcome EXCEPT ![u] = out]
      PROVE  Reports(u)
  BY <1>1, <1>2 DEF Reports
<1>3. ASSUME NEW u \in Tasks, BeginUser(u) \/ GiveUp(u) \/ Cancel(u) PROVE Reports(u)
  BY <1>2, <1>3 DEF BeginUser, GiveUp, Cancel, Finish
<1>4. ASSUME NEW u \in Tasks, NEW eui64 \in BOOLEAN, BeginZeroconf(u, eui64) PROVE Reports(u)
  BY <1>2, <1>4 DEF BeginZeroconf
<1>5. ASSUME NEW u \in Tasks, NEW e \in entries, BeginRemove(u, e) PROVE Reports(u)
  BY <1>2, <1>5 DEF BeginRemove
<1>6. ASSUME NEW u \in Tasks, NEW e \in entries, NEW flow \in {"reauth", "reconfigure"},
             BeginOnEntry(u, flow, e)
      PROVE  Reports(u)
  BY <1>2, <1>6 DEF BeginOnEntry
<1>7. ASSUME NEW u \in Tasks, NEW with \in {"nothing", "pin", "token"}, Submit(u, with)
      PROVE  Reports(u)
  <2>1. PICK token :
          task' = [task EXCEPT ![u].at = "connect", ![u].with = with, ![u].protocol = "v3",
                               ![u].rejected = FALSE, ![u].token = token]
    BY <1>7 DEF Submit
  <2>2. task' = [task EXCEPT ![u] = [task[u] EXCEPT !.at = "connect", !.with = with,
                   !.protocol = "v3", !.rejected = FALSE, !.token = token]]
    BY <1>1, <2>1
  <2>. QED
    BY <1>2, <1>7, <2>2 DEF Submit
<1>. QED
  BY <1>3, <1>4, <1>5, <1>6, <1>7, StepReports DEF Next, Reset, vars

\* An entry that has just been stored holds the token of its flow.
LEMMA LeaveStores ==
  ASSUME IInv, NEW t \in Tasks, Leave(t), task[t].flow \in Usable, outcome'[t] = "ok",
         task'[t].at = "idle", NEW e \in entries', e.n = task[t].entry \/ e \notin entries
  PROVE  e.token = task[t].token
<1>1. /\ task \in [Tasks -> TaskType] /\ outcome \in [Tasks -> Outcomes]
      /\ entries \subseteq Entries
  BY Types DEF IInv
<1>2. CASE task[t].flow \in Adding /\ Configured(task[t].known)
  <2>1. task[t].flow \notin {"user", "remove", "reauth", "reconfigure"}
    BY <1>2 DEF Adding
  <2>2. outcome' = [outcome EXCEPT ![t] = "aborted"]
    BY <1>2, <2>1 DEF Leave, Finish
  <2>. QED
    BY <1>1, <2>2
<1>3. CASE task[t].flow \in Adding /\ ~Configured(task[t].known)
  <2>1. task[t].flow \notin {"user", "remove", "reauth", "reconfigure"}
    BY <1>3 DEF Adding
  <2>2. entries' = entries \cup {[n |-> created + 1, token |-> task[t].token,
                                  known |-> task[t].known]}
    BY <1>3, <2>1 DEF Leave
  <2>3. task[t].entry = 0
    BY <1>3, <2>1 DEF IInv, FlowInv, OnEntry
  <2>4. \A f \in entries : f.n # 0
    BY <1>1 DEF Entries
  <2>. QED
    BY <2>2, <2>3, <2>4
<1>4. CASE task[t].flow \in OnEntry
  <2>1. entries' = {IF f.n = task[t].entry
                    THEN [f EXCEPT !.token = StoredToken(t, f)] ELSE f : f \in entries}
    BY <1>4 DEF Leave, OnEntry, Adding
  <2>2. PICK f \in entries : e = IF f.n = task[t].entry
                                 THEN [f EXCEPT !.token = task[t].token] ELSE f
    BY <2>1 DEF StoredToken
  <2>. QED
    BY <1>1, <2>2 DEF Entries
<1>. QED
  BY <1>2, <1>3, <1>4 DEF Usable

\* A flow that reports success leaves an entry that works, whatever other flows pair,
\* store or remove meanwhile (async_step_pair, async_step_reauth_confirm and
\* async_step_reconfigure).
THEOREM SuccessUsable == Spec => SuccessMeansUsable
<1>1. ASSUME IInv, [Next]_vars, NEW t \in Tasks, At(t, "leave"),
             task[t].flow \in Adding \cup {"reauth", "reconfigure"},
             task'[t].at = "idle" /\ outcome'[t] = "ok",
             NEW e \in entries', e.n = task[t].entry \/ e \notin entries
      PROVE  e.token \in accepts
  <2>1. task[t].flow \in Usable /\ task[t].at = "leave"
    BY <1>1 DEF Usable, OnEntry, At
  <2>2. Leave(t)
    BY <1>1, <2>1, NextReports DEF Reports
  <2>3. e.token = task[t].token
    BY <1>1, <2>1, <2>2, LeaveStores
  <2>. QED
    BY <1>1, <2>1, <2>3 DEF IInv, AcceptInv
<1>2. IInv /\ [Next]_vars =>
        [\A t \in Tasks :
           /\ At(t, "leave")
           /\ task[t].flow \in Adding \cup {"reauth", "reconfigure"}
           /\ task'[t].at = "idle" /\ outcome'[t] = "ok"
           => \A e \in entries' :
                e.n = task[t].entry \/ e \notin entries => e.token \in accepts]_vars
  BY <1>1
<1>. QED
  BY <1>2, Inductive, PTL DEF Spec, SuccessMeansUsable

\* A bulb of one protocol speaks no other.
LEMMA OneProtocol ==
  ASSUME TypeOK, Cardinality(speaks) = 1, NEW p \in speaks, NEW q \in speaks
  PROVE  p = q
<1>1. IsFiniteSet(speaks)
  <2>1. IsFiniteSet({"v3"} \cup {"legacy"})
    BY FS_Singleton, FS_Union
  <2>2. speaks \subseteq {"v3"} \cup {"legacy"}
    BY Types DEF Protocols
  <2>. QED
    BY <2>1, <2>2, FS_Subset
<1>2. PICK x : speaks = {x}
  BY <1>1, FS_Singleton
<1>. QED
  BY <1>2

\* The user is asked to pair again only for a token that is void, or of a protocol that
\* the bulb no longer speaks, however the network fails (AuthRejectedError of
\* connect_session).
THEOREM RejectedInvalid == Spec => RejectedMeansInvalid
<1>1. ASSUME IInv, [Next]_vars, NEW t \in Tasks,
             outcome[t] # "rejected" /\ outcome'[t] = "rejected",
             task[t].with = "token", Cardinality(speaks) = 1
      PROVE  task[t].token \notin accepts \/ task[t].token.protocol \notin speaks
  <2>1. TypeOK
    BY <1>1 DEF IInv
  <2>2. task[t].rejected
    BY <1>1, NextReports DEF Reports
  <2>3. task[t].token \notin accepts \/ \E p \in speaks : p # task[t].token.protocol
    BY <1>1, <2>2 DEF IInv, AcceptInv
  <2>. QED
    BY <1>1, <2>1, <2>3, OneProtocol
<1>2. IInv /\ [Next]_vars =>
        [\A t \in Tasks :
           /\ outcome[t] # "rejected" /\ outcome'[t] = "rejected"
           /\ task[t].with = "token"
           /\ Cardinality(speaks) = 1
           => task[t].token \notin accepts \/ task[t].token.protocol \notin speaks]_vars
  BY <1>1
<1>. QED
  BY <1>2, Inductive, PTL DEF Spec, RejectedMeansInvalid

=============================================================================
