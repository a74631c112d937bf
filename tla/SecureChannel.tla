--------------------------- MODULE SecureChannel ---------------------------
(***************************************************************************)
(* What a caller of an LTPDU session is promised, whatever the transport:  *)
(* one request at a time on a channel that must be opened first, a request *)
(* carried out at most once by the device, an answer only for a request    *)
(* the device has carried out, and, after any exchange that did not end    *)
(* with its own answer, no further request before the channel is opened    *)
(* again (LTPDU.md: "Interrupted or invalid encrypted exchanges require a  *)
(* fresh handshake before further operations").                            *)
(***************************************************************************)
EXTENDS Naturals

CONSTANTS
  Calls,      \* identities of the requests made on the channel
  NoCall      \* stands for "no request", and is none of them

VARIABLES
  phase,      \* "down", "ready" or "busy"
  current,    \* the request under way when busy
  asked,      \* the requests handed to the transport
  executed,   \* how often the device has carried out each request
  answered    \* the requests that returned the device's answer

cvars == <<phase, current, asked, executed, answered>>

Init ==
  /\ phase = "down"
  /\ current = NoCall
  /\ asked = {}
  /\ executed = [c \in Calls |-> 0]
  /\ answered = {}

\* A handshake completes.
Open ==
  /\ phase = "down"
  /\ phase' = "ready"
  /\ UNCHANGED <<current, asked, executed, answered>>

\* A new request leaves under the current key.
Ask(c) ==
  /\ phase = "ready"
  /\ c \notin asked
  /\ phase' = "busy"
  /\ current' = c
  /\ asked' = asked \cup {c}
  /\ UNCHANGED <<executed, answered>>

\* Pairing sends the request for its token in the step that opens the channel.
OpenAndAsk(c) ==
  /\ phase = "down"
  /\ c \notin asked
  /\ phase' = "busy"
  /\ current' = c
  /\ asked' = asked \cup {c}
  /\ UNCHANGED <<executed, answered>>

\* The device carries out a request, perhaps long after the caller gave up.
Execute(c) ==
  /\ c \in asked
  /\ executed[c] = 0
  /\ executed' = [executed EXCEPT ![c] = 1]
  /\ UNCHANGED <<phase, current, asked, answered>>

\* The caller gets the answer it is waiting for. Unpairing also takes the
\* channel down.
Answer(c) ==
  /\ phase = "busy"
  /\ current = c
  /\ executed[c] = 1
  /\ answered' = answered \cup {c}
  /\ current' = NoCall
  /\ phase' \in {"ready", "down"}
  /\ UNCHANGED <<asked, executed>>

\* A timeout, a cancellation, a bad reply, a close or a new handshake.
Break ==
  /\ phase # "down"
  /\ phase' = "down"
  /\ current' = NoCall
  /\ UNCHANGED <<asked, executed, answered>>

Next ==
  \/ Open
  \/ Break
  \/ \E c \in Calls : Ask(c) \/ OpenAndAsk(c) \/ Execute(c) \/ Answer(c)

Spec == Init /\ [][Next]_cvars
=============================================================================
