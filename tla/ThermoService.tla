--------------------------- MODULE ThermoService ---------------------------
(***************************************************************************)
(* What the users of the fluid service rely on                              *)
(* (libecalc/process/fluid_stream/fluid_service.py): a request is answered   *)
(* with the properties of the state it asks for, whatever was asked before   *)
(* it, and is refused only while no JVM serves it.  The promise ends when    *)
(* the service is shut down under a running request (disturbed), and holds   *)
(* again once it was shut down at rest.                                      *)
(***************************************************************************)
CONSTANTS Clients, Requests, Unsolvable, NONE, ERROR

VARIABLES asked,       \* the request of each client, NONE between requests
          reply,       \* the last reply, until the next request: [to, is]
          up,          \* a JVM serves requests
          disturbed    \* the last shutdown ran into a request

vars == <<asked, reply, up, disturbed>>

Replies == Requests \cup {ERROR}

Init ==
  /\ asked = [c \in Clients |-> NONE]
  /\ reply = NONE
  /\ up = FALSE
  /\ disturbed = FALSE

\* A request made while the service is being shut down disturbs it.
Ask(c) ==
  /\ asked[c] = NONE
  /\ \E q \in Requests : asked' = [asked EXCEPT ![c] = q]
  /\ disturbed' \in {disturbed, TRUE}
  /\ reply' = NONE
  /\ UNCHANGED up

\* The properties of a state are named by the request for it.
Answer(c) ==
  /\ asked[c] # NONE
  /\ \E r \in Replies :
       /\ \/ r = asked[c] /\ r \notin Unsolvable
          \/ r = ERROR /\ (asked[c] \in Unsolvable \/ ~up)
          \/ disturbed
       /\ reply' = [to |-> c, is |-> r]
  /\ asked' = [asked EXCEPT ![c] = NONE]
  /\ UNCHANGED <<up, disturbed>>

Start ==
  /\ ~up
  /\ up' = TRUE
  /\ UNCHANGED <<asked, reply, disturbed>>

AtRest == \A c \in Clients : asked[c] = NONE

\* Only a shutdown at rest restores the promise.
BeginShutdown ==
  /\ disturbed' = ~AtRest
  /\ UNCHANGED <<asked, reply, up>>

Stop ==
  /\ up
  /\ AtRest \/ disturbed
  /\ up' = FALSE
  /\ UNCHANGED <<asked, reply, disturbed>>

Next ==
  \/ \E c \in Clients : Ask(c) \/ Answer(c)
  \/ Start
  \/ BeginShutdown
  \/ Stop

Spec == Init /\ [][Next]_vars

=============================================================================
