--------------------------- MODULE CommandService ---------------------------
(***************************************************************************)
(* What the sending half of the engine promises to the task that queues    *)
(* commands, without a word about bytes: one command at a time, tried a    *)
(* limited number of times, each try either contending for the bus in vain *)
(* or putting the request on it, until it is done or given up.             *)
(***************************************************************************)
EXTENDS Integers

CONSTANTS
  Attempts,     \* how often a command is tried
  NeedsNoAck    \* the requests that are done as soon as they are sent

VARIABLES
  phase,        \* "idle", "waiting", "contending" or "sent"
  request,      \* the command last accepted
  failures,     \* tries that failed
  requests,     \* how often it was put on the bus
  outcome       \* "none", "pending", "done" or "failed"

serviceVars == <<phase, request, failures, requests, outcome>>

Init ==
  /\ phase = "idle" /\ outcome = "none"
  /\ failures = 0 /\ requests = 0

\* A new command, which may go for the bus at once.
Accept ==
  /\ phase = "idle"
  /\ phase' \in {"waiting", "contending"}
  /\ outcome' = "pending" /\ failures' = 0 /\ requests' = 0

Contend ==
  /\ phase = "waiting" /\ phase' = "contending"
  /\ UNCHANGED <<request, failures, requests, outcome>>

Put ==
  /\ phase = "contending"
  /\ requests' = requests + 1
  /\ IF request \in NeedsNoAck
     THEN phase' = "idle" /\ outcome' = "done"
     ELSE phase' = "sent" /\ UNCHANGED outcome
  /\ UNCHANGED <<request, failures>>

\* The bus was lost, or no acknowledgement came.
Fail ==
  /\ phase \in {"contending", "sent"}
  /\ failures' = failures + 1
  /\ IF failures' < Attempts
     THEN phase' = "waiting" /\ UNCHANGED outcome
     ELSE phase' = "idle" /\ outcome' = "failed"
  /\ UNCHANGED <<request, requests>>

Acknowledge ==
  /\ phase = "sent"
  /\ phase' = "idle" /\ outcome' = "done"
  /\ UNCHANGED <<request, failures, requests>>

Next == Accept \/ Contend \/ Put \/ Fail \/ Acknowledge

Spec == Init /\ [][Next]_serviceVars

-----------------------------------------------------------------------------
\* A command is on the bus at most once per try, is given up only when every
\* try has failed, and is done only when it has been on the bus.
Accounted ==
  /\ requests <= failures + 1
  /\ phase \in {"waiting", "contending"} => failures < Attempts /\ requests <= failures
  /\ phase = "sent" => failures < Attempts /\ requests >= 1
  /\ outcome = "failed" => failures = Attempts /\ requests <= Attempts
  /\ outcome = "done" => failures < Attempts /\ requests >= 1

=============================================================================
