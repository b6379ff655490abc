--------------------------- MODULE EventLifecycle ---------------------------
(***************************************************************************)
(* What the coordinator promises its callers about one uploaded file and   *)
(* about all of them together, with none of the machinery (semaphore,      *)
(* WaitGroup, contexts, retries, goroutines) that keeps the promise:       *)
(*   - a handed-over upload is queued, then processed or dropped, once;    *)
(*   - never more than Slots uploads are processed at a time;              *)
(*   - the verdict is reached once, before anybody is alerted;             *)
(*   - a notifier is alerted at most once, only of a threat unless it asks *)
(*     for every event, and an upload with a verdict is finished only when *)
(*     every notifier that wants it has been tried.                        *)
(***************************************************************************)
EXTENDS Integers, FiniteSets

CONSTANTS Uploads,      \* the uploads of one execution
          Listeners,    \* the configured notifiers
          Always,       \* those whose condition is "always"
          Slots         \* how many uploads may be processed at once

VARIABLES phase,        \* where each upload stands
          decision,     \* what the analysis said of it
          alerted       \* the notifiers that have been tried for it

alvars == <<phase, decision, alerted>>

Wanted(u) == IF decision[u] = "threat" THEN Listeners
             ELSE IF decision[u] = "clear" THEN Always ELSE {}

ALInit ==
  /\ phase = [u \in Uploads |-> "absent"]
  /\ decision = [u \in Uploads |-> "none"]
  /\ alerted = [u \in Uploads |-> {}]

Move(u, from, to) ==
  /\ phase[u] = from
  /\ phase' = [phase EXCEPT ![u] = to]

Accept(u) == Move(u, "absent", "queued") /\ UNCHANGED <<decision, alerted>>

Drop(u) == Move(u, "queued", "finished") /\ UNCHANGED <<decision, alerted>>

Begin(u) ==
  /\ Cardinality({v \in Uploads : phase[v] = "active"}) < Slots
  /\ Move(u, "queued", "active")
  /\ UNCHANGED <<decision, alerted>>

Decide(u) ==
  /\ phase[u] = "active"
  /\ decision[u] = "none"
  /\ \E d \in {"threat", "clear", "error"} : decision' = [decision EXCEPT ![u] = d]
  /\ UNCHANGED <<phase, alerted>>

Alert(u, n) ==
  /\ phase[u] = "active"
  /\ n \in Wanted(u) \ alerted[u]
  /\ alerted' = [alerted EXCEPT ![u] = @ \cup {n}]
  /\ UNCHANGED <<phase, decision>>

Finish(u) ==
  /\ decision[u] # "none"
  /\ alerted[u] = Wanted(u)
  /\ Move(u, "active", "finished")
  /\ UNCHANGED <<decision, alerted>>

ALNext ==
  \E u \in Uploads :
    \/ Accept(u) \/ Drop(u) \/ Begin(u) \/ Decide(u) \/ Finish(u)
    \/ \E n \in Listeners : Alert(u, n)

ALSpec == ALInit /\ [][ALNext]_alvars
=============================================================================
