---------------------------- MODULE OpsJobSpec ------------------------------
(***************************************************************************)
(* What Mission Control promises of its ops jobs (pibot/mc/ops.py:1-8),    *)
(* whatever requests arrive and however they interleave: the real command  *)
(* of a job starts only when the operator has consented to it, and a job   *)
(* shown as running has a command at work.                                 *)
(***************************************************************************)
CONSTANTS Jobs, Handlers

VARIABLES
  consent,  \* the jobs whose real command may start
  working,  \* <<h, j>>: the command of j that request h started is at work
  shown     \* what the interface shows of each job

specVars == <<consent, working, shown>>

Init == consent = {} /\ working = {} /\ shown = [j \in Jobs |-> "pending"]

Consent(j) == consent' = consent \cup {j} /\ UNCHANGED <<working, shown>>

Begin(h, j) ==
  /\ j \in consent'
  /\ consent' \in {consent, consent \cup {j}}
  /\ working' = working \cup {<<h, j>>}
  /\ shown' = [shown EXCEPT ![j] = "running"]

\* The command ends by itself, and the job with it.
End(h, j) ==
  /\ <<h, j>> \in working
  /\ working' = working \ {<<h, j>>}
  /\ shown' \in {shown, [shown EXCEPT ![j] = "over"]}
  /\ UNCHANGED consent

\* The job is over for the interface; its command is not stopped.
Cancel(j) == shown' = [shown EXCEPT ![j] = "over"] /\ UNCHANGED <<consent, working>>

\* A preview that ends puts the job back in front of the operator.
Preview(j) == shown' = [shown EXCEPT ![j] = "pending"] /\ UNCHANGED <<consent, working>>

\* A job shown as running has a command at work.
Real == \A j \in Jobs : shown'[j] = "running" => \E h \in Handlers : <<h, j>> \in working'

Next ==
  /\ Real
  /\ \E j \in Jobs :
        \/ Consent(j) \/ Cancel(j) \/ Preview(j)
        \/ \E h \in Handlers : Begin(h, j) \/ End(h, j)

Spec == Init /\ [][Next]_specVars
=============================================================================
