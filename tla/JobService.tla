----------------------------- MODULE JobService -----------------------------
(***************************************************************************)
(* What the upload service promises about a job, whatever the path it      *)
(* takes through slots, queues and worker threads.                         *)
(*                                                                         *)
(* A job is accepted while there is room, it is then resolved exactly      *)
(* once, and the room it was given is enough: publishing its transfer has  *)
(* no guard on the number of transfers.  UploadPipeline implements this.   *)
(***************************************************************************)
EXTENDS Integers, FiniteSets

CONSTANTS
    Jobs,           \* upload requests
    MAX_TRANSFERS   \* transfers the service stores at most

VARIABLE state      \* what the service did with each job

JobStates == {"absent", "pending", "available", "ended"}

\* The jobs that occupy one of the MAX_TRANSFERS places.
Occupied == {j \in Jobs : state[j] \in {"pending", "available"}}

Init == state = [j \in Jobs |-> "absent"]

\* Admission sweeps expired transfers first, so a place may free up in the
\* same step.
Accept(j) ==
    /\ state[j] = "absent"
    /\ \E gone \in SUBSET {i \in Jobs : state[i] = "available"} :
        /\ Cardinality(Occupied \ gone) < MAX_TRANSFERS
        /\ state' = [i \in Jobs |-> IF i = j THEN "pending"
                                    ELSE IF i \in gone THEN "ended"
                                    ELSE state[i]]

Publish(j) ==
    /\ state[j] = "pending"
    /\ state' = [state EXCEPT ![j] = "available"]

\* Refused after all, failed, cancelled, or (decompression) only streamed back.
End(j) ==
    /\ state[j] = "pending"
    /\ state' = [state EXCEPT ![j] = "ended"]

Expire ==
    \E gone \in SUBSET {j \in Jobs : state[j] = "available"} :
        /\ gone # {}
        /\ state' = [j \in Jobs |-> IF j \in gone THEN "ended" ELSE state[j]]

Next ==
    \/ \E j \in Jobs : Accept(j) \/ Publish(j) \/ End(j)
    \/ Expire

Spec == Init /\ [][Next]_state

Fairness == \A j \in Jobs : WF_state(Publish(j) \/ End(j))

FairSpec == Spec /\ Fairness

-----------------------------------------------------------------------------

TypeOK == state \in [Jobs -> JobStates]

\* Accepted jobs and stored transfers together never exceed the limit.
NeverOverbooked == Cardinality(Occupied) <= MAX_TRANSFERS
=============================================================================
