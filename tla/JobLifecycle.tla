---------------------------- MODULE JobLifecycle ----------------------------
(***************************************************************************)
(* What POST /qa/async promises of a job, whatever store keeps it: it is   *)
(* queued, runs, and ends once, done or in error ("Statuses: queued ->     *)
(* running -> done | error", backend/app/api/endpoints.py).  A store may   *)
(* lose a job, and never takes it up again.                                *)
(***************************************************************************)
CONSTANT Jobs

VARIABLE status  \* job -> what the store has of it

Statuses == {"new", "queued", "running", "done", "error", "lost"}

Moves ==
    {<<"new", "queued">>, <<"queued", "running">>, <<"running", "done">>,
     <<"running", "error">>}
      \cup {"queued", "running", "done", "error"} \X {"lost"}

Init == status = [j \in Jobs |-> "new"]

\* Several jobs may be lost in one step.
Next ==
    /\ status' \in [Jobs -> Statuses]
    /\ \A j \in Jobs : status'[j] = status[j] \/ <<status[j], status'[j]>> \in Moves

Spec == Init /\ [][Next]_status

=============================================================================
