------------------------------- MODULE QAJobs -------------------------------
(***************************************************************************)
(* Asynchronous questions: POST /qa/async, its background task, and the    *)
(* client that polls GET /qa/jobs/{id} (backend/app/api/endpoints.py),     *)
(* over either store: the _JobStore of the endpoints, in the memory of one *)
(* process, or the PersistentJobStore of backend/app/cache/job_store.py    *)
(* that is written to replace it, a SQLite file of all processes.          *)
(*                                                                         *)
(* Handlers and tasks run on the event loop of their process and call the  *)
(* store between two awaits, so a call is one step of its process; other   *)
(* processes see of SQLite what is committed.  The service has one process *)
(* by default and several workers under Gunicorn.                          *)
(*                                                                         *)
(* No call of the SQLite store rolls back.  When the first statement of a  *)
(* call fails on a locked database, the connection is left in the          *)
(* transaction Python began for it.  The next read of that connection      *)
(* fixes its snapshot, and from then on it reads that snapshot, and cannot *)
(* write once another process has committed.                               *)
(***************************************************************************)
EXTENDS Integers

CONSTANTS
    Jobs,         \* the questions submitted
    Processes,    \* the worker processes
    NoProcess,    \* the home of a job that was not submitted
    Faults,       \* what may happen: "crash", "busy" (a lock held for 5 s)
    MaxRestarts   \* bound on the restarts

ASSUME JobsAssumption ==
    /\ NoProcess \notin Processes
    /\ Faults \subseteq {"crash", "busy"}
    /\ MaxRestarts \in Nat

VARIABLES
    durable,   \* the store is the SQLite file
    memory,    \* process -> its _JobStore
    db,        \* the committed rows of the SQLite file
    conn,      \* process -> its connection: in a transaction, its snapshot
    task,      \* job -> where its background task is, and in which process
    seen,      \* job -> the last status its client was told
    restarts   \* the number of restarts so far

vars == <<durable, memory, db, conn, task, seen, restarts>>

Statuses == {"none", "queued", "running", "done", "error"}

Rows == [Jobs -> Statuses]

NoRows == [j \in Jobs |-> "none"]

Conn == [state : {"closed", "begun", "reading"}, snapshot : Rows]

Closed == [state |-> "closed", snapshot |-> NoRows]

Task == [pc : {"new", "created", "pipeline", "over"},
         home : Processes \cup {NoProcess}]

Polling == {"queued", "running"}

TypeOK ==
    /\ durable \in BOOLEAN
    /\ memory \in [Processes -> Rows] /\ db \in Rows
    /\ conn \in [Processes -> Conn]
    /\ task \in [Jobs -> Task]
    /\ seen \in [Jobs -> Statuses \cup {"refused", "notfound"}]
    /\ restarts \in 0 .. MaxRestarts

Init ==
    /\ durable \in BOOLEAN
    /\ memory = [p \in Processes |-> NoRows]
    /\ db = NoRows
    /\ conn = [p \in Processes |-> Closed]
    /\ task = [j \in Jobs |-> [pc |-> "new", home |-> NoProcess]]
    /\ seen = [j \in Jobs |-> "none"]
    /\ restarts = 0

-----------------------------------------------------------------------------
(***************************************************************************)
(* The stores.                                                             *)
(***************************************************************************)
\* A connection that has read in an open transaction can no longer write
\* when the database has moved on.
CanWrite(p) == conn[p].state = "reading" => conn[p].snapshot = db

\* create() and update(): the row is inserted or its fields are set, and
\* committed with whatever transaction was open.
Write(p, j, status) ==
    IF durable
    THEN /\ CanWrite(p)
         /\ db' = [db EXCEPT ![j] = status]
         /\ conn' = [conn EXCEPT ![p] = Closed]
         /\ UNCHANGED memory
    ELSE /\ memory' = [memory EXCEPT ![p][j] = status]
         /\ UNCHANGED <<db, conn>>

\* "database is locked": an exception, and the transaction stays open.
WriteFails(p) ==
    /\ durable
    /\ "busy" \in Faults \/ ~CanWrite(p)
    /\ conn' = [conn EXCEPT ![p].state = IF @ = "closed" THEN "begun" ELSE @]
    /\ UNCHANGED <<db, memory>>

\* get(): the rows the process reads.
Visible(p) ==
    IF ~durable THEN memory[p]
    ELSE IF conn[p].state = "reading" THEN conn[p].snapshot ELSE db

\* Outside a transaction a read leaves nothing behind.
AfterRead(c) ==
    IF c.state = "begun" THEN [state |-> "reading", snapshot |-> db] ELSE c

-----------------------------------------------------------------------------
(***************************************************************************)
(* The endpoints and the background task.                                  *)
(***************************************************************************)
\* POST /qa/async: 202 with the status queued, or 500 and no job.
Submit(p, j) ==
    /\ task[j].pc = "new"
    /\ \/ /\ Write(p, j, "queued")
          /\ task' = [task EXCEPT ![j] = [pc |-> "created", home |-> p]]
          /\ seen' = [seen EXCEPT ![j] = "queued"]
       \/ /\ WriteFails(p)
          /\ task' = [task EXCEPT ![j].pc = "over"]
          /\ seen' = [seen EXCEPT ![j] = "refused"]
    /\ UNCHANGED <<durable, restarts>>

GoesTo(j, pc) ==
    /\ task' = [task EXCEPT ![j].pc = pc]
    /\ UNCHANGED <<durable, seen, restarts>>

StillQueued(j) == "queued"

Begun(j) == "running"

\* The first update of _execute is outside its try: when it fails the task ends.
Begin(j) ==
    /\ task[j].pc = "created"
    /\ \/ Write(task[j].home, j, Begun(j)) /\ GoesTo(j, "pipeline")
       \/ WriteFails(task[j].home) /\ GoesTo(j, "over")

\* The error is logged and nothing is stored.
Unhandled(j) == "running"

\* A status JobStatus does not have.
Misspelt(j) == "failed"

\* except Exception: the update that stores the error.
Handled(j) == "error"

\* The pipeline returned or failed.  A result that cannot be stored is an
\* error like any other; an error that cannot be stored is lost.
Finish(j) ==
    /\ task[j].pc = "pipeline"
    /\ \/ Write(task[j].home, j, "done")
       \/ Write(task[j].home, j, Handled(j))
       \/ WriteFails(task[j].home)
    /\ GoesTo(j, "over")

\* GET /qa/jobs/{id}, by a client that polls until an end status or a 404.
\* Any process answers for the file; with stores in memory the job's own does
\* (the documented limitation: those are for deployments of one process).
Poll(p, j) ==
    /\ seen[j] \in Polling
    /\ durable \/ p = task[j].home
    /\ seen' = [seen EXCEPT ![j] =
                  IF Visible(p)[j] = "none" THEN "notfound" ELSE Visible(p)[j]]
    /\ conn' = [conn EXCEPT ![p] = IF durable THEN AfterRead(@) ELSE @]
    /\ UNCHANGED <<durable, memory, db, task, restarts>>

Requeued(rows) ==
    [j \in Jobs |-> IF rows[j] = "running" THEN "queued" ELSE rows[j]]

Surviving(rows) == rows

\* A process dies with its tasks and starts again: the memory is gone, and
\* cleanup_expired deletes rows that are older than the TTL, which a job that
\* still runs is not.
Restart(p, expired) ==
    /\ "crash" \in Faults /\ restarts < MaxRestarts
    /\ restarts' = restarts + 1
    /\ task' = [j \in Jobs |->
                  IF task[j].home = p THEN [task[j] EXCEPT !.pc = "over"] ELSE task[j]]
    /\ \A j \in expired : db[j] # "none" /\ task'[j].pc = "over"
    /\ memory' = [memory EXCEPT ![p] = NoRows]
    /\ conn' = [conn EXCEPT ![p] = Closed]
    /\ db' = [j \in Jobs |-> IF j \in expired THEN "none" ELSE Surviving(db)[j]]
    /\ UNCHANGED <<durable, seen>>

Next ==
    \/ \E j \in Jobs :
         \/ \E p \in Processes : Submit(p, j) \/ Poll(p, j)
         \/ Begin(j)
         \/ Finish(j)
    \/ \E p \in Processes, expired \in SUBSET Jobs : Restart(p, expired)

Spec == Init /\ [][Next]_vars

\* The event loop runs its tasks, pipelines end, and clients go on polling.
FairSpec ==
    /\ Spec
    /\ \A j \in Jobs : WF_vars(Begin(j)) /\ WF_vars(Finish(j))
    /\ \A j \in Jobs : WF_vars(\E p \in Processes : Poll(p, j))

-----------------------------------------------------------------------------
\* What the store has of a job: the memory of the process it was submitted
\* to, or the file.
Stored(j) ==
    IF task[j].home = NoProcess THEN "new"
    ELSE LET row == IF durable THEN db[j] ELSE memory[task[j].home][j]
         IN  IF row = "none" THEN "lost" ELSE row

Lifecycle == INSTANCE JobLifecycle WITH status <- [j \in Jobs |-> Stored(j)]

\* Both stores keep a job as POST /qa/async promises: every status follows the
\* one before it, and an ended job stays as it ended until it is lost.
ImplementsLifecycle == Lifecycle!Spec

Rank(status) ==
    CASE status \in {"none", "new"} -> 0
      [] status = "queued"          -> 1
      [] status = "running"         -> 2
      [] OTHER                      -> 3

\* A connection that reads an old snapshot: it was left in a transaction.
Frozen == \E p \in Processes : conn[p].state = "reading"

NeverBack == \A j \in Jobs : Rank(seen[j]) <= Rank(seen'[j])

\* A client that polls any of the processes, before and after restarts, never
\* sees its job go back to an earlier status, unless the lock of the database
\* timed out and left a connection in its transaction.
PollsMoveForward == [][Frozen \/ NeverBack]_seen

\* A job of the SQLite store whose task ended without storing how: its process
\* died, or the store was locked.
Abandoned(j) == durable /\ task[j].pc = "over" /\ db[j] \in Polling

\* A client that polls is told an end, or that the job is unknown.  What may
\* keep it polling is a job that was abandoned in the file, or a connection
\* that was left in its transaction, and nothing else.
EveryPollEnds ==
    \A j \in Jobs :
        seen[j] \in Polling ~> seen[j] \notin Polling \/ Abandoned(j) \/ Frozen

=============================================================================
