---------------------------- MODULE QAJobsProofs ----------------------------
(***************************************************************************)
(* Proofs about QAJobs, for any jobs, processes, faults and restarts: both *)
(* stores implement the life cycle of a job, a client never sees its job   *)
(* go back, and the end it is told is the one that is stored.  What the    *)
(* exceptions of the runs need: a lock that times out, or a crash.         *)
(***************************************************************************)
EXTENDS QAJobs, TLAPS

Row(j) == IF durable THEN db[j] ELSE memory[task[j].home][j]

\* How far a row has come; a row that is gone comes after all.
RowRank(row) == IF row = "none" THEN 3 ELSE Rank(row)

\* The row of a job that has a task is where the task has put it.
Tasks ==
    \A j \in Jobs :
        /\ task[j].pc = "new" =>
             /\ task[j].home = NoProcess /\ seen[j] = "none" /\ db[j] = "none"
             /\ \A p \in Processes : conn[p].snapshot[j] = "none"
        /\ task[j].pc = "created" => task[j].home \in Processes /\ Row(j) = "queued"
        /\ task[j].pc = "pipeline" => task[j].home \in Processes /\ Row(j) = "running"

\* What clients and snapshots have seen of a job, its row has reached.
Views ==
    /\ \A j \in Jobs : seen[j] \in Polling =>
         task[j].home \in Processes /\ Rank(seen[j]) <= RowRank(Row(j))
    /\ \A p \in Processes, j \in Jobs : conn[p].snapshot[j] \in Polling =>
         Rank(conn[p].snapshot[j]) <= RowRank(db[j])

Inv == TypeOK /\ Tasks /\ Views

-----------------------------------------------------------------------------
LEMMA RankOrder ==
    /\ Rank("none") = 0 /\ Rank("queued") = 1 /\ Rank("running") = 2
    /\ Rank("done") = 3 /\ Rank("error") = 3
    /\ Rank("refused") = 3 /\ Rank("notfound") = 3
  BY DEF Rank

LEMMA InvInit == Init => Inv
<1> SUFFICES ASSUME Init PROVE Inv
  OBVIOUS
<1>1. TypeOK
  BY JobsAssumption DEF Init, TypeOK, NoRows, Rows, Statuses, Conn, Closed, Task
<1>2. Tasks
  BY DEF Init, Tasks, NoRows, Closed
<1>3. Views
  BY DEF Init, Views, NoRows, Closed, Polling
<1> QED
  BY <1>1, <1>2, <1>3 DEF Inv

\* A write moves the row of one job and leaves those of the others alone.
LEMMA WriteEffect ==
    ASSUME TypeOK, NEW p \in Processes, NEW j \in Jobs, NEW s \in Statuses \ {"none"},
           Write(p, j, s)
    PROVE  /\ memory' \in [Processes -> Rows] /\ db' \in Rows
           /\ conn' \in [Processes -> Conn]
           /\ durable => db' = [db EXCEPT ![j] = s] /\ memory' = memory
           /\ ~durable => memory' = [memory EXCEPT ![p][j] = s] /\ db' = db
           /\ \A q \in Processes : conn'[q] = conn[q] \/ conn'[q] = Closed
<1>1. Closed \in Conn
  BY DEF Closed, Conn, NoRows, Rows, Statuses
<1>2. ASSUME durable
      PROVE  /\ db' = [db EXCEPT ![j] = s] /\ memory' = memory
             /\ conn' = [conn EXCEPT ![p] = Closed]
  BY <1>2 DEF Write
<1>3. ASSUME ~durable
      PROVE  /\ memory' = [memory EXCEPT ![p][j] = s] /\ db' = db /\ conn' = conn
  BY <1>3 DEF Write
<1>4. CASE durable
  <2>1. db' \in Rows
    BY <1>2, <1>4 DEF TypeOK, Rows
  <2>2. conn' \in [Processes -> Conn] /\ \A q \in Processes : conn'[q] = conn[q] \/ conn'[q] = Closed
    BY <1>1, <1>2, <1>4 DEF TypeOK
  <2> QED
    BY <1>2, <1>4, <2>1, <2>2 DEF TypeOK
<1>5. CASE ~durable
  <2>1. memory' \in [Processes -> Rows]
    BY <1>3, <1>5 DEF TypeOK, Rows
  <2> QED
    BY <1>3, <1>5, <2>1 DEF TypeOK
<1> QED
  BY <1>4, <1>5

\* A write that fails changes no row and no snapshot.
LEMMA WriteFailsEffect ==
    ASSUME TypeOK, NEW p \in Processes, WriteFails(p)
    PROVE  /\ UNCHANGED <<memory, db>> /\ durable
           /\ conn' \in [Processes -> Conn]
           /\ \A q \in Processes : conn'[q].snapshot = conn[q].snapshot
<1>1. conn' = [conn EXCEPT ![p].state = IF conn[p].state = "closed" THEN "begun"
                                        ELSE conn[p].state]
  BY DEF WriteFails
<1>2. conn[p] \in Conn
  BY DEF TypeOK
<1> QED
  BY <1>1, <1>2 DEF WriteFails, TypeOK, Conn

-----------------------------------------------------------------------------
\* The rows of the jobs that were submitted, after a write by the task of j.
LEMMA RowsAfterWrite ==
    ASSUME TypeOK, NEW j \in Jobs, NEW t \in Task, t.home \in Processes,
           NEW s \in Statuses \ {"none"}, Write(t.home, j, s),
           task' = [task EXCEPT ![j] = t], durable' = durable
    PROVE  /\ task' \in [Jobs -> Task] /\ task'[j] = t
           /\ \A k \in Jobs \ {j} : task'[k] = task[k]
           /\ Row(j)' = s
           /\ \A k \in Jobs \ {j} : task[k].home \in Processes => Row(k)' = Row(k)
<1>1. /\ task' \in [Jobs -> Task] /\ task'[j] = t
      /\ \A k \in Jobs \ {j} : task'[k] = task[k]
  BY DEF TypeOK
<1>2. CASE durable
  BY <1>1, <1>2, WriteEffect DEF Row, TypeOK, Rows
<1>3. CASE ~durable
  <2>1. memory' = [memory EXCEPT ![t.home][j] = s]
    BY <1>3, WriteEffect
  <2>2. Row(j)' = memory'[t.home][j]
    BY <1>1, <1>3 DEF Row
  <2>3. \A k \in Jobs : memory[t.home] \in Rows /\ (k # j => memory'[t.home][k] = memory[t.home][k])
    BY <2>1 DEF TypeOK, Rows
  <2>4. memory'[t.home][j] = s
    BY <2>1 DEF TypeOK, Rows
  <2>5. ASSUME NEW k \in Jobs \ {j}, task[k].home \in Processes
        PROVE  memory'[task[k].home][k] = memory[task[k].home][k]
    <3>1. CASE task[k].home = t.home
      BY <2>3, <3>1
    <3>2. CASE task[k].home # t.home
      BY <2>1, <2>5, <3>2 DEF TypeOK
    <3> QED
      BY <3>1, <3>2
  <2> QED
    BY <1>1, <1>3, <2>2, <2>4, <2>5 DEF Row
<1> QED
  BY <1>1, <1>2, <1>3

\* A task that moves its row forward keeps the invariant.
LEMMA WriteStep ==
    ASSUME Inv, NEW j \in Jobs, NEW t \in Task, t.home \in Processes, t.pc # "new",
           NEW s \in Statuses \ {"none"}, Write(t.home, j, s),
           task' = [task EXCEPT ![j] = t], UNCHANGED <<durable, restarts>>,
           t.pc = "created" => s = "queued", t.pc = "pipeline" => s = "running",
           \/ seen' = seen
           \/ s = "queued" /\ seen' = [seen EXCEPT ![j] = "queued"],
           \/ task[j].pc = "new"
           \/ task[j].home = t.home /\ RowRank(Row(j)) <= Rank(s)
    PROVE  Inv'
<1>t. TypeOK /\ Tasks /\ Views
  BY DEF Inv
<1>r. /\ task' \in [Jobs -> Task] /\ task'[j] = t /\ Row(j)' = s
      /\ \A k \in Jobs \ {j} : task'[k] = task[k]
      /\ \A k \in Jobs \ {j} : task[k].home \in Processes => Row(k)' = Row(k)
  BY <1>t, RowsAfterWrite
<1>w. /\ memory' \in [Processes -> Rows] /\ db' \in Rows
      /\ conn' \in [Processes -> Conn]
      /\ durable => db' = [db EXCEPT ![j] = s] /\ memory' = memory
      /\ ~durable => memory' = [memory EXCEPT ![t.home][j] = s] /\ db' = db
      /\ \A q \in Processes : conn'[q] = conn[q] \/ conn'[q] = Closed
  BY <1>t, WriteEffect
<1>0. TypeOK /\ Tasks /\ Views
  BY <1>t
<1> USE <1>r, <1>w
<1>1. TypeOK'
  <2>1. seen' \in [Jobs -> Statuses \cup {"refused", "notfound"}]
    BY <1>0 DEF TypeOK, Statuses
  <2> QED
    BY <1>0, <2>1 DEF TypeOK
<1>2. \A k \in Jobs \ {j} : seen'[k] = seen[k] /\ db'[k] = db[k] /\ task'[k] = task[k]
  BY <1>0 DEF TypeOK, Rows
<1>3. \A k \in Jobs, q \in Processes :
         conn'[q].snapshot[k] \in {"none", conn[q].snapshot[k]}
  BY <1>0 DEF Closed, NoRows
<1>4. \A k \in Jobs : task'[k].home \in Processes =>
         Row(k)' = IF k = j THEN s ELSE Row(k)
  BY <1>0
<1>5. Tasks'
  <2> SUFFICES ASSUME NEW k \in Jobs
               PROVE  /\ task'[k].pc = "new" =>
                           /\ task'[k].home = NoProcess /\ seen'[k] = "none" /\ db'[k] = "none"
                           /\ \A p \in Processes : conn'[p].snapshot[k] = "none"
                      /\ task'[k].pc = "created" => task'[k].home \in Processes /\ Row(k)' = "queued"
                      /\ task'[k].pc = "pipeline" => task'[k].home \in Processes /\ Row(k)' = "running"
    BY DEF Tasks, Row
  <2>1. CASE k = j
    BY <1>0, <1>4, <2>1
  <2>2. CASE k # j
    BY <1>0, <1>2, <1>3, <1>4, <2>2 DEF Tasks
  <2> QED
    BY <2>1, <2>2
<1>6. Views'
  <2>1. ASSUME NEW k \in Jobs, seen'[k] \in Polling
        PROVE  task'[k].home \in Processes /\ Rank(seen'[k]) <= RowRank(Row(k)')
    <3>1. CASE k # j
      BY <1>0, <1>2, <1>4, <2>1, <3>1 DEF Views
    <3>2. CASE k = j
      <4>1. Row(j)' = s /\ RowRank(s) = Rank(s)
        BY <1>0 DEF RowRank
      <4>2. CASE seen' = seen
        <5>1. task[j].pc # "new"
          BY <1>0, <2>1, <3>2, <4>2 DEF Tasks, Polling
        <5>2. Rank(seen[j]) <= RowRank(Row(j)) /\ seen[j] \in Polling
          BY <1>0, <2>1, <3>2, <4>2 DEF Views
        <5>3. Row(j) \in Statuses
          BY <1>0, <5>1 DEF TypeOK, Rows, Row
        <5> QED
          BY <1>0, <3>2, <4>1, <4>2, <5>1, <5>2, <5>3, RankOrder DEF RowRank, Statuses, Polling
      <4>3. CASE s = "queued" /\ seen' = [seen EXCEPT ![j] = "queued"]
        BY <1>0, <3>2, <4>1, <4>3, RankOrder DEF TypeOK
      <4> QED
        BY <4>2, <4>3
    <3> QED
      BY <3>1, <3>2
  <2>2. ASSUME NEW q \in Processes, NEW k \in Jobs, conn'[q].snapshot[k] \in Polling
        PROVE  Rank(conn'[q].snapshot[k]) <= RowRank(db'[k])
    <3>1. conn'[q].snapshot[k] = conn[q].snapshot[k]
      BY <1>3, <2>2 DEF Polling
    <3>2. CASE ~durable \/ k # j
      BY <1>0, <1>2, <2>2, <3>1, <3>2 DEF Views
    <3>3. CASE durable /\ k = j
      <4>1. task[j].pc # "new"
        BY <1>0, <2>2, <3>1, <3>3 DEF Tasks, Polling
      <4>2. db'[j] = s /\ Row(j) = db[j]
        BY <1>0, <3>3 DEF Row, TypeOK, Rows
      <4>3. Rank(conn[q].snapshot[j]) <= RowRank(db[j])
        BY <1>0, <2>2, <3>1, <3>3 DEF Views
      <4> QED
        BY <1>0, <2>2, <3>1, <3>3, <4>1, <4>2, <4>3, RankOrder DEF RowRank, Statuses, Polling, TypeOK, Rows
    <3> QED
      BY <3>2, <3>3
  <2> QED
    BY <2>1, <2>2 DEF Views, Row
<1> QED
  BY <1>1, <1>5, <1>6 DEF Inv

\* A task that ends because the store is locked keeps it too.
LEMMA FailStep ==
    ASSUME Inv, NEW j \in Jobs, NEW p \in Processes, WriteFails(p),
           task' = [task EXCEPT ![j].pc = "over"], UNCHANGED <<durable, restarts>>,
           seen' = seen \/ seen' = [seen EXCEPT ![j] = "refused"]
    PROVE  Inv'
<1>0. TypeOK /\ Tasks /\ Views
  BY DEF Inv
<1>1. /\ UNCHANGED <<memory, db>> /\ conn' \in [Processes -> Conn]
      /\ \A q \in Processes : conn'[q].snapshot = conn[q].snapshot
  BY <1>0, WriteFailsEffect
<1>2. /\ task' \in [Jobs -> Task] /\ task'[j].pc = "over"
      /\ \A k \in Jobs : task'[k].home = task[k].home
      /\ \A k \in Jobs \ {j} : task'[k] = task[k]
  BY <1>0 DEF TypeOK, Task
<1>3. \A k \in Jobs : seen'[k] = seen[k] \/ (k = j /\ seen'[k] = "refused")
  BY <1>0 DEF TypeOK
<1>4. \A k \in Jobs : Row(k)' = Row(k)
  BY <1>1, <1>2 DEF Row
<1>5. TypeOK'
  <2>1. seen' \in [Jobs -> Statuses \cup {"refused", "notfound"}]
    BY <1>0 DEF TypeOK
  <2> QED
    BY <1>0, <1>1, <1>2, <2>1 DEF TypeOK
<1>6. Tasks'
  <2> SUFFICES ASSUME NEW k \in Jobs
               PROVE  /\ task'[k].pc = "new" =>
                           /\ task'[k].home = NoProcess /\ seen'[k] = "none" /\ db'[k] = "none"
                           /\ \A q \in Processes : conn'[q].snapshot[k] = "none"
                      /\ task'[k].pc = "created" => task'[k].home \in Processes /\ Row(k)' = "queued"
                      /\ task'[k].pc = "pipeline" => task'[k].home \in Processes /\ Row(k)' = "running"
    BY DEF Tasks, Row
  <2> QED
    BY <1>0, <1>1, <1>2, <1>3, <1>4 DEF Tasks
<1>7. Views'
  <2>1. \A k \in Jobs : seen'[k] \in Polling =>
          task'[k].home \in Processes /\ Rank(seen'[k]) <= RowRank(Row(k)')
    BY <1>0, <1>2, <1>3, <1>4 DEF Views, Polling
  <2>2. \A q \in Processes, k \in Jobs : conn'[q].snapshot[k] \in Polling =>
          Rank(conn'[q].snapshot[k]) <= RowRank(db'[k])
    BY <1>0, <1>1 DEF Views
  <2> QED
    BY <2>1, <2>2 DEF Views, Row
<1> QED
  BY <1>5, <1>6, <1>7 DEF Inv

LEMMA SubmitInv == ASSUME Inv, NEW p \in Processes, NEW j \in Jobs, Submit(p, j) PROVE Inv'
<1>1. CASE /\ Write(p, j, "queued")
           /\ task' = [task EXCEPT ![j] = [pc |-> "created", home |-> p]]
           /\ seen' = [seen EXCEPT ![j] = "queued"]
  <2> DEFINE t == [pc |-> "created", home |-> p]
  <2>1. t \in Task /\ t.home = p /\ t.pc = "created"
    BY DEF Task
  <2>2. task[j].pc = "new" /\ UNCHANGED <<durable, restarts>>
    BY DEF Submit
  <2> HIDE DEF t
  <2>3. task' = [task EXCEPT ![j] = t]
    BY <1>1 DEF t
  <2> QED
    BY <1>1, <2>1, <2>2, <2>3, WriteStep DEF Statuses
<1>2. CASE /\ WriteFails(p)
           /\ task' = [task EXCEPT ![j].pc = "over"]
           /\ seen' = [seen EXCEPT ![j] = "refused"]
  BY <1>2, FailStep DEF Submit
<1> QED
  BY <1>1, <1>2 DEF Submit

\* The step of a task as a step to a new value of it.
LEMMA TaskAt ==
    ASSUME TypeOK, NEW j \in Jobs, NEW pc \in {"pipeline", "over"}, GoesTo(j, pc)
    PROVE  LET t == [pc |-> pc, home |-> task[j].home]
           IN  /\ t \in Task /\ t.pc = pc /\ t.home = task[j].home
               /\ task' = [task EXCEPT ![j] = t]
<1> DEFINE t == [pc |-> pc, home |-> task[j].home]
<1>1. task[j] \in Task /\ task \in [Jobs -> Task]
  BY DEF TypeOK
<1>2. t \in Task /\ t.pc = pc /\ t.home = task[j].home
  BY <1>1 DEF Task
<1>3. [task[j] EXCEPT !.pc = pc] = t
  BY <1>1 DEF Task
<1>4. task' = [task EXCEPT ![j] = [task[j] EXCEPT !.pc = pc]]
  BY <1>1 DEF GoesTo
<1> QED
  BY <1>2, <1>3, <1>4

LEMMA TaskWrite ==
    ASSUME Inv, NEW j \in Jobs, NEW pc \in {"pipeline", "over"}, GoesTo(j, pc),
           NEW s \in Statuses \ {"none"}, Write(task[j].home, j, s),
           task[j].home \in Processes, pc = "pipeline" => s = "running",
           RowRank(Row(j)) <= Rank(s)
    PROVE  Inv'
<1> DEFINE t == [pc |-> pc, home |-> task[j].home]
<1>1. t \in Task /\ t.pc = pc /\ t.home = task[j].home /\ task' = [task EXCEPT ![j] = t]
  BY TaskAt DEF Inv
<1>2. UNCHANGED <<durable, restarts>> /\ seen' = seen
  BY DEF GoesTo
<1> HIDE DEF t
<1> QED
  BY <1>1, <1>2, WriteStep

LEMMA BeginInv == ASSUME Inv, NEW j \in Jobs, Begin(j) PROVE Inv'
<1>1. task[j].home \in Processes /\ Row(j) = "queued"
  BY DEF Inv, Tasks, Begin
<1>2. RowRank(Row(j)) <= Rank("running")
  BY <1>1, RankOrder DEF RowRank
<1>3. CASE Write(task[j].home, j, Begun(j)) /\ GoesTo(j, "pipeline")
  BY <1>1, <1>2, <1>3, TaskWrite DEF Begun, Statuses
<1>4. CASE WriteFails(task[j].home) /\ GoesTo(j, "over")
  BY <1>1, <1>4, FailStep DEF GoesTo
<1> QED
  BY <1>3, <1>4 DEF Begin

LEMMA FinishInv == ASSUME Inv, NEW j \in Jobs, Finish(j) PROVE Inv'
<1>1. task[j].home \in Processes /\ Row(j) = "running" /\ GoesTo(j, "over")
  BY DEF Inv, Tasks, Finish
<1>2. RowRank(Row(j)) <= Rank("done") /\ RowRank(Row(j)) <= Rank("error")
  BY <1>1, RankOrder DEF RowRank
<1>3. CASE Write(task[j].home, j, "done")
  BY <1>1, <1>2, <1>3, TaskWrite DEF Statuses
<1>4. CASE Write(task[j].home, j, Handled(j))
  BY <1>1, <1>2, <1>4, TaskWrite DEF Handled, Statuses
<1>5. CASE WriteFails(task[j].home)
  BY <1>1, <1>5, FailStep DEF GoesTo
<1> QED
  BY <1>3, <1>4, <1>5 DEF Finish

\* No status ranks above a row that is gone.
LEMMA RankMost ==
    ASSUME NEW s \in Polling
    PROVE  Rank(s) <= RowRank("none") /\ RowRank(s) = Rank(s) /\ Rank(s) \in Nat
  BY RankOrder DEF RowRank, Polling

LEMMA PollInv == ASSUME Inv, NEW p \in Processes, NEW j \in Jobs, Poll(p, j) PROVE Inv'
<1> DEFINE row == Visible(p)[j]
<1>0. /\ TypeOK /\ Tasks /\ Views
      /\ UNCHANGED <<durable, memory, db, task, restarts>> /\ seen[j] \in Polling
  BY DEF Inv, Poll
<1>1. task[j].home \in Processes /\ task[j].pc # "new"
  BY <1>0 DEF Views, Tasks, Polling
<1>2. /\ row \in Statuses
      /\ row \in Polling => Rank(row) <= RowRank(Row(j))
  <2>1. CASE ~durable
    <3>1. p = task[j].home /\ row = Row(j)
      BY <2>1 DEF Poll, Visible, Row
    <3> QED
      BY <1>0, <1>1, <2>1, <3>1, RankMost DEF TypeOK, Rows, Row
  <2>2. CASE durable /\ conn[p].state = "reading"
    <3>1. row = conn[p].snapshot[j] /\ Row(j) = db[j]
      BY <2>2 DEF Visible, Row
    <3> QED
      BY <1>0, <3>1 DEF Views, TypeOK, Conn, Rows
  <2>3. CASE durable /\ conn[p].state # "reading"
    <3>1. row = db[j] /\ Row(j) = db[j]
      BY <2>3 DEF Visible, Row
    <3> QED
      BY <1>0, <3>1, RankMost DEF TypeOK, Rows
  <2> QED
    BY <2>1, <2>2, <2>3
<1>3. seen' = [seen EXCEPT ![j] = IF row = "none" THEN "notfound" ELSE row]
  BY DEF Poll
<1>4. /\ conn' \in [Processes -> Conn]
      /\ \A q \in Processes : conn'[q].snapshot = conn[q].snapshot \/ conn'[q].snapshot = db
  <2>1. conn' = [conn EXCEPT ![p] = IF durable THEN AfterRead(conn[p]) ELSE conn[p]]
    BY DEF Poll
  <2>2. /\ AfterRead(conn[p]) \in Conn
        /\ AfterRead(conn[p]).snapshot \in {conn[p].snapshot, db}
    BY <1>0 DEF AfterRead, TypeOK, Conn
  <2> QED
    BY <1>0, <2>1, <2>2 DEF TypeOK
<1>5. \A k \in Jobs : Row(k)' = Row(k)
  BY <1>0 DEF Row
<1> HIDE DEF row
<1>6. TypeOK'
  <2>1. seen' \in [Jobs -> Statuses \cup {"refused", "notfound"}]
    BY <1>0, <1>2, <1>3 DEF TypeOK
  <2> QED
    BY <1>0, <1>4, <2>1 DEF TypeOK
<1>7. \A k \in Jobs : k # j => seen'[k] = seen[k]
  BY <1>0, <1>3 DEF TypeOK
<1>8. Tasks'
  <2> SUFFICES ASSUME NEW k \in Jobs
               PROVE  /\ task'[k].pc = "new" =>
                           /\ task'[k].home = NoProcess /\ seen'[k] = "none" /\ db'[k] = "none"
                           /\ \A q \in Processes : conn'[q].snapshot[k] = "none"
                      /\ task'[k].pc = "created" => task'[k].home \in Processes /\ Row(k)' = "queued"
                      /\ task'[k].pc = "pipeline" => task'[k].home \in Processes /\ Row(k)' = "running"
    BY DEF Tasks, Row
  <2> QED
    BY <1>0, <1>1, <1>4, <1>5, <1>7 DEF Tasks
<1>9. Views'
  <2>1. ASSUME NEW k \in Jobs, seen'[k] \in Polling
        PROVE  task'[k].home \in Processes /\ Rank(seen'[k]) <= RowRank(Row(k)')
    <3>1. CASE k # j
      BY <1>0, <1>5, <1>7, <2>1, <3>1 DEF Views
    <3>2. CASE k = j
      <4>1. seen'[j] = row
        BY <1>0, <1>3, <2>1, <3>2 DEF TypeOK, Polling
      <4> QED
        BY <1>0, <1>1, <1>2, <1>5, <2>1, <3>2, <4>1
    <3> QED
      BY <3>1, <3>2
  <2>2. ASSUME NEW q \in Processes, NEW k \in Jobs, conn'[q].snapshot[k] \in Polling
        PROVE  Rank(conn'[q].snapshot[k]) <= RowRank(db'[k])
    <3>1. CASE conn'[q].snapshot = conn[q].snapshot
      BY <1>0, <2>2, <3>1 DEF Views
    <3>2. CASE conn'[q].snapshot = db
      BY <1>0, <2>2, <3>2, RankMost
    <3> QED
      BY <1>4, <3>1, <3>2
  <2> QED
    BY <2>1, <2>2 DEF Views, Row
<1> QED
  BY <1>6, <1>8, <1>9 DEF Inv

\* What a restart does to the tasks, the rows and the snapshots.
LEMMA RestartEffect ==
    ASSUME TypeOK, NEW p \in Processes, NEW expired \in SUBSET Jobs, Restart(p, expired)
    PROVE  /\ task' \in [Jobs -> Task] /\ conn' \in [Processes -> Conn]
           /\ memory' \in [Processes -> Rows] /\ db' \in Rows
           /\ \A k \in Jobs : task'[k].home = task[k].home
           /\ \A k \in Jobs : task[k].home = p => task'[k].pc = "over"
           /\ \A k \in Jobs : task[k].home # p => task'[k] = task[k]
           /\ \A k \in Jobs : db'[k] = db[k] \/ (db'[k] = "none" /\ task'[k].pc = "over")
           /\ \A k \in Jobs : task[k].home \in Processes =>
                Row(k)' = Row(k) \/ (Row(k)' = "none" /\ task'[k].pc = "over")
           /\ \A q \in Processes : conn'[q] = conn[q] \/ conn'[q] = Closed
<1>1. /\ task' \in [Jobs -> Task]
      /\ \A k \in Jobs : task'[k].home = task[k].home
      /\ \A k \in Jobs : task[k].home = p => task'[k].pc = "over"
      /\ \A k \in Jobs : task[k].home # p => task'[k] = task[k]
  <2>1. task' = [k \in Jobs |->
                   IF task[k].home = p THEN [task[k] EXCEPT !.pc = "over"] ELSE task[k]]
    BY DEF Restart
  <2>2. \A k \in Jobs : task[k] \in Task /\ [task[k] EXCEPT !.pc = "over"] \in Task
                        /\ [task[k] EXCEPT !.pc = "over"].home = task[k].home
                        /\ [task[k] EXCEPT !.pc = "over"].pc = "over"
    BY DEF TypeOK, Task
  <2> QED
    BY <2>1, <2>2
<1>2. NoRows \in Rows /\ Closed \in Conn /\ \A k \in Jobs : NoRows[k] = "none"
  BY DEF NoRows, Rows, Statuses, Closed, Conn
<1>3. memory' = [memory EXCEPT ![p] = NoRows] /\ conn' = [conn EXCEPT ![p] = Closed]
  BY DEF Restart
<1>4. /\ db' \in Rows
      /\ \A k \in Jobs : db'[k] = db[k] \/ (db'[k] = "none" /\ task'[k].pc = "over")
  <2>1. db' = [k \in Jobs |-> IF k \in expired THEN "none" ELSE db[k]]
    BY DEF Restart, Surviving
  <2>2. \A k \in expired : task'[k].pc = "over"
    BY DEF Restart
  <2> QED
    BY <2>1, <2>2 DEF TypeOK, Rows, Statuses
<1>5. /\ memory' \in [Processes -> Rows] /\ conn' \in [Processes -> Conn]
      /\ \A q \in Processes : conn'[q] = conn[q] \/ conn'[q] = Closed
      /\ \A q \in Processes : memory'[q] = IF q = p THEN NoRows ELSE memory[q]
  BY <1>2, <1>3 DEF TypeOK
<1>6. ASSUME NEW k \in Jobs, task[k].home \in Processes
      PROVE  Row(k)' = Row(k) \/ (Row(k)' = "none" /\ task'[k].pc = "over")
  <2>1. durable' = durable
    BY DEF Restart
  <2>2. CASE durable
    BY <1>4, <2>1, <2>2 DEF Row
  <2>3. CASE ~durable
    BY <1>1, <1>2, <1>5, <1>6, <2>1, <2>3 DEF Row
  <2> QED
    BY <2>2, <2>3
<1> QED
  BY <1>1, <1>4, <1>5, <1>6

LEMMA RestartInv ==
    ASSUME Inv, NEW p \in Processes, NEW expired \in SUBSET Jobs, Restart(p, expired)
    PROVE  Inv'
<1>0. TypeOK /\ Tasks /\ Views
  BY DEF Inv
<1>1. /\ \A k \in Jobs : task'[k].home = task[k].home
      /\ \A k \in Jobs : task[k].home = p => task'[k].pc = "over"
      /\ \A k \in Jobs : task[k].home # p => task'[k] = task[k]
      /\ \A k \in Jobs : db'[k] = db[k] \/ (db'[k] = "none" /\ task'[k].pc = "over")
      /\ \A k \in Jobs : task[k].home \in Processes =>
           Row(k)' = Row(k) \/ (Row(k)' = "none" /\ task'[k].pc = "over")
  BY <1>0, RestartEffect
<1>2. \A q \in Processes, k \in Jobs : conn'[q].snapshot[k] \in {conn[q].snapshot[k], "none"}
  BY <1>0, RestartEffect DEF Closed, NoRows
<1>3. UNCHANGED <<durable, seen>>
  BY DEF Restart
<1>4. TypeOK'
  <2>1. restarts' \in 0 .. MaxRestarts
    BY <1>0, JobsAssumption DEF TypeOK, Restart
  <2> QED
    BY <1>0, <1>3, <2>1, RestartEffect DEF TypeOK
<1>5. Tasks'
  <2> SUFFICES ASSUME NEW k \in Jobs
               PROVE  /\ task'[k].pc = "new" =>
                           /\ task'[k].home = NoProcess /\ seen'[k] = "none" /\ db'[k] = "none"
                           /\ \A q \in Processes : conn'[q].snapshot[k] = "none"
                      /\ task'[k].pc = "created" => task'[k].home \in Processes /\ Row(k)' = "queued"
                      /\ task'[k].pc = "pipeline" => task'[k].home \in Processes /\ Row(k)' = "running"
    BY DEF Tasks, Row
  <2>1. CASE task[k].home = p
    BY <1>1, <2>1
  <2>2. CASE task[k].home # p
    BY <1>0, <1>1, <1>2, <1>3, <2>2 DEF Tasks
  <2> QED
    BY <2>1, <2>2
<1>6. Views'
  <2>1. ASSUME NEW k \in Jobs, seen'[k] \in Polling
        PROVE  task'[k].home \in Processes /\ Rank(seen'[k]) <= RowRank(Row(k)')
    <3>1. task[k].home \in Processes /\ Rank(seen[k]) <= RowRank(Row(k)) /\ seen'[k] = seen[k]
      BY <1>0, <1>3, <2>1 DEF Views
    <3>2. Row(k)' = Row(k) \/ Row(k)' = "none"
      BY <1>1, <3>1
    <3> QED
      BY <1>1, <2>1, <3>1, <3>2, RankMost
  <2>2. ASSUME NEW q \in Processes, NEW k \in Jobs, conn'[q].snapshot[k] \in Polling
        PROVE  Rank(conn'[q].snapshot[k]) <= RowRank(db'[k])
    <3>1. conn'[q].snapshot[k] = conn[q].snapshot[k]
      BY <1>2, <2>2 DEF Polling
    <3>2. Rank(conn[q].snapshot[k]) <= RowRank(db[k])
      BY <1>0, <2>2, <3>1 DEF Views
    <3>3. db'[k] = db[k] \/ db'[k] = "none"
      BY <1>1
    <3> QED
      BY <2>2, <3>1, <3>2, <3>3, RankMost
  <2> QED
    BY <2>1, <2>2 DEF Views, Row
<1> QED
  BY <1>4, <1>5, <1>6 DEF Inv

-----------------------------------------------------------------------------
\* The invariant: the row of a job that has a task is where the task has put
\* it, and no client and no snapshot is ahead of a row.
THEOREM JobsInvariant == Spec => []Inv
<1>1. ASSUME Inv, [Next]_vars PROVE Inv'
  <2>1. ASSUME NEW p \in Processes, NEW j \in Jobs, Submit(p, j) PROVE Inv'
    BY <1>1, <2>1, SubmitInv
  <2>2. ASSUME NEW p \in Processes, NEW j \in Jobs, Poll(p, j) PROVE Inv'
    BY <1>1, <2>2, PollInv
  <2>3. ASSUME NEW j \in Jobs, Begin(j) PROVE Inv'
    BY <1>1, <2>3, BeginInv
  <2>4. ASSUME NEW j \in Jobs, Finish(j) PROVE Inv'
    BY <1>1, <2>4, FinishInv
  <2>5. ASSUME NEW p \in Processes, NEW expired \in SUBSET Jobs, Restart(p, expired)
        PROVE  Inv'
    BY <1>1, <2>5, RestartInv
  <2>6. CASE UNCHANGED vars
    BY <1>1, <2>6 DEF vars, Inv, TypeOK, Tasks, Views, Row
  <2> QED
    BY <1>1, <2>1, <2>2, <2>3, <2>4, <2>5, <2>6 DEF Next
<1> QED
  BY InvInit, <1>1, PTL DEF Spec

\* The state of the jobs keeps its types, whatever the store.
THEOREM JobsTypeCorrect == Spec => []TypeOK
  BY JobsInvariant, PTL DEF Inv

-----------------------------------------------------------------------------
LEMMA StoredIsRow ==
    ASSUME TypeOK, NEW k \in Jobs
    PROVE  /\ task[k].home = NoProcess => Stored(k) = "new"
           /\ task[k].home \in Processes =>
                Stored(k) = IF Row(k) = "none" THEN "lost" ELSE Row(k)
           /\ Stored(k) \in {"new", "queued", "running", "done", "error", "lost"}
           /\ task[k].home \in Processes \cup {NoProcess}
  BY JobsAssumption DEF Stored, Row, TypeOK, Rows, Statuses, Task

\* A write takes the stored status of its job from Stored(j) to s.
LEMMA WriteStored ==
    ASSUME Inv, NEW j \in Jobs, NEW t \in Task, t.home \in Processes,
           NEW s \in Statuses \ {"none"}, Write(t.home, j, s),
           task' = [task EXCEPT ![j] = t], durable' = durable
    PROVE  Stored(j)' = s /\ \A k \in Jobs \ {j} : Stored(k)' = Stored(k)
<1>1. /\ task' \in [Jobs -> Task] /\ task'[j] = t /\ Row(j)' = s
      /\ \A k \in Jobs \ {j} : task'[k] = task[k]
      /\ \A k \in Jobs \ {j} : task[k].home \in Processes => Row(k)' = Row(k)
  BY RowsAfterWrite DEF Inv
<1>2. \A k \in Jobs :
         /\ task'[k].home = NoProcess => Stored(k)' = "new"
         /\ task'[k].home \in Processes =>
              Stored(k)' = IF Row(k)' = "none" THEN "lost" ELSE Row(k)'
  BY JobsAssumption DEF Stored, Row
<1>3. \A k \in Jobs :
         /\ task[k].home = NoProcess => Stored(k) = "new"
         /\ task[k].home \in Processes =>
              Stored(k) = IF Row(k) = "none" THEN "lost" ELSE Row(k)
         /\ task[k].home \in Processes \cup {NoProcess}
  BY StoredIsRow DEF Inv
<1> QED
  BY <1>1, <1>2, <1>3

Held(k) == Stored(k)' = Stored(k)

Moved(k) == <<Stored(k), Stored(k)'>> \in Lifecycle!Moves

\* Every step moves the stored status of a job along the life cycle or leaves
\* it alone.
LEMMA StoredMoves ==
    ASSUME Inv, [Next]_vars, NEW k \in Jobs
    PROVE  Held(k) \/ Moved(k)
<1> USE DEF Held, Moved
<1>0. TypeOK /\ Tasks
  BY DEF Inv
<1>m. /\ <<"new", "queued">> \in Lifecycle!Moves
      /\ <<"queued", "running">> \in Lifecycle!Moves
      /\ <<"running", "done">> \in Lifecycle!Moves
      /\ <<"running", "error">> \in Lifecycle!Moves
      /\ \A s \in {"queued", "running", "done", "error"} : <<s, "lost">> \in Lifecycle!Moves
  BY DEF Lifecycle!Moves
<1>f. ASSUME NEW j \in Jobs, NEW p, WriteFails(p), task' = [task EXCEPT ![j].pc = "over"],
             durable' = durable
      PROVE  Held(k)
  <2>1. task'[k].home = task[k].home
    BY <1>0, <1>f DEF TypeOK, Task
  <2> QED
    BY <1>f, <2>1 DEF Stored, WriteFails
<1>1. ASSUME NEW p \in Processes, NEW j \in Jobs, Submit(p, j) PROVE Held(k) \/ Moved(k)
  <2>1. CASE Write(p, j, "queued") /\ task' = [task EXCEPT ![j] = [pc |-> "created", home |-> p]]
    <3> DEFINE t == [pc |-> "created", home |-> p]
    <3>1. t \in Task /\ t.home = p
      BY DEF Task
    <3>2. Stored(j) = "new"
      BY <1>0, <1>1, StoredIsRow DEF Submit, Tasks
    <3>3. durable' = durable /\ task' = [task EXCEPT ![j] = t] /\ Write(t.home, j, "queued")
      BY <1>1, <2>1 DEF Submit
    <3> HIDE DEF t
    <3>4. Stored(j)' = "queued" /\ (k # j => Stored(k)' = Stored(k))
      BY <3>1, <3>3, WriteStored DEF Statuses
    <3> QED
      BY <1>m, <3>2, <3>4
  <2>2. CASE WriteFails(p) /\ task' = [task EXCEPT ![j].pc = "over"]
    BY <1>1, <1>f, <2>2 DEF Submit
  <2> QED
    BY <1>1, <2>1, <2>2 DEF Submit
<1>w. ASSUME NEW j \in Jobs, NEW pc \in {"pipeline", "over"}, GoesTo(j, pc),
             NEW s \in Statuses \ {"none"}, Write(task[j].home, j, s),
             task[j].home \in Processes
      PROVE  Stored(j)' = s /\ (k # j => Stored(k)' = Stored(k))
  <2> DEFINE t == [pc |-> pc, home |-> task[j].home]
  <2>1. t \in Task /\ t.home = task[j].home /\ task' = [task EXCEPT ![j] = t]
    BY <1>0, <1>w, TaskAt
  <2>2. durable' = durable
    BY <1>w DEF GoesTo
  <2> HIDE DEF t
  <2> QED
    BY <1>w, <2>1, <2>2, WriteStored
<1>2. ASSUME NEW j \in Jobs, Begin(j) PROVE Held(k) \/ Moved(k)
  <2>1. task[j].home \in Processes /\ Row(j) = "queued"
    BY <1>0, <1>2 DEF Tasks, Begin
  <2>2. Stored(j) = "queued"
    BY <1>0, <2>1, StoredIsRow
  <2>3. CASE Write(task[j].home, j, Begun(j)) /\ GoesTo(j, "pipeline")
    BY <1>m, <1>w, <2>1, <2>2, <2>3 DEF Begun, Statuses
  <2>4. CASE WriteFails(task[j].home) /\ GoesTo(j, "over")
    BY <1>f, <2>4 DEF GoesTo
  <2> QED
    BY <1>2, <2>3, <2>4 DEF Begin
<1>3. ASSUME NEW j \in Jobs, Finish(j) PROVE Held(k) \/ Moved(k)
  <2>1. task[j].home \in Processes /\ Row(j) = "running" /\ GoesTo(j, "over")
    BY <1>0, <1>3 DEF Tasks, Finish
  <2>2. Stored(j) = "running"
    BY <1>0, <2>1, StoredIsRow
  <2>3. CASE Write(task[j].home, j, "done")
    BY <1>m, <1>w, <2>1, <2>2, <2>3 DEF Statuses
  <2>4. CASE Write(task[j].home, j, Handled(j))
    BY <1>m, <1>w, <2>1, <2>2, <2>4 DEF Handled, Statuses
  <2>5. CASE WriteFails(task[j].home)
    BY <1>f, <2>1, <2>5 DEF GoesTo
  <2> QED
    BY <1>3, <2>3, <2>4, <2>5 DEF Finish
<1>4. ASSUME NEW p \in Processes, NEW j \in Jobs, Poll(p, j) PROVE Held(k) \/ Moved(k)
  BY <1>4 DEF Poll, Stored
<1>5. ASSUME NEW p \in Processes, NEW expired \in SUBSET Jobs, Restart(p, expired)
      PROVE  Held(k) \/ Moved(k)
  <2>1. task'[k].home = task[k].home /\ durable' = durable
    BY <1>0, <1>5, RestartEffect DEF Restart
  <2>2. task[k].home \in Processes => Row(k)' = Row(k) \/ Row(k)' = "none"
    BY <1>0, <1>5, RestartEffect
  <2>3. CASE task[k].home = NoProcess
    BY <2>1, <2>3 DEF Stored
  <2>4. CASE task[k].home \in Processes
    <3>1. Stored(k) = IF Row(k) = "none" THEN "lost" ELSE Row(k)
      BY <1>0, <2>4, StoredIsRow
    <3>2. Stored(k)' = IF Row(k)' = "none" THEN "lost" ELSE Row(k)'
      BY <2>1, <2>4, JobsAssumption DEF Stored, Row
    <3>3. Row(k) \in Statuses
      BY <1>0, <2>4 DEF Row, TypeOK, Rows
    <3> QED
      BY <1>m, <2>2, <2>4, <3>1, <3>2, <3>3 DEF Statuses
  <2> QED
    BY <1>0, <2>3, <2>4, StoredIsRow
<1>6. CASE UNCHANGED vars
  BY <1>6 DEF vars, Stored
<1> QED
  BY <1>1, <1>2, <1>3, <1>4, <1>5, <1>6 DEF Next

\* Both stores implement the life cycle of a job that POST /qa/async promises.
THEOREM JobsImplementLifecycle == Spec => ImplementsLifecycle
<1>1. Init => Lifecycle!Init
  BY DEF Init, Lifecycle!Init, Stored
<1>2. ASSUME Inv, Inv', [Next]_vars
      PROVE  [Lifecycle!Next]_([j \in Jobs |-> Stored(j)])
  <2>1. \A k \in Jobs : Stored(k)' = Stored(k) \/ <<Stored(k), Stored(k)'>> \in Lifecycle!Moves
    BY <1>2, StoredMoves DEF Held, Moved
  <2>2. \A k \in Jobs : Stored(k)' \in {"new", "queued", "running", "done", "error", "lost"}
    BY <1>2, JobsAssumption DEF Inv, TypeOK, Stored, Rows, Statuses, Task
  <2> QED
    BY <2>1, <2>2 DEF Lifecycle!Next, Lifecycle!Statuses
<1> QED
  BY <1>1, <1>2, JobsInvariant, PTL DEF Spec, ImplementsLifecycle, Lifecycle!Spec

-----------------------------------------------------------------------------
\* A client never sees its job go back, unless a connection is frozen.
THEOREM JobsPollsMoveForward == Spec => PollsMoveForward
<1>1. ASSUME Inv, [Next]_vars PROVE [Frozen \/ NeverBack]_seen
  <2> SUFFICES ASSUME seen' # seen, ~Frozen PROVE NeverBack
    OBVIOUS
  <2>0. TypeOK /\ Tasks /\ Views
    BY <1>1 DEF Inv
  <2>r. \A s \in Statuses \cup {"refused", "notfound"} : Rank(s) \in 0 .. 3
    BY RankOrder DEF Statuses
  <2>s. \A j \in Jobs : Rank(seen[j]) \in 0 .. 3
    BY <2>0, <2>r DEF TypeOK
  <2>1. ASSUME NEW p \in Processes, NEW j \in Jobs, Submit(p, j) PROVE NeverBack
    <3>1. Rank(seen[j]) = 0
      BY <2>0, <2>1, RankOrder DEF Submit, Tasks
    <3>2. \A k \in Jobs : seen'[k] = seen[k] \/ (k = j /\ seen'[k] \in {"queued", "refused"})
      BY <2>0, <2>1 DEF Submit, TypeOK
    <3> QED
      BY <2>s, <3>1, <3>2, RankOrder DEF NeverBack
  <2>2. ASSUME NEW p \in Processes, NEW j \in Jobs, Poll(p, j) PROVE NeverBack
    <3>1. seen[j] \in Polling /\ task[j].home \in Processes
          /\ Rank(seen[j]) <= RowRank(Row(j))
      BY <2>0, <2>2 DEF Poll, Views
    <3>2. Visible(p)[j] = Row(j)
      BY <2>2 DEF Poll, Visible, Row, Frozen
    <3>3. \A k \in Jobs : seen'[k] =
            IF k = j THEN IF Row(j) = "none" THEN "notfound" ELSE Row(j) ELSE seen[k]
      BY <2>0, <2>2, <3>2 DEF Poll, TypeOK
    <3>4. Rank(seen'[j]) = RowRank(Row(j))
      BY <3>3, RankOrder DEF RowRank
    <3> QED
      BY <2>s, <3>1, <3>3, <3>4 DEF NeverBack
  <2>3. ASSUME NEW j \in Jobs, Begin(j) PROVE FALSE
    BY <2>3 DEF Begin, GoesTo
  <2>4. ASSUME NEW j \in Jobs, Finish(j) PROVE FALSE
    BY <2>4 DEF Finish, GoesTo
  <2>5. ASSUME NEW p \in Processes, NEW expired \in SUBSET Jobs, Restart(p, expired)
        PROVE  FALSE
    BY <2>5 DEF Restart
  <2>6. CASE UNCHANGED vars
    BY <2>6 DEF vars
  <2> QED
    BY <1>1, <2>1, <2>2, <2>3, <2>4, <2>5, <2>6 DEF Next
<1> QED
  BY <1>1, JobsInvariant, PTL DEF Spec, PollsMoveForward

-----------------------------------------------------------------------------
Ends == {"done", "error"}

\* A client that was told that its job is done, or in error, was told the truth for
\* good: the task is over, and the store has that status of the job, or has lost it.
\* No process will ever tell it, or anyone who asks again, the other end.
ToldIsStored ==
    \A j \in Jobs :
        seen[j] \in Ends => task[j].pc = "over" /\ Stored(j) \in {seen[j], "lost"}

\* Nothing is in the file of a job that was never taken, and neither a client nor
\* a snapshot that a connection still reads has an end that is not the stored one.
ToldInv ==
    /\ \A j \in Jobs : task[j].home = NoProcess => db[j] = "none"
    /\ \A j \in Jobs : seen[j] \in Ends => Stored(j) \in {seen[j], "lost"}
    /\ \A p \in Processes, j \in Jobs :
         conn[p].snapshot[j] \in Ends => Stored(j) \in {conn[p].snapshot[j], "lost"}

\* A job that has ended stays as it ended, until it is lost.
LEMMA EndKept ==
    ASSUME Inv, [Next]_vars, NEW j \in Jobs, NEW s \in Ends, Stored(j) \in {s, "lost"}
    PROVE  Stored(j)' \in {s, "lost"}
<1>1. Stored(j)' = Stored(j) \/ <<Stored(j), Stored(j)'>> \in Lifecycle!Moves
  BY StoredMoves DEF Held, Moved
<1> QED
  BY <1>1 DEF Lifecycle!Moves, Ends

\* Only a job that has a process gets a row in the file.
LEMMA HomelessKept ==
    ASSUME Inv, [Next]_vars, \A j \in Jobs : task[j].home = NoProcess => db[j] = "none",
           NEW k \in Jobs, task'[k].home = NoProcess
    PROVE  db'[k] = "none"
<1>0. /\ TypeOK /\ Tasks /\ NoProcess \notin Processes /\ db \in Rows
      /\ \A j \in Jobs : task[j].home = NoProcess => db[j] = "none"
  BY JobsAssumption DEF Inv, TypeOK
<1>w. ASSUME NEW p, NEW j \in Jobs, NEW s, Write(p, j, s), j # k, db[k] = "none"
      PROVE  db'[k] = "none"
  BY <1>0, <1>w DEF Write, Rows
<1>1. ASSUME NEW p \in Processes, NEW j \in Jobs, Submit(p, j) PROVE db'[k] = "none"
  <2>1. CASE Write(p, j, "queued") /\ task' = [task EXCEPT ![j] = [pc |-> "created", home |-> p]]
    <3>1. j # k /\ task'[k] = task[k]
      BY <1>0, <2>1 DEF TypeOK
    <3> QED
      BY <1>0, <1>w, <2>1, <3>1
  <2>2. CASE WriteFails(p) /\ task' = [task EXCEPT ![j].pc = "over"]
    BY <1>0, <2>2 DEF WriteFails, TypeOK, Task
  <2> QED
    BY <1>1, <2>1, <2>2 DEF Submit
<1>2. ASSUME NEW j \in Jobs, NEW pc, GoesTo(j, pc), task[j].home \in Processes,
             (\E s : Write(task[j].home, j, s)) \/ WriteFails(task[j].home)
      PROVE  db'[k] = "none"
  <2>1. task'[k].home = task[k].home /\ j # k
    BY <1>0, <1>2 DEF GoesTo, TypeOK, Task
  <2>2. db[k] = "none"
    BY <1>0, <2>1
  <2> QED
    BY <1>2, <1>w, <2>1, <2>2 DEF WriteFails
<1>3. ASSUME NEW j \in Jobs, Begin(j) PROVE db'[k] = "none"
  <2>1. task[j].home \in Processes
    BY <1>0, <1>3 DEF Begin, Tasks
  <2> QED
    BY <1>2, <1>3, <2>1 DEF Begin
<1>4. ASSUME NEW j \in Jobs, Finish(j) PROVE db'[k] = "none"
  <2>1. task[j].home \in Processes
    BY <1>0, <1>4 DEF Finish, Tasks
  <2> QED
    BY <1>2, <1>4, <2>1 DEF Finish
<1>5. ASSUME NEW p \in Processes, NEW j \in Jobs, Poll(p, j) PROVE db'[k] = "none"
  BY <1>0, <1>5 DEF Poll
<1>6. ASSUME NEW p \in Processes, NEW expired \in SUBSET Jobs, Restart(p, expired)
      PROVE  db'[k] = "none"
  <2>1. task'[k].home = task[k].home
    BY <1>0, <1>6, RestartEffect
  <2>2. db'[k] = IF k \in expired THEN "none" ELSE db[k]
    BY <1>6 DEF Restart, Surviving
  <2> QED
    BY <1>0, <2>1, <2>2
<1>7. CASE UNCHANGED vars
  BY <1>0, <1>7 DEF vars
<1> QED
  BY <1>1, <1>3, <1>4, <1>5, <1>6, <1>7 DEF Next

\* An end that a process reads, in its own memory, in the file or in a snapshot
\* of the file, is the stored one.
LEMMA VisibleEnd ==
    ASSUME Inv, ToldInv, NEW p \in Processes, NEW j \in Jobs,
           durable \/ p = task[j].home, Visible(p)[j] \in Ends
    PROVE  Stored(j) \in {Visible(p)[j], "lost"}
<1>1. TypeOK /\ NoProcess \notin Processes
  BY JobsAssumption DEF Inv
<1>2. CASE durable /\ conn[p].state = "reading"
  BY <1>2 DEF ToldInv, Visible
<1>3. CASE durable /\ conn[p].state # "reading"
  BY <1>1, <1>3, StoredIsRow DEF ToldInv, Visible, Row, Ends
<1>4. CASE ~durable
  BY <1>1, <1>4, StoredIsRow DEF Visible, Row, Ends
<1> QED
  BY <1>2, <1>3, <1>4

LEMMA ToldStep == Inv /\ ToldInv /\ [Next]_vars => ToldInv'
<1> SUFFICES ASSUME Inv, ToldInv, [Next]_vars PROVE ToldInv'
  OBVIOUS
<1>0. TypeOK /\ Tasks
  BY DEF Inv
<1>1. \A j \in Jobs : task'[j].home = NoProcess => db'[j] = "none"
  BY HomelessKept DEF ToldInv
<1>2. ASSUME NEW j \in Jobs, seen'[j] \in Ends PROVE Stored(j)' \in {seen'[j], "lost"}
  <2>1. CASE seen'[j] = seen[j]
    BY <1>2, <2>1, EndKept DEF ToldInv
  <2>2. CASE seen'[j] # seen[j]
    <3>1. ASSUME NEW p \in Processes, NEW i \in Jobs, Submit(p, i) PROVE FALSE
      <4>1. seen'[j] = seen[j] \/ seen'[j] \in {"queued", "refused"}
        BY <1>0, <3>1 DEF Submit, TypeOK
      <4> QED
        BY <1>2, <2>2, <4>1 DEF Ends
    <3>2. PICK p \in Processes, i \in Jobs : Poll(p, i)
      BY <2>2, <3>1 DEF Next, Begin, Finish, GoesTo, Restart, vars
    <3>3. i = j /\ seen'[j] = IF Visible(p)[j] = "none" THEN "notfound" ELSE Visible(p)[j]
      BY <1>0, <2>2, <3>2 DEF Poll, TypeOK
    <3>4. Visible(p)[j] \in Ends /\ seen'[j] = Visible(p)[j]
      BY <1>2, <3>3 DEF Ends
    <3>5. Stored(j) \in {seen'[j], "lost"}
      BY <3>2, <3>3, <3>4, VisibleEnd DEF Poll
    <3> QED
      BY <1>2, <3>5, EndKept
  <2> QED
    BY <2>1, <2>2
<1>3. ASSUME NEW p \in Processes, NEW j \in Jobs, conn'[p].snapshot[j] \in Ends
      PROVE  Stored(j)' \in {conn'[p].snapshot[j], "lost"}
  <2>1. CASE conn'[p].snapshot = conn[p].snapshot
    BY <1>3, <2>1, EndKept DEF ToldInv
  <2>2. CASE conn'[p] = Closed
    BY <1>3, <2>2 DEF Closed, NoRows, Ends
  <2>3. CASE durable /\ conn'[p] = [state |-> "reading", snapshot |-> db]
    <3>1. conn'[p].snapshot[j] = db[j] /\ db[j] \in Ends
      BY <1>3, <2>3
    <3>2. Stored(j) = db[j]
      BY <1>0, <2>3, <3>1, StoredIsRow DEF ToldInv, Row, Ends
    <3> QED
      BY <3>1, <3>2, EndKept
  <2>4. \/ conn'[p].snapshot = conn[p].snapshot
        \/ conn'[p] = Closed
        \/ durable /\ conn'[p] = [state |-> "reading", snapshot |-> db]
    <3>1. ASSUME NEW q \in Processes, NEW i \in Jobs, NEW s, Write(q, i, s)
          PROVE  conn'[p] = conn[p] \/ conn'[p] = Closed
      BY <1>0, <3>1 DEF Write, TypeOK
    <3>2. ASSUME NEW q \in Processes, WriteFails(q) PROVE conn'[p].snapshot = conn[p].snapshot
      BY <1>0, <3>2, WriteFailsEffect
    <3>3. ASSUME NEW q \in Processes, NEW i \in Jobs, Poll(q, i)
          PROVE  \/ conn'[p] = conn[p]
                 \/ durable /\ conn'[p] = [state |-> "reading", snapshot |-> db]
      <4>1. conn' = [conn EXCEPT ![q] = IF durable THEN AfterRead(conn[q]) ELSE conn[q]]
        BY <3>3 DEF Poll
      <4>2. conn'[p] = conn[p] \/ (conn'[p] = AfterRead(conn[p]) /\ durable)
        BY <1>0, <4>1 DEF TypeOK
      <4> QED
        BY <4>2 DEF AfterRead
    <3>4. ASSUME NEW q \in Processes, NEW expired \in SUBSET Jobs, Restart(q, expired)
          PROVE  conn'[p] = conn[p] \/ conn'[p] = Closed
      BY <1>0, <3>4 DEF Restart, TypeOK
    <3>5. ASSUME NEW i \in Jobs, Begin(i) \/ Finish(i)
          PROVE  conn'[p].snapshot = conn[p].snapshot \/ conn'[p] = Closed
      <4>1. task[i].home \in Processes
        BY <1>0, <3>5 DEF Begin, Finish, Tasks
      <4> QED
        BY <3>1, <3>2, <3>5, <4>1 DEF Begin, Finish
    <3>6. ASSUME NEW q \in Processes, NEW i \in Jobs, Submit(q, i)
          PROVE  conn'[p].snapshot = conn[p].snapshot \/ conn'[p] = Closed
      BY <3>1, <3>2, <3>6 DEF Submit
    <3>7. CASE UNCHANGED vars
      <4>1. conn'[p] = conn[p]
        BY <3>7 DEF vars
      <4> QED
        BY <4>1
    <3> QED
      BY <3>3, <3>4, <3>5, <3>6, <3>7 DEF Next
  <2> QED
    BY <2>1, <2>2, <2>3, <2>4
<1> QED
  BY <1>1, <1>2, <1>3 DEF ToldInv

\* What GET /qa/jobs/{id} says of an end is what the store keeps, whichever process
\* answers, from the file or from an old snapshot of it, before and after restarts.
THEOREM JobsToldIsStored == Spec => []ToldIsStored
<1>1. Init => ToldInv
  BY DEF Init, ToldInv, NoRows, Closed, Ends
<1>2. ASSUME Inv, ToldInv PROVE ToldIsStored
  <2> SUFFICES ASSUME NEW j \in Jobs, seen[j] \in Ends
               PROVE  task[j].pc = "over" /\ Stored(j) \in {seen[j], "lost"}
    BY DEF ToldIsStored
  <2>1. Stored(j) \in {seen[j], "lost"}
    BY <1>2 DEF ToldInv
  <2>2. Stored(j) \in {"done", "error", "lost"} /\ TypeOK /\ Tasks
    BY <1>2, <2>1 DEF Inv, Ends
  <2>3. task[j].pc \in {"new", "created", "pipeline", "over"}
    BY <2>2 DEF TypeOK, Task
  <2>4. task[j].pc # "new" /\ task[j].pc # "created" /\ task[j].pc # "pipeline"
    BY <2>2, StoredIsRow DEF Tasks
  <2> QED
    BY <2>1, <2>3, <2>4
<1> QED
  BY <1>1, <1>2, ToldStep, JobsInvariant, PTL DEF Spec

-----------------------------------------------------------------------------
AllClosed == \A p \in Processes : conn[p].state = "closed"

LEMMA ClosedKept ==
    ASSUME "busy" \notin Faults, TypeOK, AllClosed, [Next]_vars
    PROVE  AllClosed'
<1>1. \A p \in Processes : ~WriteFails(p)
  BY DEF AllClosed, WriteFails, CanWrite
<1>2. ASSUME NEW q \in Processes, NEW j, NEW s, Write(q, j, s) PROVE AllClosed'
  BY <1>2 DEF Write, AllClosed, TypeOK, Closed
<1>3. ASSUME NEW q \in Processes, NEW j \in Jobs, Poll(q, j) PROVE AllClosed'
  <2>1. conn' = [conn EXCEPT ![q] = IF durable THEN AfterRead(conn[q]) ELSE conn[q]]
    BY <1>3 DEF Poll
  <2>2. AfterRead(conn[q]) = conn[q]
    BY DEF AfterRead, AllClosed
  <2> QED
    BY <2>1, <2>2 DEF AllClosed, TypeOK
<1>4. ASSUME NEW q \in Processes, NEW expired \in SUBSET Jobs, Restart(q, expired)
      PROVE  AllClosed'
  BY <1>4 DEF Restart, AllClosed, TypeOK, Closed
<1>5. ASSUME NEW q \in Processes, NEW j \in Jobs, Submit(q, j) PROVE AllClosed'
  BY <1>1, <1>2, <1>5 DEF Submit
<1>6. ASSUME NEW q, NEW j \in Jobs, (\E s : Write(q, j, s)) \/ WriteFails(q) PROVE AllClosed'
  BY <1>6 DEF Write, WriteFails, AllClosed, TypeOK, Closed, CanWrite
<1>7. CASE UNCHANGED vars
  BY <1>7 DEF vars, AllClosed
<1> QED
  BY <1>3, <1>4, <1>5, <1>6, <1>7 DEF Next, Begin, Finish

\* Where no lock of the database times out, no connection is ever left in its
\* transaction, whatever restarts: the defect is reached by a locked database only.
THEOREM JobsFrozenByLocks == "busy" \notin Faults => (Spec => []~Frozen)
<1> SUFFICES ASSUME "busy" \notin Faults PROVE Spec => []~Frozen
  OBVIOUS
<1>1. Init => AllClosed
  BY DEF Init, AllClosed, Closed
<1>2. TypeOK /\ AllClosed /\ [Next]_vars => AllClosed'
  BY ClosedKept
<1>3. AllClosed => ~Frozen
  BY DEF AllClosed, Frozen
<1> QED
  BY <1>1, <1>2, <1>3, JobsTypeCorrect, PTL DEF Spec

\* Then a client never sees its job go back, without an exception.
THEOREM JobsNeverBack == "busy" \notin Faults => (Spec => [][NeverBack]_seen)
<1> SUFFICES ASSUME "busy" \notin Faults PROVE Spec => [][NeverBack]_seen
  OBVIOUS
<1> QED
  BY JobsFrozenByLocks, JobsPollsMoveForward, PTL DEF PollsMoveForward

-----------------------------------------------------------------------------
\* A task that is over has stored how it ended.
EveryEndStored == \A j \in Jobs : task[j].pc = "over" => Stored(j) \in Ends

LEMMA WriteEnds ==
    ASSUME Inv, EveryEndStored, NEW j \in Jobs, NEW t \in Task, t.home \in Processes,
           NEW s \in Statuses \ {"none"}, Write(t.home, j, s), t.pc = "over" => s \in Ends,
           task' = [task EXCEPT ![j] = t], durable' = durable
    PROVE  EveryEndStored'
<1>1. Stored(j)' = s /\ \A k \in Jobs \ {j} : Stored(k)' = Stored(k)
  BY WriteStored
<1>2. task'[j] = t /\ \A k \in Jobs \ {j} : task'[k] = task[k]
  BY DEF Inv, TypeOK
<1> QED
  BY <1>1, <1>2 DEF EveryEndStored

\* Without a crash and without a lock that times out, no job is abandoned: every
\* task that is over has stored how it ended, in either store, for its client to be
\* told. What keeps a client polling for ever needs one of the two.
THEOREM JobsStoreTheirEnd == Faults = {} => (Spec => []EveryEndStored)
<1> SUFFICES ASSUME Faults = {} PROVE Spec => []EveryEndStored
  OBVIOUS
<1>1. Init => AllClosed /\ EveryEndStored
  BY DEF Init, AllClosed, Closed, EveryEndStored
<1>2. ASSUME Inv, AllClosed, EveryEndStored, [Next]_vars PROVE AllClosed' /\ EveryEndStored'
  <2>0. TypeOK /\ Tasks
    BY <1>2 DEF Inv
  <2>1. AllClosed'
    BY <1>2, <2>0, ClosedKept
  <2>2. \A p \in Processes : ~WriteFails(p)
    BY <1>2 DEF AllClosed, WriteFails, CanWrite
  <2>3. ASSUME NEW p \in Processes, NEW j \in Jobs, Submit(p, j) PROVE EveryEndStored'
    <3> DEFINE t == [pc |-> "created", home |-> p]
    <3>1. t \in Task /\ t.home = p /\ t.pc # "over"
      BY DEF Task
    <3>2. durable' = durable /\ task' = [task EXCEPT ![j] = t] /\ Write(t.home, j, "queued")
      BY <2>2, <2>3 DEF Submit
    <3> HIDE DEF t
    <3> QED
      BY <1>2, <3>1, <3>2, WriteEnds DEF Statuses
  <2>w. ASSUME NEW j \in Jobs, NEW pc \in {"pipeline", "over"}, GoesTo(j, pc),
               NEW s \in Statuses \ {"none"}, Write(task[j].home, j, s),
               task[j].home \in Processes, pc = "over" => s \in Ends
        PROVE  EveryEndStored'
    <3> DEFINE t == [pc |-> pc, home |-> task[j].home]
    <3>1. t \in Task /\ t.pc = pc /\ t.home = task[j].home /\ task' = [task EXCEPT ![j] = t]
      BY <2>0, <2>w, TaskAt
    <3>2. durable' = durable
      BY <2>w DEF GoesTo
    <3> HIDE DEF t
    <3> QED
      BY <1>2, <2>w, <3>1, <3>2, WriteEnds
  <2>4. ASSUME NEW j \in Jobs, Begin(j) PROVE EveryEndStored'
    <3>1. task[j].home \in Processes
      BY <2>0, <2>4 DEF Begin, Tasks
    <3>2. Write(task[j].home, j, "running") /\ GoesTo(j, "pipeline")
      BY <2>2, <2>4, <3>1 DEF Begin, Begun
    <3> QED
      BY <2>w, <3>1, <3>2 DEF Statuses
  <2>5. ASSUME NEW j \in Jobs, Finish(j) PROVE EveryEndStored'
    <3>1. task[j].home \in Processes /\ GoesTo(j, "over")
      BY <2>0, <2>5 DEF Finish, Tasks
    <3>2. CASE Write(task[j].home, j, "done")
      BY <2>w, <3>1, <3>2 DEF Statuses, Ends
    <3>3. CASE Write(task[j].home, j, Handled(j))
      BY <2>w, <3>1, <3>3 DEF Statuses, Ends, Handled
    <3> QED
      BY <2>2, <2>5, <3>1, <3>2, <3>3 DEF Finish
  <2>6. ASSUME NEW p \in Processes, NEW j \in Jobs, Poll(p, j) PROVE EveryEndStored'
    BY <1>2, <2>6 DEF Poll, EveryEndStored, Stored
  <2>7. ASSUME NEW p \in Processes, NEW expired \in SUBSET Jobs, Restart(p, expired)
        PROVE  EveryEndStored'
    BY <2>7 DEF Restart
  <2>8. CASE UNCHANGED vars
    <3>1. UNCHANGED <<task, durable, db, memory>>
      BY <2>8 DEF vars
    <3>2. \A k \in Jobs : Stored(k)' = Stored(k)
      BY <3>1 DEF Stored
    <3> QED
      BY <1>2, <2>1, <3>1, <3>2 DEF EveryEndStored
  <2> QED
    BY <1>2, <2>1, <2>3, <2>4, <2>5, <2>6, <2>7, <2>8 DEF Next
<1> QED
  BY <1>1, <1>2, JobsInvariant, PTL DEF Spec

=============================================================================
