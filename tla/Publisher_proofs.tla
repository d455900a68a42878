-------------------------- MODULE Publisher_proofs --------------------------
(* Proofs about Publisher for every set of builds, configurations, servers  *)
(* and administrators, and every interleaving of their statements, crashes, *)
(* broken sessions, answers of the cloud and reconfigurations.              *)
(*                                                                          *)
(* The argument.  Every action is one of a few kinds of step (Steps): a     *)
(* call ends, a worker goes on, a recovery goes on, a build is queued, or   *)
(* the surroundings move.  Only the holder of the lock changes a row        *)
(* (RowMoves), and what it has read of it is still so, although a process   *)
(* that lost its session may run on.  From this shape follow, one after the *)
(* other: one creation request per build, the frozen target, results that   *)
(* hold, one build at a time, and failures that stay off the site.          *)
EXTENDS Publisher, TLAPS

\* A process that works on a task: it took the lock, and may have lost it.
Busy(p) == procs[p].pc \notin {"idle", "looked"}

\* The deployment a row or a process names is one that Pages has.
Bound(task) ==
  /\ task.deployment # None => cloud[task.deployment] # "absent"
  /\ task.phase = "deployed" => task.deployment # None

\* A build has a target, and a deployment from "deployed" on.
RowOK(key) ==
  /\ tasks[key] \in Task
  /\ tasks[key].phase # "none" => tasks[key].target \in Targets
  /\ tasks[key].phase \in {"none", "queued", "building", "submitting"} => tasks[key].deployment = None
  /\ Bound(tasks[key])

\* The phase a process has read or written, by the step it takes next.
PhaseRead(p) ==
  /\ procs[p].task.phase \in ActivePhases
  /\ procs[p].pc = "build" => procs[p].task.phase = "building"
  /\ procs[p].pc \in {"deploy", "await", "resolve"} => procs[p].task.phase = "submitting"
  /\ procs[p].pc = "polled" => procs[p].task.phase = "deployed" /\ procs[p].seen # "none"

\* The holder of the lock knows its row as it is: nobody else writes it.
RowRead(p) ==
  LET task == procs[p].task
      row == tasks[procs[p].key]
  IN
  /\ task.phase = row.phase /\ task.target = row.target /\ task.error = row.error
  /\ procs[p].pc # "resolve" => task.deployment = row.deployment

ProcOK(p) ==
  /\ procs[p] \in Proc
  /\ procs[p].pc # "idle" => procs[p].key \in Keys
  /\ p \in Workers => procs[p].pc \notin {"looked", "resolve"}
  /\ p \in Operators => procs[p].pc \in {"idle", "looked", "resolve"}
  /\ Bound(procs[p].task)
  /\ Busy(p) => /\ PhaseRead(p)
                /\ tasks[procs[p].key].phase # "none"
                /\ procs[p].task.target = tasks[procs[p].key].target
  /\ lock = p => Busy(p) /\ RowRead(p)

Shape == TypeOK /\ (\A key \in Keys : RowOK(key)) /\ (\A p \in Processes : ProcOK(p))

----------------------------------------------------------------------------
LEMMA IdleType == Idle \in Proc /\ NoTask \in Task /\ Idle.task = NoTask /\ Idle.pc = "idle"
BY DEF Idle, Proc, NoTask, Task, Phases

\* The order of the phases: a row moves forward or stays.
Follows(old, new) ==
  \/ new = old
  \/ old = "queued" /\ new = "building"
  \/ old = "building" /\ new \in {"submitting", "failed"}
  \/ old = "submitting" /\ new \in {"deployed", "failed"}
  \/ old = "deployed" /\ new \in {"succeeded", "failed"}

\* Why a row leaves a phase, when the phase alone does not say it.
Reason(p, row) ==
  LET old == tasks[procs[p].key] IN
  /\ old.phase = "deployed" /\ row.phase # "deployed" => procs[p].pc = "polled" /\ procs[p].seen = row.phase
  /\ old.phase = "submitting" /\ row.phase = "submitting" => row.error
  /\ old.phase = "submitting" /\ row.phase = "failed" =>
       \/ procs[p].pc = "deploy"
       \/ procs[p].pc = "resolve" /\ procs[p].task.deployment = None
  /\ old.phase = "submitting" /\ row.phase = "deployed" =>
       row.deployment = procs[p].key \/ \A key \in Keys : tasks[key].deployment # row.deployment

\* What the process that holds the lock may do to its row.
RowMoves(p, row) ==
  LET old == tasks[procs[p].key] IN
  /\ lock = p
  /\ procs[p].key \in Keys
  /\ tasks' = [tasks EXCEPT ![procs[p].key] = row]
  /\ row \in Task
  /\ row.target = old.target
  /\ old.phase \in ActivePhases
  /\ Follows(old.phase, row.phase)
  /\ \/ row.deployment = old.deployment
     \/ /\ old.phase = "submitting" /\ row.phase = "deployed"
        /\ row.deployment \in Keys
  /\ row.deployment # None => cloud[row.deployment] # "absent"
  /\ row.phase = "deployed" => row.deployment # None
  /\ Reason(p, row)

\* A call ends, with or without a last statement.
Ends(p) ==
  /\ Return(p)
  /\ UNCHANGED local
  /\ UNCHANGED tasks \/ \E row \in Task : RowMoves(p, row)

LEMMA PhaseNames ==
  /\ ActivePhases = {"queued", "building", "submitting", "deployed"}
  /\ {"none", "queued", "building", "submitting", "deployed", "succeeded", "failed"} = Phases
BY DEF ActivePhases, Phases

\* The holder of the lock writes a row that follows the one it has read.
LEMMA HolderMoves ==
  ASSUME Shape, NEW w \in Workers, NEW row \in Task, lock = w,
         tasks' = [tasks EXCEPT ![procs[w].key] = row],
         row.target = procs[w].task.target,
         Follows(procs[w].task.phase, row.phase),
         \/ row.deployment = procs[w].task.deployment
         \/ /\ procs[w].task.phase = "submitting" /\ row.phase = "deployed"
            /\ row.deployment \in Keys /\ cloud[row.deployment] # "absent",
         row.phase = "deployed" => row.deployment # None,
         tasks[procs[w].key].phase = procs[w].task.phase => Reason(w, row)
  PROVE  RowMoves(w, row)
<1>1. ProcOK(w)
  BY DEF Shape, Processes
<1>2. /\ Busy(w) /\ PhaseRead(w) /\ RowRead(w) /\ procs[w].pc # "resolve" /\ procs[w].key \in Keys
      /\ procs[w].task.deployment = tasks[procs[w].key].deployment /\ RowOK(procs[w].key)
  BY <1>1 DEF ProcOK, Busy, RowRead, Shape
<1>3. row.deployment # None => cloud[row.deployment] # "absent"
  BY <1>2 DEF RowOK, Bound
<1> QED BY <1>2, <1>3 DEF RowMoves, RowRead, PhaseRead

LEMMA WorkEnds ==
  ASSUME Shape, NEW w \in Workers,
         \/ ReportDrift(w) \/ ReportUncertain(w) \/ FailBuild(w) \/ FailPreparation(w)
         \/ RecordDeployed(w) \/ RecordUncertain(w) \/ PollFails(w) \/ RecordPoll(w)
  PROVE  Ends(w)
<1> DEFINE task == procs[w].task
           key == procs[w].key
<1>1. ProcOK(w) /\ task \in Task
  BY DEF Shape, Processes, ProcOK, Proc
<1>2. lock = w => /\ PhaseRead(w) /\ RowRead(w) /\ key \in Keys
  BY <1>1 DEF ProcOK, Busy
<1>3. Return(w) /\ UNCHANGED local
  BY DEF ReportDrift, ReportUncertain, FailBuild, FailPreparation, RecordDeployed,
         RecordUncertain, PollFails, RecordPoll
<1>4. CASE UNCHANGED tasks
  BY <1>3, <1>4 DEF Ends
<1>5. ASSUME lock = w, tasks' = [tasks EXCEPT ![key] = [task EXCEPT !.error = TRUE]]
      PROVE  \E row \in Task : RowMoves(w, row)
  <2> DEFINE row == [task EXCEPT !.error = TRUE]
  <2>1. row \in Task /\ row.phase = task.phase /\ row.target = task.target /\ row.deployment = task.deployment
    BY <1>1 DEF Task
  <2>2. task.phase = "deployed" => task.deployment # None
    BY <1>1 DEF ProcOK, Bound
  <2> HIDE DEF row
  <2>3. RowMoves(w, row)
    <3>1. tasks' = [tasks EXCEPT ![key] = row] /\ row.error
      BY <1>1, <1>5 DEF row, Task
    <3>2. tasks[key].phase = task.phase => Reason(w, row)
      BY <2>1, <3>1 DEF Reason
    <3> QED BY <1>5, <2>1, <2>2, <3>1, <3>2, HolderMoves DEF Follows
  <2> QED BY <2>1, <2>3
<1>6. CASE ReportDrift(w) \/ PollFails(w) \/ ReportUncertain(w) \/ RecordUncertain(w)
  <2>1. \/ UNCHANGED tasks
        \/ lock = w /\ tasks' = [tasks EXCEPT ![key] = [task EXCEPT !.error = TRUE]]
    BY <1>6 DEF ReportDrift, PollFails, ReportUncertain, RecordUncertain, Update
  <2> QED BY <1>3, <1>4, <1>5, <2>1 DEF Ends
<1>7. CASE FailBuild(w) \/ FailPreparation(w)
  <2> DEFINE row == [task EXCEPT !.phase = "failed", !.error = TRUE]
  <2>1. /\ lock = w /\ tasks' = [tasks EXCEPT ![key] = row]
        /\ \/ tasks[key].phase = "building"
           \/ tasks[key].phase = "submitting" /\ procs[w].pc = "deploy"
    BY <1>7 DEF FailBuild, FailPreparation, Update
  <2>2. row \in Task /\ row.phase = "failed" /\ row.target = task.target /\ row.deployment = task.deployment
    BY <1>1, PhaseNames DEF Task
  <2> HIDE DEF row
  <2>3. RowMoves(w, row)
    BY <1>2, <2>1, <2>2, HolderMoves DEF Follows, RowRead, Reason
  <2> QED BY <1>3, <2>2, <2>3 DEF Ends
<1>8. CASE RecordDeployed(w)
  <2> DEFINE row == [task EXCEPT !.phase = "deployed", !.deployment = key]
  <2>1. /\ lock = w /\ tasks' = [tasks EXCEPT ![key] = row] /\ tasks[key].phase = "submitting"
        /\ cloud[key] # "absent"
    BY <1>8 DEF RecordDeployed, Update
  <2>2. row \in Task /\ row.phase = "deployed" /\ row.target = task.target /\ row.deployment = key
    BY <1>1, <1>2, <2>1, PhaseNames DEF Task
  <2> HIDE DEF row
  <2>3. RowMoves(w, row)
    BY <1>2, <2>1, <2>2, HolderMoves, PublisherAssumption DEF Follows, RowRead, Reason
  <2> QED BY <1>3, <2>2, <2>3 DEF Ends
<1>9. CASE RecordPoll(w)
  <2> DEFINE seen == procs[w].seen
             row == [task EXCEPT !.phase = PhaseAfter(seen), !.error = (seen = "failed")]
  <2>1. lock = w /\ tasks' = [tasks EXCEPT ![key] = row] /\ tasks[key].phase = "deployed"
        /\ procs[w].pc = "polled"
    BY <1>9 DEF RecordPoll, Update
  <2>2. PhaseAfter(seen) \in {"deployed", "succeeded", "failed"}
    BY <1>1, <1>2, <2>1 DEF PhaseRead, PhaseAfter, ProcOK, Proc
  <2>3. row \in Task /\ row.phase = PhaseAfter(seen) /\ row.target = task.target
        /\ row.deployment = task.deployment
    BY <1>1, <2>2, PhaseNames DEF Task
  <2> HIDE DEF row
  <2>4. task.phase = "deployed" => task.deployment # None
    BY <1>1 DEF ProcOK, Bound
  <2>5. RowMoves(w, row)
    BY <1>2, <2>1, <2>2, <2>3, <2>4, HolderMoves DEF Follows, RowRead, Reason, PhaseAfter
  <2> QED BY <1>3, <2>3, <2>5 DEF Ends
<1> QED BY <1>6, <1>7, <1>8, <1>9

\* The holder of the lock records the next step before it takes it.
Advances(w, pc, row) ==
  /\ RowMoves(w, row)
  /\ procs' = [procs EXCEPT ![w] = [@ EXCEPT !.pc = pc, !.task = row]]
  /\ row.target = procs[w].task.target /\ row.deployment = procs[w].task.deployment
  /\ \/ /\ pc = "build" /\ procs[w].pc = "advance" /\ ~Drifted(w)
        /\ procs[w].task.phase \in {"queued", "building"} /\ row.phase = "building" /\ ~row.error
     \/ /\ pc = "deploy" /\ procs[w].pc = "build"
        /\ tasks[procs[w].key].phase = "building" /\ row.phase = "submitting"
        /\ row.error = procs[w].task.error
  /\ UNCHANGED lock /\ UNCHANGED local

LEMMA WorkAdvances ==
  ASSUME Shape, NEW w \in Workers, StartBuild(w) \/ PrepareDeployment(w)
  PROVE  \E pc \in {"build", "deploy"}, row \in Task : Advances(w, pc, row)
<1> DEFINE task == procs[w].task
<1>1. /\ lock = w /\ procs[w].pc \in {"advance", "build"}
      /\ tasks[procs[w].key].phase \in {"queued", "building"}
      /\ UNCHANGED lock /\ UNCHANGED local
  BY DEF StartBuild, PrepareDeployment, Update
<1>2. task \in Task /\ procs[w] \in Proc /\ RowRead(w) /\ procs[w].key \in Keys
  BY <1>1 DEF Shape, Processes, ProcOK, Proc, Busy
<1>3. procs \in [Processes -> Proc] /\ w \in Processes
  BY DEF Shape, TypeOK, Processes
<1>4. ASSUME NEW pc \in {"build", "deploy"}, NEW row \in Task, Goto(w, pc, row)
      PROVE  procs' = [procs EXCEPT ![w] = [@ EXCEPT !.pc = pc, !.task = row]]
  BY <1>2, <1>3, <1>4 DEF Goto, Proc
<1>5. CASE StartBuild(w)
  <2> DEFINE row == [task EXCEPT !.phase = "building", !.error = FALSE]
  <2>1. /\ tasks' = [tasks EXCEPT ![procs[w].key] = row] /\ Goto(w, "build", row)
        /\ procs[w].pc = "advance" /\ ~Drifted(w) /\ task.phase \in {"queued", "building"}
    BY <1>5 DEF StartBuild, Update
  <2>2. /\ row \in Task /\ row.phase = "building" /\ ~row.error
        /\ row.target = task.target /\ row.deployment = task.deployment
    BY <1>2, PhaseNames DEF Task
  <2> HIDE DEF row
  <2>3. RowMoves(w, row)
    BY <1>1, <2>1, <2>2, HolderMoves DEF Follows, Reason
  <2> QED BY <1>1, <1>4, <2>1, <2>2, <2>3 DEF Advances
<1>6. CASE PrepareDeployment(w)
  <2> DEFINE row == [task EXCEPT !.phase = "submitting"]
  <2>1. /\ tasks' = [tasks EXCEPT ![procs[w].key] = row] /\ Goto(w, "deploy", row)
        /\ procs[w].pc = "build" /\ tasks[procs[w].key].phase = "building"
    BY <1>6 DEF PrepareDeployment, Update
  <2>2. /\ row \in Task /\ row.phase = "submitting" /\ row.error = task.error
        /\ row.target = task.target /\ row.deployment = task.deployment
    BY <1>2, PhaseNames DEF Task
  <2> HIDE DEF row
  <2>3. RowMoves(w, row)
    BY <1>1, <1>2, <2>1, <2>2, HolderMoves DEF Follows, Reason, RowRead
  <2> QED BY <1>1, <1>4, <2>1, <2>2, <2>3 DEF Advances
<1> QED BY <1>5, <1>6

LEMMA RecoveryEnds ==
  ASSUME Shape, NEW o \in Operators, RefuseRecovery(o) \/ Resolve(o) \/ RefuseResolution(o)
  PROVE  Ends(o)
<1> DEFINE task == procs[o].task
           key == procs[o].key
<1>1. ProcOK(o)
  BY DEF Shape, Processes
<1>2. CASE RefuseRecovery(o) \/ RefuseResolution(o)
  BY <1>2 DEF RefuseRecovery, RefuseResolution, Ends
<1>3. CASE Resolve(o)
  <2>1. PICK row : /\ \/ row = [task EXCEPT !.phase = "failed", !.error = TRUE] /\ task.deployment = None
                      \/ row = [task EXCEPT !.phase = "deployed", !.error = FALSE] /\ task.deployment # None
                   /\ tasks' = [tasks EXCEPT ![key] = row]
                   /\ lock = o /\ tasks[key].phase = "submitting" /\ procs[o].pc = "resolve"
                   /\ task.deployment # None => \A k \in Keys : tasks[k].deployment # task.deployment
    BY <1>3 DEF Resolve, Update
  <2>2. /\ task \in Task /\ key \in Keys /\ RowOK(key) /\ RowRead(o)
        /\ task.deployment # None => cloud[task.deployment] # "absent"
    BY <1>1, <2>1 DEF ProcOK, Proc, Busy, Bound, Shape
  <2>3. /\ row \in Task /\ row.target = task.target /\ row.deployment = task.deployment
        /\ row.phase \in {"failed", "deployed"} /\ (row.phase = "deployed" <=> task.deployment # None)
    BY <2>1, <2>2, PhaseNames DEF Task
  <2>4. RowMoves(o, row)
    BY <2>1, <2>2, <2>3, PhaseNames DEF RowMoves, Reason, Follows, RowOK, RowRead, Task
  <2> QED BY <1>3, <2>3, <2>4 DEF Resolve, Ends
<1> QED BY <1>2, <1>3

----------------------------------------------------------------------------
\* A deployment that Pages has stays there.
CloudKept == \A key \in Keys : cloud[key] # "absent" => cloud'[key] # "absent"

\* A step of p writes no row but that of the task it holds the lock for, or
\* one that nobody can be working on.
RowsKept(p) ==
  \A key \in Keys :
    \/ tasks'[key] = tasks[key]
    \/ tasks[key].phase = "none"
    \/ /\ lock = p /\ key = procs[p].key
       /\ tasks'[key].phase # "none" /\ tasks'[key].target = tasks[key].target

LEMMA MovedRows ==
  ASSUME Shape, NEW p \in Processes, CloudKept,
         UNCHANGED tasks \/ \E row \in Task : RowMoves(p, row)
  PROVE  /\ tasks' \in [Keys -> Task]
         /\ \A key \in Keys : RowOK(key)'
         /\ RowsKept(p)
<1>1. tasks \in [Keys -> Task] /\ \A key \in Keys : RowOK(key)
  BY DEF Shape, TypeOK
<1>2. \A key \in Keys : tasks[key].deployment \in Keys \cup {None}
  BY <1>1 DEF Task
<1>3. CASE UNCHANGED tasks
  <2>1. ASSUME NEW key \in Keys PROVE RowOK(key)'
    BY <1>1, <1>2, <1>3 DEF RowOK, Bound, CloudKept
  <2> QED BY <1>1, <1>3, <2>1 DEF RowsKept
<1>4. ASSUME NEW row \in Task, RowMoves(p, row)
      PROVE  tasks' \in [Keys -> Task] /\ (\A key \in Keys : RowOK(key)') /\ RowsKept(p)
  <2>0. PICK mine \in Keys : mine = procs[p].key
    BY <1>4 DEF RowMoves
  <2> DEFINE old == tasks[mine]
  <2>1. /\ lock = p
        /\ tasks'[mine] = row /\ \A key \in Keys : key # mine => tasks'[key] = tasks[key]
        /\ tasks' \in [Keys -> Task]
        /\ RowOK(mine)
    BY <1>1, <1>4, <2>0 DEF RowMoves
  <2>2. /\ row.phase # "none" /\ old.phase # "none" /\ row.target = old.target
        /\ row.phase \in {"queued", "building", "submitting"}
             => row.deployment = old.deployment /\ old.phase \in {"queued", "building", "submitting"}
        /\ row.phase = "deployed" => row.deployment # None
        /\ row.deployment # None => cloud'[row.deployment] # "absent"
    BY <1>4, <2>0, PhaseNames DEF RowMoves, Follows, CloudKept, Task
  <2>3. RowOK(mine)'
    BY <2>1, <2>2 DEF RowOK, Bound
  <2>4. ASSUME NEW key \in Keys, key # mine PROVE RowOK(key)'
    BY <1>1, <1>2, <2>1, <2>4 DEF RowOK, Bound, CloudKept
  <2> QED BY <2>0, <2>1, <2>2, <2>3, <2>4 DEF RowsKept
<1> QED BY <1>3, <1>4

\* What a process knows stays true while others work.
LEMMA OthersKnow ==
  ASSUME Shape, NEW p, NEW q \in Processes, q # p,
         procs'[q] = procs[q], lock' = q => lock = q,
         CloudKept, RowsKept(p)
  PROVE  ProcOK(q)'
<1>1. ProcOK(q) /\ procs[q].task.deployment \in Keys \cup {None}
  BY DEF Shape, ProcOK, Proc, Task
<1>2. Bound(procs[q].task)'
  BY <1>1 DEF ProcOK, Bound, CloudKept
<1>3. ASSUME Busy(q)
      PROVE  /\ tasks'[procs[q].key].phase # "none"
             /\ tasks'[procs[q].key].target = tasks[procs[q].key].target
             /\ lock = q => tasks'[procs[q].key] = tasks[procs[q].key]
  BY <1>1, <1>3 DEF ProcOK, Busy, RowsKept
<1> QED BY <1>1, <1>2, <1>3 DEF ProcOK, Busy, PhaseRead, RowRead

\* A step of one process keeps the shape, if what that process reads is right.
LEMMA ShapeByParts ==
  ASSUME Shape, NEW p \in Processes, NEW proc \in Proc, procs' = [procs EXCEPT ![p] = proc],
         lock' \in {lock, None, p}, lock' = p => lock \in {p, None},
         UNCHANGED tasks \/ \E row \in Task : RowMoves(p, row),
         UNCHANGED <<config, cloud, steady>>,
         flying' \subseteq Keys, calls' \in [Keys -> Nat], builtBy' \in [Keys -> Targets \cup {None}],
         ProcOK(p)'
  PROVE  Shape'
<1>1. CloudKept
  BY DEF CloudKept
<1>2. tasks' \in [Keys -> Task] /\ (\A key \in Keys : RowOK(key)') /\ RowsKept(p)
  BY <1>1, MovedRows
<1>3. procs' \in [Processes -> Proc] /\ \A q \in Processes : q # p => procs'[q] = procs[q]
  BY DEF Shape, TypeOK
<1>4. ASSUME NEW q \in Processes, q # p PROVE ProcOK(q)'
  <2>1. lock' = q => lock = q
    BY <1>4, PublisherAssumption DEF Processes
  <2> QED BY <1>1, <1>2, <1>3, <1>4, <2>1, OthersKnow
<1>5. TypeOK'
  BY <1>2, <1>3 DEF Shape, TypeOK, RowOK
<1> QED BY <1>2, <1>4, <1>5 DEF Shape

LEMMA EndsKeepsShape ==
  ASSUME Shape, NEW p \in Processes, Ends(p)
  PROVE  Shape'
<1>1. /\ procs' = [procs EXCEPT ![p] = Idle] /\ lock' = IF lock = p THEN None ELSE lock
      /\ UNCHANGED <<config, cloud, flying, calls, builtBy, steady>>
      /\ UNCHANGED tasks \/ \E row \in Task : RowMoves(p, row)
  BY DEF Ends, Return, local
<1>2. procs'[p] = Idle /\ lock' # p
  BY <1>1, PublisherAssumption DEF Shape, TypeOK, Processes
<1>3. ProcOK(p)'
  BY <1>2, IdleType DEF ProcOK, Busy, Bound, NoTask
<1>4. flying' \subseteq Keys /\ calls' \in [Keys -> Nat] /\ builtBy' \in [Keys -> Targets \cup {None}]
  BY <1>1 DEF Shape, TypeOK
<1> QED BY <1>1, <1>3, <1>4, IdleType, ShapeByParts

\* Steps in which no process moves: a row is queued, Pages or a session changes.
LEMMA ShapeOutside ==
  ASSUME Shape, UNCHANGED procs, lock' \in {lock, None}, CloudKept, RowsKept(None),
         tasks' \in [Keys -> Task], \A key \in Keys : RowOK(key)',
         config' \in [Workers -> Targets], steady' \in BOOLEAN, flying' \subseteq Keys,
         cloud' \in [Keys -> {"absent", "building", "succeeded", "failed"}],
         UNCHANGED <<calls, builtBy>>
  PROVE  Shape'
<1>1. ASSUME NEW q \in Processes PROVE ProcOK(q)'
  <2>1. q # None
    BY PublisherAssumption DEF Processes
  <2> QED BY <2>1, OthersKnow
<1>2. TypeOK'
  BY DEF Shape, TypeOK, RowOK
<1> QED BY <1>1, <1>2 DEF Shape

LEMMA ShapeStep == Shape /\ [Next]_vars => Shape'
<1> SUFFICES ASSUME Shape, [Next]_vars PROVE Shape'
  OBVIOUS
<1>0. TypeOK /\ \A p \in Processes : ProcOK(p)
  BY DEF Shape
<1>1. ASSUME NEW key \in Keys, NEW w \in Workers, Enqueue(key, config[w]) PROVE Shape'
  <2> DEFINE row == [NoTask EXCEPT !.phase = "queued", !.target = config[w]]
  <2>1. tasks[key] = NoTask /\ tasks' = [tasks EXCEPT ![key] = row] /\ UNCHANGED <<lock, procs>>
        /\ UNCHANGED <<config, cloud, flying, calls, builtBy, steady>>
    BY <1>1 DEF Enqueue, local
  <2>2. row \in Task /\ row.phase = "queued" /\ row.target \in Targets /\ row.deployment = None
    BY <1>0, PhaseNames DEF NoTask, Task, TypeOK
  <2> HIDE DEF row
  <2>3. \A other \in Keys : tasks'[other] = IF other = key THEN row ELSE tasks[other]
    BY <1>0, <2>1 DEF TypeOK
  <2>4. RowsKept(None) /\ CloudKept
    BY <2>1, <2>3 DEF RowsKept, CloudKept, NoTask
  <2>5. \A other \in Keys : RowOK(other)'
    BY <2>1, <2>2, <2>3 DEF Shape, RowOK, Bound
  <2> QED BY <1>0, <2>1, <2>2, <2>4, <2>5, ShapeOutside DEF TypeOK
<1>2. ASSUME NEW w \in Workers, TakeTask(w) PROVE Shape'
  <2>1. w \in Processes /\ w \notin Operators
    BY PublisherAssumption DEF Processes
  <2>2. PICK key \in Keys : /\ Active(key)
                            /\ procs' = [procs EXCEPT ![w] = [Idle EXCEPT !.pc = "advance", !.key = key,
                                                                          !.task = tasks[key]]]
    BY <1>2 DEF TakeTask
  <2> DEFINE proc == [Idle EXCEPT !.pc = "advance", !.key = key, !.task = tasks[key]]
  <2>3. /\ proc \in Proc /\ proc.pc = "advance" /\ proc.key = key /\ proc.task = tasks[key]
        /\ RowOK(key)
    BY <1>0 DEF Idle, Proc, Shape, RowOK
  <2> HIDE DEF proc
  <2>4. /\ procs' = [procs EXCEPT ![w] = proc] /\ procs'[w] = proc
        /\ lock' = w /\ lock = None /\ UNCHANGED <<tasks, config, cloud, flying, calls, builtBy, steady>>
    BY <1>0, <1>2, <2>1, <2>2 DEF TakeTask, LockFree, local, TypeOK, proc
  <2>5. ProcOK(w)'
    BY <2>1, <2>2, <2>3, <2>4, PhaseNames DEF ProcOK, Busy, Bound, PhaseRead, RowRead, Active, RowOK
  <2> QED BY <1>0, <2>1, <2>3, <2>4, <2>5, ShapeByParts DEF TypeOK
<1>3. ASSUME NEW w \in Workers, NEW pc, NEW row \in Task, Advances(w, pc, row) PROVE Shape'
  <2> DEFINE proc == [procs[w] EXCEPT !.pc = pc, !.task = row]
  <2>1. w \in Processes /\ w \notin Operators /\ RowMoves(w, row) /\ pc \in {"build", "deploy"}
    BY <1>3, PublisherAssumption DEF Processes, Advances
  <2>2. /\ procs[w] \in Proc /\ procs[w].key \in Keys /\ lock = w
        /\ row.target = procs[w].task.target /\ row.deployment = procs[w].task.deployment
        /\ Bound(procs[w].task) /\ row.phase = IF pc = "build" THEN "building" ELSE "submitting"
    BY <1>0, <1>3, <2>1 DEF ProcOK, Advances, RowMoves
  <2>3. proc \in Proc /\ proc.pc = pc /\ proc.task = row /\ proc.key = procs[w].key
    BY <2>1, <2>2 DEF Proc
  <2>4. /\ procs' = [procs EXCEPT ![w] = proc] /\ procs'[w] = proc /\ tasks'[procs[w].key] = row
        /\ UNCHANGED <<lock, config, cloud, flying, calls, builtBy, steady>>
    BY <1>0, <1>3, <2>1, <2>2 DEF TypeOK, Advances, RowMoves, local
  <2> HIDE DEF proc
  <2>5. ProcOK(w)'
    BY <2>1, <2>2, <2>3, <2>4, PhaseNames DEF ProcOK, Busy, Bound, PhaseRead, RowRead
  <2> QED BY <1>0, <2>1, <2>3, <2>4, <2>5, ShapeByParts DEF TypeOK
<1>4. ASSUME NEW w \in Workers, CallCreate(w) PROVE Shape'
  <2> DEFINE proc == [procs[w] EXCEPT !.pc = "await"]
  <2>1. w \in Processes /\ w \notin Operators
    BY PublisherAssumption DEF Processes
  <2>2. ProcOK(w) /\ Busy(w) /\ procs[w].pc = "deploy" /\ procs[w].key \in Keys
    BY <1>0, <1>4, <2>1 DEF CallCreate, ProcOK, Busy
  <2>3. procs' = [procs EXCEPT ![w] = proc] /\ proc \in Proc /\ procs'[w] = proc
    BY <1>0, <1>4, <2>1 DEF CallCreate, Goto, TypeOK, Proc
  <2>4. UNCHANGED <<tasks, lock, config, cloud, steady>>
    BY <1>4 DEF CallCreate
  <2>5. flying' \subseteq Keys /\ calls' \in [Keys -> Nat] /\ builtBy' \in [Keys -> Targets \cup {None}]
    BY <1>0, <1>4, <2>2 DEF CallCreate, TypeOK
  <2>6. ProcOK(w)'
    BY <2>1, <2>2, <2>3, <2>4 DEF ProcOK, Busy, Bound, PhaseRead, RowRead, Proc
  <2> QED BY <2>1, <2>3, <2>4, <2>5, <2>6, ShapeByParts
<1>5. ASSUME NEW w \in Workers, Poll(w) PROVE Shape'
  <2> DEFINE seen == cloud[procs[w].task.deployment]
             proc == [procs[w] EXCEPT !.pc = "polled", !.seen = seen]
  <2>1. w \in Processes /\ w \notin Operators
    BY PublisherAssumption DEF Processes
  <2>2. ProcOK(w) /\ Busy(w) /\ procs[w].pc = "advance" /\ procs[w].task.phase = "deployed"
    BY <1>0, <1>5, <2>1 DEF Poll, ProcOK, Busy
  <2>3. seen \in {"building", "succeeded", "failed"}
    BY <1>0, <2>2 DEF ProcOK, Proc, Task, Bound, TypeOK
  <2>4. procs' = [procs EXCEPT ![w] = proc] /\ proc \in Proc /\ procs'[w] = proc
        /\ proc.pc = "polled" /\ proc.seen = seen /\ proc.task = procs[w].task /\ proc.key = procs[w].key
    BY <1>0, <1>5, <2>1, <2>3 DEF Poll, TypeOK, Proc
  <2>5. UNCHANGED <<tasks, lock, config, cloud, flying, calls, builtBy, steady>>
    BY <1>5 DEF Poll, local
  <2>6. ProcOK(w)'
    BY <2>1, <2>2, <2>3, <2>4, <2>5 DEF ProcOK, Busy, Bound, PhaseRead, RowRead
  <2> QED BY <1>0, <2>1, <2>4, <2>5, <2>6, ShapeByParts DEF TypeOK
<1>6. ASSUME NEW o \in Operators, NEW key \in Keys, NEW deployment \in Keys \cup {None},
             Look(o, key, deployment)
      PROVE Shape'
  <2> DEFINE proc == [Idle EXCEPT !.pc = "looked", !.key = key, !.task.deployment = deployment]
  <2>1. o \in Processes /\ o \notin Workers
    BY PublisherAssumption DEF Processes
  <2>2. /\ proc \in Proc /\ proc.pc = "looked" /\ proc.key = key
        /\ proc.task.deployment = deployment /\ proc.task.phase = "none"
    BY IdleType DEF Idle, Proc, Task, NoTask
  <2>3. deployment # None => cloud[deployment] # "absent"
    BY <1>6 DEF Look, Verified
  <2> HIDE DEF proc
  <2>4. procs' = [procs EXCEPT ![o] = proc] /\ procs'[o] = proc
    BY <1>0, <1>6, <2>1 DEF Look, TypeOK, proc
  <2>5. UNCHANGED <<tasks, lock, config, cloud, flying, calls, builtBy, steady>> /\ procs[o] = Idle
    BY <1>6 DEF Look, local
  <2>6. lock # o
    BY <1>0, <2>1, <2>5, IdleType DEF ProcOK, Busy
  <2>7. ProcOK(o)'
    BY <2>1, <2>2, <2>3, <2>4, <2>5, <2>6 DEF ProcOK, Busy, Bound
  <2> QED BY <1>0, <2>1, <2>2, <2>4, <2>5, <2>7, ShapeByParts DEF TypeOK
<1>7. ASSUME NEW o \in Operators, TakeRecovery(o) PROVE Shape'
  <2> DEFINE key == procs[o].key
             task == [tasks[key] EXCEPT !.deployment = procs[o].task.deployment]
             proc == [procs[o] EXCEPT !.pc = "resolve", !.task = task]
  <2>1. o \in Processes /\ o \notin Workers
    BY PublisherAssumption DEF Processes
  <2>2. /\ ProcOK(o) /\ procs[o].pc = "looked" /\ key \in Keys /\ RowOK(key)
        /\ tasks[key].phase = "submitting"
    BY <1>0, <1>7, <2>1 DEF TakeRecovery, Recoverable, ProcOK, Shape
  <2>3. /\ task \in Task /\ task.phase = "submitting" /\ task.target = tasks[key].target
        /\ task.deployment = procs[o].task.deployment /\ task.error = tasks[key].error
    BY <2>2 DEF ProcOK, RowOK, Proc, Task
  <2> HIDE DEF task
  <2>4. proc \in Proc /\ proc.pc = "resolve" /\ proc.task = task /\ proc.key = key
    BY <2>2, <2>3 DEF ProcOK, Proc
  <2>5. /\ procs' = [procs EXCEPT ![o] = proc] /\ procs'[o] = proc
        /\ lock' = o /\ lock = None /\ UNCHANGED <<tasks, config, cloud, flying, calls, builtBy, steady>>
    BY <1>0, <1>7, <2>1 DEF TakeRecovery, LockFree, local, TypeOK, task
  <2> HIDE DEF proc
  <2>6. ProcOK(o)'
    BY <2>1, <2>2, <2>3, <2>4, <2>5, PhaseNames DEF ProcOK, Busy, Bound, PhaseRead, RowRead
  <2> QED BY <1>0, <2>1, <2>4, <2>5, <2>6, ShapeByParts DEF TypeOK
<1>8. ASSUME NEW p \in Processes, Stop(p) PROVE Shape'
  BY <1>8, EndsKeepsShape DEF Stop, Ends
<1>9. ASSUME NEW p \in Processes, LoseSession(p) PROVE Shape'
  BY <1>0, <1>9, ShapeOutside DEF LoseSession, TypeOK, Shape, RowOK, Bound, RowsKept, CloudKept
<1>10. ASSUME NEW w \in Workers, NEW target \in Targets, Reconfigure(w, target) PROVE Shape'
  BY <1>0, <1>10, ShapeOutside DEF Reconfigure, TypeOK, Shape, RowOK, Bound, RowsKept, CloudKept
<1>11. ASSUME NEW key \in Keys, CreationLands(key) \/ CreationIsLost(key) \/ DeploymentEnds(key)
       PROVE Shape'
  <2>1. UNCHANGED <<tasks, lock, procs, config, calls, builtBy, steady>> /\ flying' \subseteq flying
    BY <1>11 DEF CreationLands, CreationIsLost, DeploymentEnds
  <2>2. /\ cloud' \in [Keys -> {"absent", "building", "succeeded", "failed"}]
        /\ \A k \in Keys : cloud[k] # "absent" => cloud'[k] # "absent"
    BY <1>0, <1>11 DEF CreationLands, CreationIsLost, DeploymentEnds, TypeOK
  <2>3. \A k \in Keys : RowOK(k)'
    BY <1>0, <2>1, <2>2 DEF Shape, RowOK, Bound, Task
  <2> QED BY <1>0, <2>1, <2>2, <2>3, ShapeOutside DEF TypeOK, RowsKept, CloudKept
<1>12. ASSUME NEW w \in Workers, Ends(w) PROVE Shape'
  BY <1>12, EndsKeepsShape DEF Processes
<1>13. ASSUME NEW o \in Operators, Ends(o) PROVE Shape'
  BY <1>13, EndsKeepsShape DEF Processes
<1>14. CASE UNCHANGED vars
  BY <1>0, <1>14, ShapeOutside DEF vars, TypeOK, Shape, RowOK, Bound, RowsKept, CloudKept
<1> QED
  BY <1>1, <1>2, <1>3, <1>4, <1>5, <1>6, <1>7, <1>8, <1>9, <1>10, <1>11, <1>12, <1>13, <1>14,
     WorkEnds, RecoveryEnds, WorkAdvances
     DEF Next, Work, Recover, Environment

LEMMA ShapeInit == Init => Shape
<1> SUFFICES ASSUME Init PROVE Shape
  OBVIOUS
<1>1. NoTask \in Task /\ Bound(NoTask) /\ NoTask.phase = "none" /\ NoTask.deployment = None
  BY IdleType DEF NoTask, Bound
<1>2. \A key \in Keys : tasks[key] = NoTask
  BY DEF Init
<1>3. \A key \in Keys : RowOK(key)
  BY <1>1, <1>2 DEF RowOK
<1>4. \A p \in Processes : procs[p] = Idle /\ lock # p
  BY PublisherAssumption DEF Init, Processes
<1>5. \A p \in Processes : ProcOK(p)
  BY <1>1, <1>4, IdleType DEF ProcOK, Busy
<1>6. TypeOK
  BY <1>1, <1>2, IdleType DEF Init, TypeOK
<1> QED BY <1>3, <1>5, <1>6 DEF Shape

----------------------------------------------------------------------------
\* What a step may be, as far as the rows and the processes are concerned.

WorkGoesOn(w) ==
  \/ TakeTask(w) \/ CallCreate(w) \/ Poll(w)
  \/ \E pc \in {"build", "deploy"}, row \in Task : Advances(w, pc, row)

RecoveryGoesOn(o) ==
  \/ \E key \in Keys, deployment \in Keys \cup {None} : Look(o, key, deployment)
  \/ TakeRecovery(o)

PagesMoves(key) == CreationLands(key) \/ CreationIsLost(key) \/ DeploymentEnds(key)

\* What the worker, administrators and the environment do: all but Enqueue,
\* which is the publish service's.
OwnStep == (\E w \in Workers : Work(w)) \/ (\E o \in Operators : Recover(o)) \/ Environment

LEMMA OwnSteps ==
  ASSUME Shape, OwnStep
  PROVE  \/ \E p \in Processes : Ends(p) \/ LoseSession(p)
         \/ \E w \in Workers : WorkGoesOn(w)
         \/ \E o \in Operators : RecoveryGoesOn(o)
         \/ \E w \in Workers, target \in Targets : Reconfigure(w, target)
         \/ \E key \in Keys : PagesMoves(key)
<1>1. ASSUME NEW w \in Workers, Work(w) PROVE WorkGoesOn(w) \/ Ends(w)
  BY <1>1, WorkEnds, WorkAdvances DEF Work, WorkGoesOn
<1>2. ASSUME NEW o \in Operators, Recover(o) PROVE RecoveryGoesOn(o) \/ Ends(o)
  BY <1>2, RecoveryEnds DEF Recover, RecoveryGoesOn
<1>3. ASSUME NEW p \in Processes, Stop(p) PROVE Ends(p)
  BY <1>3 DEF Stop, Ends
<1> QED BY <1>1, <1>2, <1>3 DEF OwnStep, Environment, PagesMoves, Processes

LEMMA Steps ==
  ASSUME Shape, [Next]_vars
  PROVE  \/ \E p \in Processes : Ends(p) \/ LoseSession(p)
         \/ \E key \in Keys, w \in Workers : Enqueue(key, config[w])
         \/ \E w \in Workers : WorkGoesOn(w)
         \/ \E o \in Operators : RecoveryGoesOn(o)
         \/ \E w \in Workers, target \in Targets : Reconfigure(w, target)
         \/ \E key \in Keys : PagesMoves(key)
         \/ UNCHANGED vars
BY OwnSteps DEF Next, OwnStep

LEMMA Taken ==
  ASSUME Shape, NEW w \in Workers, TakeTask(w) \/ Poll(w)
  PROVE  /\ procs'[w].pc \in {"advance", "polled"}
         /\ \A q \in Processes : q # w => procs'[q] = procs[q]
<1>1. procs \in [Processes -> Proc] /\ w \in Processes
  BY DEF Shape, TypeOK, Processes
<1>2. CASE TakeTask(w)
  BY <1>1, <1>2 DEF TakeTask, Idle
<1>3. CASE Poll(w)
  BY <1>1, <1>3 DEF Poll, Proc
<1> QED BY <1>2, <1>3

\* Whatever a step does, a row stays, is queued, or follows its old phase.
Queued(key) ==
  /\ tasks[key] = NoTask /\ \A other \in Keys : ~Active(other)
  /\ tasks'[key].phase = "queued"
  /\ \E w \in Workers : tasks'[key].target = config[w]

\* A step of the worker itself queues nothing.
LEMMA OwnRowsFollow ==
  ASSUME Shape, OwnStep, NEW key \in Keys, tasks'[key] # tasks[key]
  PROVE  \E p \in Processes, row \in Task :
           RowMoves(p, row) /\ procs[p].key = key /\ tasks'[key] = row
<1>1. tasks \in [Keys -> Task]
  BY DEF Shape, TypeOK
<1>2. ASSUME NEW p \in Processes, NEW row \in Task, RowMoves(p, row)
      PROVE  procs[p].key = key /\ tasks'[key] = row
  BY <1>1, <1>2 DEF RowMoves
<1>3. ASSUME NEW p \in Processes, Ends(p) PROVE \E row \in Task : RowMoves(p, row)
  BY <1>3 DEF Ends
<1>4. ASSUME NEW w \in Workers, WorkGoesOn(w) PROVE \E row \in Task : RowMoves(w, row)
  BY <1>4 DEF WorkGoesOn, TakeTask, CallCreate, Poll, Advances
<1> QED BY <1>2, <1>3, <1>4, OwnSteps
        DEF Processes, LoseSession, RecoveryGoesOn, Look, TakeRecovery, Reconfigure, PagesMoves,
            CreationLands, CreationIsLost, DeploymentEnds

LEMMA RowsFollow ==
  ASSUME Shape, [Next]_vars, NEW key \in Keys, tasks'[key] # tasks[key]
  PROVE  \/ Queued(key)
         \/ /\ tasks[key].phase \in ActivePhases
            /\ Follows(tasks[key].phase, tasks'[key].phase)
            /\ tasks'[key].target = tasks[key].target
<1>1. ASSUME NEW k \in Keys, NEW w \in Workers, Enqueue(k, config[w]) PROVE Queued(key)
  BY <1>1 DEF Shape, TypeOK, Enqueue, NoTask, Queued
<1>2. CASE OwnStep
  BY <1>2, OwnRowsFollow DEF RowMoves
<1> QED BY <1>1, <1>2 DEF Next, OwnStep, vars

----------------------------------------------------------------------------
\* One creation request for each build.

Unsubmitted(key) == tasks[key].phase \in {"none", "queued", "building"}
Deploying(w, key) == procs[w].pc = "deploy" /\ procs[w].key = key

\* Nothing of a build is on Pages or on its way there before its one request;
\* "submitting" is reached before the request is sent and never left backwards,
\* and one worker only goes from there to the request.
AskedOnce ==
  /\ \A key \in Keys :
       /\ calls[key] \in {0, 1}
       /\ calls[key] = 0 => key \notin flying /\ cloud[key] = "absent" /\ builtBy[key] = None
       /\ key \in flying => cloud[key] = "absent"
       /\ Unsubmitted(key) => calls[key] = 0
  /\ \A w \in Workers, key \in Keys : Deploying(w, key) => calls[key] = 0 /\ ~Unsubmitted(key)
  /\ \A w1, w2 \in Workers, key \in Keys : Deploying(w1, key) /\ Deploying(w2, key) => w1 = w2

LEMMA NeverBackwards ==
  ASSUME Shape, [Next]_vars, NEW key \in Keys
  PROVE  Unsubmitted(key)' => Unsubmitted(key)
BY RowsFollow, PhaseNames DEF Unsubmitted, Queued, Follows, NoTask

LEMMA AskedOnceStep == Shape /\ AskedOnce /\ [Next]_vars => AskedOnce'
<1> SUFFICES ASSUME Shape, AskedOnce, [Next]_vars PROVE AskedOnce'
  OBVIOUS
<1>1. /\ procs \in [Processes -> Proc] /\ Workers \subseteq Processes /\ calls \in [Keys -> Nat]
      /\ cloud \in [Keys -> {"absent", "building", "succeeded", "failed"}]
      /\ \A key \in Keys : Unsubmitted(key)' => Unsubmitted(key)
  BY NeverBackwards DEF Shape, TypeOK, Processes
<1>2. ASSUME UNCHANGED <<calls, builtBy>>, flying' \subseteq flying,
             \A key \in Keys : cloud'[key] = cloud[key] \/ (calls[key] # 0 /\ key \notin flying'),
             \A w \in Workers, key \in Keys : Deploying(w, key)' => Deploying(w, key)
      PROVE  AskedOnce'
  BY <1>1, <1>2 DEF AskedOnce
<1>3. ASSUME NEW p \in Processes, Ends(p) \/ LoseSession(p) PROVE AskedOnce'
  <2>1. /\ UNCHANGED <<calls, builtBy, flying, cloud>>
        /\ (procs' = procs \/ procs' = [procs EXCEPT ![p] = Idle])
    BY <1>3 DEF Ends, Return, LoseSession, local
  <2> QED BY <1>1, <1>2, <2>1, IdleType DEF Deploying
<1>4. ASSUME NEW key \in Keys, NEW w \in Workers, Enqueue(key, config[w]) PROVE AskedOnce'
  BY <1>1, <1>2, <1>4 DEF Enqueue, local, Deploying
<1>5. ASSUME NEW w \in Workers, TakeTask(w) \/ Poll(w) PROVE AskedOnce'
  <2>1. UNCHANGED <<calls, builtBy, flying, cloud>>
    BY <1>5 DEF TakeTask, Poll, local
  <2>2. procs'[w].pc \in {"advance", "polled"} /\ \A w1 \in Workers : w1 # w => procs'[w1] = procs[w1]
    BY <1>1, <1>5, Taken
  <2> QED BY <1>1, <1>2, <2>1, <2>2 DEF Deploying
<1>6. ASSUME NEW w \in Workers, NEW pc \in {"build", "deploy"}, NEW row \in Task, Advances(w, pc, row)
      PROVE AskedOnce'
  <2> DEFINE proc == [procs[w] EXCEPT !.pc = pc, !.task = row]
  <2>1. UNCHANGED <<calls, builtBy, flying, cloud>> /\ procs' = [procs EXCEPT ![w] = proc]
    BY <1>6 DEF Advances, local
  <2>2. procs[w] \in Proc /\ proc.pc = pc /\ proc.key = procs[w].key
    BY <1>1 DEF Proc
  <2>3. \A w1 \in Workers : procs'[w1] = IF w1 = w THEN proc ELSE procs[w1]
    BY <1>1, <2>1
  <2> HIDE DEF proc
  <2>4. CASE pc = "build"
    BY <1>2, <2>1, <2>2, <2>3, <2>4 DEF Deploying
  <2>5. CASE pc = "deploy"
    <3>1. PICK key \in Keys : key = procs[w].key
      BY <1>6 DEF Advances, RowMoves
    <3>2. tasks[key].phase = "building" /\ tasks'[key].phase = "submitting"
      BY <1>6, <2>5, <3>1 DEF Advances, RowMoves, Shape, TypeOK
    <3>3. Unsubmitted(key) /\ ~Unsubmitted(key)' /\ calls[key] = 0
      BY <3>2 DEF AskedOnce, Unsubmitted
    <3>4. \A w1 \in Workers, k \in Keys : Deploying(w1, k)' => Deploying(w1, k) \/ (w1 = w /\ k = key)
      BY <2>2, <2>3, <3>1 DEF Deploying
    <3>5. \A w1 \in Workers : ~Deploying(w1, key)
      BY <3>3 DEF AskedOnce
    <3> QED BY <1>1, <2>1, <3>3, <3>4, <3>5 DEF AskedOnce
  <2> QED BY <2>4, <2>5
<1>7. ASSUME NEW w \in Workers, CallCreate(w) PROVE AskedOnce'
  <2>1. ProcOK(w) /\ procs[w].pc = "deploy"
    BY <1>1, <1>7 DEF CallCreate, Shape
  <2>2. PICK key \in Keys : key = procs[w].key
    BY <2>1 DEF ProcOK
  <2>3. /\ flying' = flying \cup {key} /\ calls' = [calls EXCEPT ![key] = @ + 1]
        /\ builtBy' = [builtBy EXCEPT ![key] = config[w]] /\ UNCHANGED <<tasks, cloud>>
        /\ procs' = [procs EXCEPT ![w] = [@ EXCEPT !.pc = "await"]]
    BY <1>1, <1>7, <2>2 DEF CallCreate, Goto, Proc
  <2>4. Deploying(w, key) /\ calls[key] = 0 /\ ~Unsubmitted(key) /\ cloud[key] = "absent"
    BY <2>1, <2>2 DEF AskedOnce, Deploying
  <2>5. \A w1 \in Workers, k \in Keys : Deploying(w1, k)' => Deploying(w1, k) /\ w1 # w
    BY <1>1, <2>3 DEF Deploying, Proc
  <2>6. \A w1 \in Workers : ~Deploying(w1, key)'
    BY <2>4, <2>5 DEF AskedOnce
  <2>7. builtBy \in [Keys -> Targets \cup {None}]
    BY DEF Shape, TypeOK
  <2> QED BY <1>1, <2>3, <2>4, <2>5, <2>6, <2>7 DEF AskedOnce, Unsubmitted
<1>8. ASSUME NEW o \in Operators, RecoveryGoesOn(o) PROVE AskedOnce'
  <2>1. UNCHANGED <<calls, builtBy, flying, cloud>>
    BY <1>8 DEF RecoveryGoesOn, Look, TakeRecovery, local
  <2>2. \A w \in Workers : procs'[w] = procs[w]
    BY <1>1, <1>8, PublisherAssumption DEF RecoveryGoesOn, Look, TakeRecovery
  <2> QED BY <1>2, <2>1, <2>2 DEF Deploying
<1>9. ASSUME NEW w \in Workers, NEW target \in Targets, Reconfigure(w, target) PROVE AskedOnce'
  BY <1>2, <1>9 DEF Reconfigure, Deploying
<1>10. ASSUME NEW key \in Keys, PagesMoves(key) PROVE AskedOnce'
  <2>1. UNCHANGED <<calls, builtBy, procs>> /\ flying' \subseteq flying
    BY <1>10 DEF PagesMoves, CreationLands, CreationIsLost, DeploymentEnds
  <2>2. \A k \in Keys : cloud'[k] = cloud[k] \/ (calls[k] # 0 /\ k \notin flying')
    BY <1>1, <1>10 DEF PagesMoves, CreationLands, CreationIsLost, DeploymentEnds, AskedOnce
  <2> QED BY <1>2, <2>1, <2>2 DEF Deploying
<1>11. CASE UNCHANGED vars
  BY <1>2, <1>11 DEF vars, Deploying
<1> QED BY <1>3, <1>4, <1>5, <1>6, <1>7, <1>8, <1>9, <1>10, <1>11, Steps DEF WorkGoesOn

LEMMA AskedOnceInit == Init => AskedOnce
BY IdleType DEF Init, AskedOnce, Deploying, Processes

----------------------------------------------------------------------------
\* The frozen target.

\* From the comparison with the frozen target to the request, the worker keeps
\* its configuration and the task keeps its target.
BuildsFrozen ==
  /\ BuiltByFrozenTarget
  /\ \A w \in Workers : procs[w].pc \in {"build", "deploy"} => config[w] = procs[w].task.target

LEMMA BuildsFrozenStep == Shape /\ AskedOnce /\ BuildsFrozen /\ [Next]_vars => BuildsFrozen'
<1> SUFFICES ASSUME Shape, AskedOnce, BuildsFrozen, [Next]_vars PROVE BuildsFrozen'
  OBVIOUS
<1>1. /\ procs \in [Processes -> Proc] /\ Workers \subseteq Processes
      /\ config \in [Workers -> Targets] /\ builtBy \in [Keys -> Targets \cup {None}]
  BY DEF Shape, TypeOK, Processes
<1>2. \A key \in Keys : builtBy[key] # None => tasks'[key].target = tasks[key].target
  <2>1. \A key \in Keys : builtBy[key] # None => ~Unsubmitted(key)
    BY DEF AskedOnce
  <2> QED BY <2>1, RowsFollow DEF Unsubmitted, Queued, NoTask
<1>3. ASSUME UNCHANGED builtBy,
             \A w \in Workers : procs'[w].pc \in {"build", "deploy"}
                                  => config'[w] = procs'[w].task.target
      PROVE  BuildsFrozen'
  BY <1>2, <1>3 DEF BuildsFrozen, BuiltByFrozenTarget
<1>4. ASSUME NEW p \in Processes, Ends(p) \/ LoseSession(p) PROVE BuildsFrozen'
  <2>1. UNCHANGED <<builtBy, config>> /\ (procs' = procs \/ procs' = [procs EXCEPT ![p] = Idle])
    BY <1>4 DEF Ends, Return, LoseSession, local
  <2> QED BY <1>1, <1>3, <2>1, IdleType DEF BuildsFrozen
<1>5. ASSUME NEW w \in Workers, TakeTask(w) \/ Poll(w) PROVE BuildsFrozen'
  <2>1. UNCHANGED <<builtBy, config>>
    BY <1>5 DEF TakeTask, Poll, local
  <2>2. procs'[w].pc \in {"advance", "polled"} /\ \A w1 \in Workers : w1 # w => procs'[w1] = procs[w1]
    BY <1>1, <1>5, Taken
  <2> QED BY <1>1, <1>3, <2>1, <2>2 DEF BuildsFrozen
<1>6. ASSUME NEW w \in Workers, NEW pc \in {"build", "deploy"}, NEW row \in Task, Advances(w, pc, row)
      PROVE BuildsFrozen'
  <2> DEFINE proc == [procs[w] EXCEPT !.pc = pc, !.task = row]
  <2>1. /\ UNCHANGED <<builtBy, config>> /\ procs' = [procs EXCEPT ![w] = proc]
        /\ row.target = procs[w].task.target
        /\ (procs[w].pc = "build" \/ procs[w].task.target = config[w])
    BY <1>6, PhaseNames DEF Advances, local, Drifted
  <2>2. procs[w] \in Proc /\ proc.task = row
    BY <1>1 DEF Proc
  <2>3. \A w1 \in Workers : procs'[w1] = IF w1 = w THEN proc ELSE procs[w1]
    BY <1>1, <2>1
  <2> HIDE DEF proc
  <2> QED BY <1>3, <2>1, <2>2, <2>3 DEF BuildsFrozen
<1>7. ASSUME NEW w \in Workers, CallCreate(w) PROVE BuildsFrozen'
  <2>1. ProcOK(w) /\ procs[w].pc = "deploy"
    BY <1>1, <1>7 DEF CallCreate, Shape
  <2>2. PICK key \in Keys : key = procs[w].key
    BY <2>1 DEF ProcOK
  <2>3. /\ builtBy' = [builtBy EXCEPT ![key] = config[w]] /\ UNCHANGED <<tasks, config>>
        /\ procs' = [procs EXCEPT ![w] = [@ EXCEPT !.pc = "await"]]
    BY <1>1, <1>7, <2>2 DEF CallCreate, Goto, Proc
  <2>4. config[w] = tasks[key].target
    BY <2>1, <2>2 DEF ProcOK, Busy, BuildsFrozen
  <2>5. \A w1 \in Workers : w1 # w => procs'[w1] = procs[w1]
    BY <1>1, <2>3
  <2>6. procs'[w].pc = "await"
    BY <1>1, <2>3 DEF Proc
  <2> QED BY <1>1, <2>3, <2>4, <2>5, <2>6 DEF BuildsFrozen, BuiltByFrozenTarget
<1>8. ASSUME NEW o \in Operators, RecoveryGoesOn(o) PROVE BuildsFrozen'
  <2>1. UNCHANGED <<builtBy, config>>
    BY <1>8 DEF RecoveryGoesOn, Look, TakeRecovery, local
  <2>2. \A w \in Workers : procs'[w] = procs[w]
    BY <1>1, <1>8, PublisherAssumption DEF RecoveryGoesOn, Look, TakeRecovery
  <2> QED BY <1>3, <2>1, <2>2 DEF BuildsFrozen
<1>9. ASSUME NEW w \in Workers, NEW target \in Targets, Reconfigure(w, target) PROVE BuildsFrozen'
  BY <1>1, <1>3, <1>9, IdleType DEF Reconfigure, BuildsFrozen
<1>10. ASSUME UNCHANGED <<procs, config, builtBy>> PROVE BuildsFrozen'
  BY <1>3, <1>10 DEF BuildsFrozen
<1> QED
  BY <1>4, <1>5, <1>6, <1>7, <1>8, <1>9, <1>10, Steps
     DEF WorkGoesOn, Enqueue, local, PagesMoves, CreationLands, CreationIsLost, DeploymentEnds, vars

LEMMA BuildsFrozenInit == Init => BuildsFrozen
BY IdleType DEF Init, BuildsFrozen, BuiltByFrozenTarget, Processes

----------------------------------------------------------------------------
\* Results are those of the deployments.

\* What a worker has read of a deployment that ended is still so.
PolledIsTrue ==
  \A w \in Workers : procs[w].pc = "polled" /\ procs[w].seen # "building"
    => cloud[procs[w].task.deployment] = procs[w].seen

ResultsHold == ResultIsTheDeployments /\ PolledIsTrue

\* Pages never takes a result back, as it is asked once for a deployment.
LEMMA CloudFinal ==
  ASSUME Shape, AskedOnce, [Next]_vars, NEW key \in Keys, cloud[key] \in {"succeeded", "failed"}
  PROVE  cloud'[key] = cloud[key]
BY Steps DEF Shape, TypeOK, AskedOnce, Ends, Return, LoseSession, Enqueue, WorkGoesOn, TakeTask, CallCreate,
   Poll, Advances, RecoveryGoesOn, Look, TakeRecovery, Reconfigure, PagesMoves, CreationLands,
   CreationIsLost, DeploymentEnds, vars, local

\* A row that ends with a deployment ends as its worker has polled it.
LEMMA RowEnds ==
  ASSUME Shape, PolledIsTrue, NEW p \in Processes, NEW row \in Task, RowMoves(p, row),
         row.phase \in {"succeeded", "failed"}, row.deployment # None
  PROVE  cloud[row.deployment] = row.phase
<1> DEFINE key == procs[p].key
           old == tasks[key]
<1>1. RowOK(key) /\ ProcOK(p) /\ lock = p /\ key \in Keys
  BY DEF RowMoves, Shape
<1>2. old.phase # "deployed" => row.deployment = None
  BY <1>1, PhaseNames DEF RowMoves, RowOK
<1>3. ASSUME old.phase = "deployed"
      PROVE  cloud[row.deployment] = row.phase
  <2>1. procs[p].pc = "polled" /\ procs[p].seen = row.phase /\ row.deployment = old.deployment
    BY <1>3 DEF RowMoves, Reason
  <2>2. p \in Workers /\ procs[p].task.deployment = old.deployment
    BY <1>1, <2>1 DEF ProcOK, RowRead, Processes
  <2> QED BY <2>1, <2>2 DEF PolledIsTrue
<1> QED BY <1>2, <1>3

LEMMA ResultsHoldStep == Shape /\ AskedOnce /\ ResultsHold /\ [Next]_vars => ResultsHold'
<1> SUFFICES ASSUME Shape, AskedOnce, ResultsHold, [Next]_vars PROVE ResultsHold'
  OBVIOUS
<1>1. /\ procs \in [Processes -> Proc] /\ Workers \subseteq Processes /\ tasks \in [Keys -> Task]
      /\ \A key \in Keys : cloud[key] \in {"succeeded", "failed"} => cloud'[key] = cloud[key]
  BY CloudFinal DEF Shape, TypeOK, Processes
<1>2. \A key \in Keys : tasks[key].deployment \in Keys \cup {None}
  BY <1>1 DEF Task
<1>3. ASSUME UNCHANGED tasks PROVE ResultIsTheDeployments'
  BY <1>1, <1>2, <1>3 DEF ResultsHold, ResultIsTheDeployments
<1>4. ASSUME NEW p \in Processes, NEW row \in Task, RowMoves(p, row) PROVE ResultIsTheDeployments'
  <2>1. PICK key \in Keys : key = procs[p].key
    BY <1>4 DEF RowMoves
  <2>2. tasks'[key] = row /\ \A other \in Keys : other # key => tasks'[other] = tasks[other]
    BY <1>1, <1>4, <2>1 DEF RowMoves
  <2>3. row.phase \in {"succeeded", "failed"} /\ row.deployment # None
          => row.deployment \in Keys /\ cloud'[row.deployment] = row.phase
    BY <1>1, <1>4, RowEnds DEF ResultsHold, Task
  <2> QED BY <1>1, <1>2, <2>2, <2>3 DEF ResultsHold, ResultIsTheDeployments
<1>5. ASSUME NEW key \in Keys, NEW w \in Workers, Enqueue(key, config[w]) PROVE ResultIsTheDeployments'
  BY <1>1, <1>2, <1>5 DEF Enqueue, NoTask, ResultsHold, ResultIsTheDeployments
<1>6. ASSUME NEW w \in Workers, procs'[w] = procs[w], procs'[w].pc = "polled", procs'[w].seen # "building"
      PROVE  cloud'[procs'[w].task.deployment] = procs'[w].seen
  <2>1. ProcOK(w) /\ Busy(w) /\ procs[w].task \in Task
    BY <1>1, <1>6 DEF Shape, Busy, Proc
  <2>2. procs[w].seen \in {"succeeded", "failed"} /\ procs[w].task.deployment \in Keys
    BY <1>6, <2>1 DEF ProcOK, PhaseRead, Bound, Proc, Task
  <2> QED BY <1>1, <1>6, <2>2 DEF ResultsHold, PolledIsTrue
<1>7. ASSUME NEW w \in Workers, procs'[w].pc = "polled", procs'[w].seen # "building"
      PROVE  cloud'[procs'[w].task.deployment] = procs'[w].seen
  <2>1. CASE procs'[w] = procs[w]
    BY <1>6, <1>7, <2>1
  <2>2. ASSUME NEW p \in Processes, Ends(p) PROVE procs'[w] = procs[w]
    BY <1>1, <1>7, <2>2, IdleType DEF Ends, Return
  <2>3. ASSUME NEW v \in Workers, NEW pc \in {"build", "deploy"}, NEW row \in Task, Advances(v, pc, row)
        PROVE  procs'[w] = procs[w]
    BY <1>1, <1>7, <2>3 DEF Advances, Proc
  <2>4. ASSUME NEW v \in Workers, TakeTask(v) \/ CallCreate(v) PROVE procs'[w] = procs[w]
    <3>1. v # w => procs'[w] = procs[w]
      BY <1>1, <2>4 DEF TakeTask, CallCreate, Goto
    <3>2. procs'[v].pc # "polled"
      BY <1>1, <2>4 DEF TakeTask, CallCreate, Goto, Proc, Idle
    <3> QED BY <1>7, <3>1, <3>2
  <2>5. ASSUME NEW v \in Workers, Poll(v)
        PROVE  procs'[w] = procs[w] \/ cloud'[procs'[w].task.deployment] = procs'[w].seen
    <3>1. v # w => procs'[w] = procs[w]
      BY <1>1, <2>5 DEF Poll
    <3>2. CASE v = w
      <4>1. cloud' = cloud /\ procs'[w] = [procs[w] EXCEPT !.pc = "polled",
                                                           !.seen = cloud[procs[w].task.deployment]]
        BY <1>1, <2>5, <3>2 DEF Poll, local, Proc
      <4>2. procs'[w].seen = cloud[procs[w].task.deployment] /\ procs'[w].task = procs[w].task
        BY <1>1, <4>1 DEF Proc
      <4> QED BY <4>1, <4>2
    <3> QED BY <3>1, <3>2
  <2>6. ASSUME NEW o \in Operators, RecoveryGoesOn(o) PROVE procs'[w] = procs[w]
    BY <1>1, <2>6, PublisherAssumption DEF RecoveryGoesOn, Look, TakeRecovery
  <2> QED BY <2>1, <2>2, <2>3, <2>4, <2>5, <2>6, Steps
          DEF WorkGoesOn, LoseSession, Enqueue, Reconfigure, PagesMoves, CreationLands,
              CreationIsLost, DeploymentEnds, vars
<1>8. PolledIsTrue'
  BY <1>7 DEF PolledIsTrue
<1>9. ASSUME NEW p \in Processes, Ends(p) PROVE ResultIsTheDeployments'
  BY <1>3, <1>4, <1>9 DEF Ends
<1>10. ASSUME NEW w \in Workers, WorkGoesOn(w) PROVE ResultIsTheDeployments'
  BY <1>1, <1>3, <1>4, <1>10 DEF WorkGoesOn, TakeTask, CallCreate, Poll, Advances
<1>11. ResultIsTheDeployments'
  BY <1>3, <1>5, <1>9, <1>10, Steps
     DEF RecoveryGoesOn, Look, TakeRecovery, LoseSession, Reconfigure, PagesMoves, CreationLands,
         CreationIsLost, DeploymentEnds, vars
<1> QED BY <1>8, <1>11 DEF ResultsHold

LEMMA ResultsHoldInit == Init => ResultsHold
BY IdleType DEF Init, ResultsHold, ResultIsTheDeployments, PolledIsTrue, NoTask, Processes

----------------------------------------------------------------------------
\* One build at a time, and the trigger the publish service relies on.

OneTask == \A k1, k2 \in Keys : Active(k1) /\ Active(k2) => k1 = k2

LEMMA StatusOfPhase ==
  ASSUME NEW task \in Task
  PROVE  /\ task.phase \in ActivePhases => StatusOf(task) = "running"
         /\ task.phase \notin ActivePhases => StatusOf(task) = task.phase
         /\ StatusOf(task) = "running" <=> task.phase \in ActivePhases
BY PhaseNames DEF StatusOf, Task

LEMMA OneTaskInit == Init => OneTask
BY PhaseNames DEF Init, OneTask, Active, NoTask

\* One row changes in a step, if any.
LEMMA OneRow ==
  ASSUME Shape, [Next]_vars, NEW k1 \in Keys, NEW k2 \in Keys,
         tasks'[k1] # tasks[k1], tasks'[k2] # tasks[k2]
  PROVE  k1 = k2
<1>1. tasks \in [Keys -> Task]
  BY DEF Shape, TypeOK
<1>2. ASSUME NEW p \in Processes, NEW row \in Task, RowMoves(p, row) PROVE k1 = k2
  BY <1>1, <1>2 DEF RowMoves
<1>3. ASSUME NEW k \in Keys, NEW w \in Workers, Enqueue(k, config[w]) PROVE k1 = k2
  BY <1>1, <1>3 DEF Enqueue
<1>4. ASSUME NEW p \in Processes, Ends(p) PROVE \E row \in Task : RowMoves(p, row)
  BY <1>4 DEF Ends
<1>5. ASSUME NEW w \in Workers, WorkGoesOn(w) PROVE \E row \in Task : RowMoves(w, row)
  BY <1>5 DEF WorkGoesOn, TakeTask, CallCreate, Poll, Advances
<1> QED BY <1>2, <1>3, <1>4, <1>5, Steps
        DEF Processes, LoseSession, RecoveryGoesOn, Look, TakeRecovery, Reconfigure, PagesMoves,
            CreationLands, CreationIsLost, DeploymentEnds, vars

LEMMA OneTaskStep == Shape /\ OneTask /\ [Next]_vars => OneTask'
<1> SUFFICES ASSUME Shape, OneTask, [Next]_vars, NEW k1 \in Keys, NEW k2 \in Keys,
                    Active(k1)', Active(k2)'
             PROVE  k1 = k2
  BY DEF OneTask
<1>1. ASSUME NEW key \in Keys, Active(key)', ~Active(key)
      PROVE  tasks'[key] # tasks[key] /\ \A other \in Keys : ~Active(other)
  <2>1. tasks'[key] # tasks[key]
    BY <1>1 DEF Active
  <2> QED BY <1>1, <2>1, RowsFollow DEF Active, Queued
<1>2. CASE Active(k1) /\ Active(k2)
  BY <1>2 DEF OneTask
<1>3. CASE ~Active(k1)
  BY <1>1, <1>3, OneRow
<1>4. CASE ~Active(k2)
  BY <1>1, <1>4, OneRow
<1> QED BY <1>2, <1>3, <1>4

\* What a step of the worker is to the publish service: a submission, an end,
\* or nothing it can see.
statuses == [key \in Keys |-> StatusOf(tasks[key])]

LEMMA TriggerStep == Shape /\ OneTask /\ [Next]_vars => [Trigger!Next]_statuses
<1> SUFFICES ASSUME Shape, [Next]_vars, statuses' # statuses
             PROVE  Trigger!Next
  OBVIOUS
<1>1. tasks \in [Keys -> Task] /\ tasks' \in [Keys -> Task]
  BY ShapeStep DEF Shape, TypeOK
<1>2. PICK key \in Keys : StatusOf(tasks'[key]) # StatusOf(tasks[key])
  BY <1>1 DEF statuses
<1>3. tasks'[key] # tasks[key] /\ \A other \in Keys : other # key => tasks'[other] = tasks[other]
  BY <1>2, OneRow
<1>4. statuses' = [statuses EXCEPT ![key] = StatusOf(tasks'[key])]
  BY <1>1, <1>3 DEF statuses
<1>5. CASE Queued(key)
  <2>1. StatusOf(tasks'[key]) = "running" /\ StatusOf(tasks[key]) = "none"
    BY <1>5, PhaseNames DEF Queued, StatusOf, NoTask
  <2>2. \A other \in Keys : StatusOf(tasks[other]) # "running"
    BY <1>1, <1>5, StatusOfPhase DEF Queued, Active
  <2>3. Trigger!Submit(key)
    BY <1>4, <2>1, <2>2 DEF Trigger!Submit, statuses
  <2> QED BY <2>3 DEF Trigger!Next
<1>6. CASE tasks[key].phase \in ActivePhases /\ Follows(tasks[key].phase, tasks'[key].phase)
  <2>1. StatusOf(tasks[key]) = "running"
    BY <1>6 DEF StatusOf
  <2>2. StatusOf(tasks'[key]) \in {"succeeded", "failed"}
    BY <1>2, <1>6, <2>1, PhaseNames DEF StatusOf, Follows
  <2>3. Trigger!End(key)
    BY <1>4, <2>1, <2>2 DEF Trigger!End, Trigger!Results, statuses
  <2> QED BY <2>3 DEF Trigger!Next
<1> QED BY <1>3, <1>5, <1>6, RowsFollow

\* The worker itself only ends builds.
LEMMA OwnStepEnds ==
  ASSUME Shape, OneTask, OwnStep
  PROVE  UNCHANGED statuses \/ \E key \in Keys : Trigger!End(key)
<1> SUFFICES ASSUME statuses' # statuses PROVE \E key \in Keys : Trigger!End(key)
  OBVIOUS
<1>1. [Next]_vars /\ [Trigger!Next]_statuses
  BY TriggerStep DEF Next, OwnStep
<1>2. ASSUME NEW key \in Keys, Trigger!Submit(key) PROVE FALSE
  <2>1. StatusOf(tasks[key]) = "none" /\ StatusOf(tasks'[key]) = "running"
    BY <1>2 DEF Trigger!Submit, statuses
  <2>2. tasks'[key] # tasks[key] /\ tasks[key].phase \notin ActivePhases
    BY <2>1 DEF StatusOf
  <2> QED BY <2>2, OwnRowsFollow DEF RowMoves
<1> QED BY <1>1, <1>2 DEF Trigger!Next

\* A build that succeeded has a deployment.
SuccessIsDeployed ==
  \A key \in Keys : tasks[key].phase = "succeeded" => tasks[key].deployment # None

LEMMA SuccessIsDeployedStep == Shape /\ SuccessIsDeployed /\ [Next]_vars => SuccessIsDeployed'
<1> SUFFICES ASSUME Shape, SuccessIsDeployed, [Next]_vars,
                    NEW key \in Keys, tasks'[key] # tasks[key], tasks'[key].phase = "succeeded"
             PROVE  tasks'[key].deployment # None
  BY DEF SuccessIsDeployed
<1>1. CASE OwnStep
  <2>1. PICK p \in Processes, row \in Task :
          RowMoves(p, row) /\ procs[p].key = key /\ tasks'[key] = row
    BY <1>1, OwnRowsFollow
  <2>2. tasks[key].phase = "deployed" /\ row.deployment = tasks[key].deployment
    BY <2>1, PhaseNames DEF RowMoves, Follows
  <2> QED BY <2>1, <2>2 DEF Shape, RowOK, Bound
<1>2. ASSUME NEW k \in Keys, NEW w \in Workers, Enqueue(k, config[w]) PROVE FALSE
  BY <1>2 DEF Enqueue, NoTask, Shape, TypeOK
<1> QED BY <1>1, <1>2 DEF Next, OwnStep, vars

LEMMA TriggerInit == Init => Trigger!Init
BY PhaseNames DEF Init, Trigger!Init, StatusOf, NoTask

----------------------------------------------------------------------------
\* A failed build stays off the site, while the servers are steady.

\* A recovery is of a submission: its row never goes back to before it.
LookedAt == \A o \in Operators : procs[o].pc # "idle" => ~Unsubmitted(procs[o].key)

LEMMA LookedAtStep == Shape /\ LookedAt /\ [Next]_vars => LookedAt'
<1> SUFFICES ASSUME Shape, LookedAt, [Next]_vars, NEW o \in Operators, procs'[o].pc # "idle"
             PROVE  ~Unsubmitted(procs[o].key)'
  BY DEF LookedAt
<1>1. /\ procs \in [Processes -> Proc] /\ o \in Processes /\ o \notin Workers /\ Workers \subseteq Processes
      /\ ProcOK(o)
  BY PublisherAssumption DEF Shape, TypeOK, Processes
<1>2. ASSUME procs[o].pc # "idle", procs'[o].key = procs[o].key PROVE ~Unsubmitted(procs[o].key)'
  <2>1. PICK key \in Keys : key = procs[o].key
    BY <1>1, <1>2 DEF ProcOK
  <2> QED BY <1>2, <2>1, NeverBackwards DEF LookedAt
<1>3. ASSUME NEW p \in Processes, Ends(p) PROVE procs'[o] = procs[o]
  BY <1>1, <1>3, IdleType DEF Ends, Return
<1>4. ASSUME NEW w \in Workers, WorkGoesOn(w) PROVE procs'[o] = procs[o]
  BY <1>1, <1>4 DEF WorkGoesOn, TakeTask, CallCreate, Poll, Advances, Goto
<1>5. ASSUME NEW q \in Operators, NEW key \in Keys, NEW deployment \in Keys \cup {None},
             Look(q, key, deployment)
      PROVE  ~Unsubmitted(procs[o].key)'
  <2>1. tasks' = tasks /\ tasks[key].phase = "submitting"
    BY <1>5 DEF Look
  <2>2. procs'[o] = procs[o] \/ (q = o /\ procs'[o].key = key)
    BY <1>1, <1>5 DEF Look, Idle
  <2> QED BY <1>2, <2>1, <2>2 DEF Unsubmitted
<1>6. ASSUME NEW q \in Operators, TakeRecovery(q) PROVE ~Unsubmitted(procs[o].key)'
  <2>1. procs'[o] = procs[o] \/ (procs[o].pc # "idle" /\ procs'[o].key = procs[o].key)
    BY <1>1, <1>6 DEF TakeRecovery, Proc
  <2> QED BY <1>2, <2>1
<1>7. CASE procs' = procs
  BY <1>2, <1>7
<1> QED
  BY <1>2, <1>3, <1>4, <1>5, <1>6, <1>7, Steps
     DEF RecoveryGoesOn, LoseSession, Enqueue, Reconfigure, PagesMoves, CreationLands,
         CreationIsLost, DeploymentEnds, vars

LEMMA LookedAtInit == Init => LookedAt
BY IdleType DEF Init, LookedAt, Processes

\* Servers of one configuration with their sessions: one process works, and it
\* starts a build and its submission with a clean row.
SteadyServers ==
  /\ \A w1, w2 \in Workers : config[w1] = config[w2]
  /\ \A key \in Keys, w \in Workers : tasks[key].phase # "none" => tasks[key].target = config[w]
  /\ \A p \in Processes : Busy(p) => lock = p
  /\ \A w \in Workers : procs[w].pc \in {"build", "deploy"} => ~procs[w].task.error

LEMMA SteadyServersStep ==
  ASSUME Shape, steady => SteadyServers, [Next]_vars, steady'
  PROVE  steady /\ SteadyServers'
<1>1. /\ procs \in [Processes -> Proc] /\ Workers \subseteq Processes /\ Operators \subseteq Processes
      /\ Workers \cap Operators = {} /\ None \notin Processes
  BY PublisherAssumption DEF Shape, TypeOK, Processes
<1>2. /\ steady /\ SteadyServers /\ UNCHANGED config
      /\ \A p \in Processes : ~LoseSession(p)
      /\ \A w \in Workers, target \in Targets : ~Reconfigure(w, target)
  BY Steps DEF Ends, LoseSession, Enqueue, WorkGoesOn, TakeTask, CallCreate, Poll, Advances, RecoveryGoesOn,
     Look, TakeRecovery, Reconfigure, PagesMoves, CreationLands, CreationIsLost, DeploymentEnds, vars, local
<1>3. \A key \in Keys, w \in Workers : tasks'[key].phase # "none" => tasks'[key].target = config[w]
  <2> SUFFICES ASSUME NEW key \in Keys, NEW w \in Workers, tasks'[key].phase # "none"
               PROVE  tasks'[key].target = config[w]
    OBVIOUS
  <2>1. CASE tasks'[key] = tasks[key]
    BY <1>2, <2>1 DEF SteadyServers
  <2>2. CASE Queued(key)
    BY <1>2, <2>2 DEF SteadyServers, Queued
  <2>3. CASE tasks[key].phase \in ActivePhases /\ tasks'[key].target = tasks[key].target
    BY <1>2, <2>3, PhaseNames DEF SteadyServers
  <2> QED BY <2>1, <2>2, <2>3, RowsFollow
<1>4. ASSUME \A p \in Processes : Busy(p)' => lock' = p,
             \A w \in Workers : procs'[w].pc \in {"build", "deploy"} => ~procs'[w].task.error
      PROVE  SteadyServers'
  BY <1>2, <1>3, <1>4 DEF SteadyServers
<1>5. ASSUME NEW p \in Processes, Ends(p) PROVE SteadyServers'
  <2>1. \A q \in Processes : procs'[q] = IF q = p THEN Idle ELSE procs[q]
    BY <1>1, <1>5 DEF Ends, Return
  <2>2. lock' = IF lock = p THEN None ELSE lock
    BY <1>5 DEF Ends, Return
  <2> QED BY <1>1, <1>2, <1>4, <2>1, <2>2, IdleType DEF SteadyServers, Busy
<1>6. ASSUME NEW w \in Workers, TakeTask(w) PROVE SteadyServers'
  <2>1. /\ lock = None /\ lock' = w /\ procs'[w].pc = "advance"
        /\ \A q \in Processes : q # w => procs'[q] = procs[q]
    BY <1>1, <1>6 DEF TakeTask, LockFree, Idle
  <2> QED BY <1>1, <1>2, <1>4, <2>1 DEF SteadyServers, Busy
<1>7. ASSUME NEW w \in Workers, CallCreate(w) \/ Poll(w) PROVE SteadyServers'
  <2>1. /\ lock' = lock /\ Busy(w) /\ procs'[w].pc \in {"await", "polled"}
        /\ \A q \in Processes : q # w => procs'[q] = procs[q]
    <3>1. CASE CallCreate(w)
      BY <1>1, <3>1 DEF CallCreate, Goto, Proc, Busy
    <3>2. CASE Poll(w)
      BY <1>1, <3>2 DEF Poll, local, Proc, Busy
    <3> QED BY <1>7, <3>1, <3>2
  <2> QED BY <1>1, <1>2, <1>4, <2>1 DEF SteadyServers, Busy
<1>8. ASSUME NEW w \in Workers, NEW pc \in {"build", "deploy"}, NEW row \in Task, Advances(w, pc, row)
      PROVE SteadyServers'
  <2>1. /\ lock' = lock /\ Busy(w) /\ procs'[w].pc = pc /\ procs'[w].task = row
        /\ \A q \in Processes : q # w => procs'[q] = procs[q]
    BY <1>1, <1>8 DEF Advances, Proc, Busy
  <2>2. ~row.error
    BY <1>2, <1>8 DEF Advances, SteadyServers
  <2> QED BY <1>1, <1>2, <1>4, <2>1, <2>2 DEF SteadyServers, Busy
<1>9. ASSUME NEW o \in Operators, RecoveryGoesOn(o) PROVE SteadyServers'
  <2>1. /\ \A q \in Processes : q # o => procs'[q] = procs[q]
        /\ \/ lock' = lock /\ procs'[o].pc = "looked"
           \/ lock = None /\ lock' = o
    BY <1>1, <1>9 DEF RecoveryGoesOn, Look, TakeRecovery, LockFree, Idle
  <2>2. \A w \in Workers : procs'[w] = procs[w]
    BY <1>1, <2>1
  <2>3. \A p \in Processes : Busy(p)' => lock' = p
    BY <1>1, <1>2, <2>1 DEF SteadyServers, Busy
  <2> QED BY <1>2, <1>4, <2>2, <2>3 DEF SteadyServers
<1>10. CASE UNCHANGED <<procs, lock>>
  BY <1>2, <1>4, <1>10 DEF SteadyServers, Busy
<1> QED
  BY <1>2, <1>5, <1>6, <1>7, <1>8, <1>9, <1>10, Steps
     DEF WorkGoesOn, Enqueue, PagesMoves, CreationLands, CreationIsLost, DeploymentEnds, vars

LEMMA SteadyServersInit == Init => (steady => SteadyServers)
<1>1. NoTask.phase = "none"
  BY DEF NoTask
<1> QED BY <1>1, IdleType DEF Init, SteadyServers, Busy, Processes

\* A recovery that found no deployment is right as long as the row submits:
\* nobody can send the request any more.
SteadyRecoveries ==
  \A o \in Operators :
    LET key == procs[o].key IN
    procs[o].pc # "idle" /\ procs[o].task.deployment = None /\ tasks[key].phase = "submitting"
      => tasks[key].error /\ cloud[key] = "absent" /\ key \notin flying

\* The deployment of a row is its own, and a failed one can have none that is up.
SteadyRows ==
  \A key \in Keys :
    LET task == tasks[key] IN
    /\ task.deployment \in {None, key}
    /\ task.phase = "succeeded" => task.deployment = key
    /\ task.phase = "failed" =>
         /\ cloud[key] \in {"absent", "failed"} /\ key \notin flying
         /\ \A w \in Workers : ~Deploying(w, key)
         /\ cloud[key] # "absent" => task.deployment = key

Steady == SteadyServers /\ SteadyRecoveries /\ SteadyRows

\* In steady times nothing comes to Pages for a recorded failure or uncertainty.
LEMMA NothingSent ==
  ASSUME Shape, AskedOnce, [Next]_vars, NEW key \in Keys, cloud[key] = "absent", key \notin flying,
         \A w \in Workers : ~Deploying(w, key)
  PROVE  cloud'[key] = "absent" /\ key \notin flying'
<1>1. cloud \in [Keys -> {"absent", "building", "succeeded", "failed"}]
  BY DEF Shape, TypeOK
<1>2. ASSUME NEW w \in Workers, WorkGoesOn(w) PROVE cloud'[key] = "absent" /\ key \notin flying'
  BY <1>2 DEF WorkGoesOn, TakeTask, CallCreate, Poll, Advances, local, Deploying
<1>3. ASSUME NEW k \in Keys, PagesMoves(k) PROVE cloud'[key] = "absent" /\ key \notin flying'
  BY <1>1, <1>3 DEF PagesMoves, CreationLands, CreationIsLost, DeploymentEnds
<1> QED BY <1>2, <1>3, Steps
        DEF Ends, LoseSession, Enqueue, RecoveryGoesOn, Look, TakeRecovery, Reconfigure, vars, local

\* What has landed is not on its way again.
LEMMA StaysLanded ==
  ASSUME Shape, AskedOnce, [Next]_vars, NEW key \in Keys, cloud[key] # "absent"
  PROVE  key \notin flying'
<1>1. AskedOnce' /\ CloudKept
  <2>1. AskedOnce'
    BY AskedOnceStep
  <2>2. cloud \in [Keys -> {"absent", "building", "succeeded", "failed"}]
    BY DEF Shape, TypeOK
  <2>3. CloudKept
    BY <2>2, Steps DEF CloudKept, Ends, LoseSession, Enqueue, WorkGoesOn, TakeTask, CallCreate, Poll,
       Advances, RecoveryGoesOn, Look, TakeRecovery, Reconfigure, PagesMoves, CreationLands,
       CreationIsLost, DeploymentEnds, vars, local
  <2> QED BY <2>1, <2>3
<1> QED BY <1>1 DEF AskedOnce, CloudKept

LEMMA NoNewDeploying ==
  ASSUME Shape, [Next]_vars, NEW w \in Workers, NEW key \in Keys, Deploying(w, key)'
  PROVE  Deploying(w, key) \/ (tasks[key].phase = "building" /\ tasks'[key].phase = "submitting")
<1>1. /\ procs \in [Processes -> Proc] /\ Workers \subseteq Processes /\ Operators \subseteq Processes
      /\ Workers \cap Operators = {} /\ tasks \in [Keys -> Task]
  BY PublisherAssumption DEF Shape, TypeOK, Processes
<1>2. ASSUME NEW p \in Processes, Ends(p) PROVE Deploying(w, key)
  BY <1>1, <1>2, IdleType DEF Ends, Return, Deploying
<1>3. ASSUME NEW v \in Workers, TakeTask(v) \/ Poll(v) PROVE Deploying(w, key)
  BY <1>1, <1>3, Taken DEF Deploying
<1>4. ASSUME NEW v \in Workers, CallCreate(v) PROVE Deploying(w, key)
  BY <1>1, <1>4 DEF CallCreate, Goto, Proc, Deploying
<1>5. ASSUME NEW v \in Workers, NEW pc \in {"build", "deploy"}, NEW row \in Task, Advances(v, pc, row)
      PROVE  Deploying(w, key) \/ (tasks[key].phase = "building" /\ tasks'[key].phase = "submitting")
  <2>1. v # w => procs'[w] = procs[w]
    BY <1>1, <1>5 DEF Advances
  <2>2. procs'[v].pc = pc /\ procs'[v].key = procs[v].key
    BY <1>1, <1>5 DEF Advances, Proc
  <2>3. CASE v = w
    <3>1. procs[w].key = key /\ pc = "deploy"
      BY <2>2, <2>3 DEF Deploying
    <3> QED BY <1>1, <1>5, <2>3, <3>1 DEF Advances, RowMoves
  <2> QED BY <2>1, <2>3 DEF Deploying
<1>6. ASSUME NEW o \in Operators, RecoveryGoesOn(o) PROVE Deploying(w, key)
  BY <1>1, <1>6 DEF RecoveryGoesOn, Look, TakeRecovery, Deploying
<1> QED BY <1>2, <1>3, <1>4, <1>5, <1>6, Steps
        DEF WorkGoesOn, LoseSession, Enqueue, Reconfigure, PagesMoves, CreationLands,
            CreationIsLost, DeploymentEnds, vars, Deploying

\* Nobody sends the request for a row on which an uncertainty is recorded.
LEMMA NobodySends ==
  ASSUME Shape, SteadyServers, NEW key \in Keys, tasks[key].error, NEW w \in Workers
  PROVE  ~Deploying(w, key)
<1> SUFFICES ASSUME Deploying(w, key) PROVE FALSE
  OBVIOUS
<1>1. lock = w /\ ~procs[w].task.error /\ ProcOK(w)
  BY DEF SteadyServers, Busy, Deploying, Shape, Processes
<1> QED BY <1>1 DEF ProcOK, RowRead, Deploying

\* A row that changes and goes on submitting records an uncertainty.
LEMMA SubmittingErrs ==
  ASSUME Shape, [Next]_vars, NEW key \in Keys, tasks[key].phase = "submitting",
         tasks'[key].phase = "submitting", tasks[key].error
  PROVE  tasks'[key].error
<1>1. tasks \in [Keys -> Task]
  BY DEF Shape, TypeOK
<1>2. ASSUME NEW p \in Processes, NEW row \in Task, RowMoves(p, row) PROVE tasks'[key].error
  BY <1>1, <1>2 DEF RowMoves, Reason
<1>3. ASSUME NEW k \in Keys, NEW w \in Workers, Enqueue(k, config[w]) PROVE tasks'[key] = tasks[key]
  BY <1>1, <1>3 DEF Enqueue, NoTask
<1>4. ASSUME NEW p \in Processes, Ends(p), tasks' # tasks PROVE tasks'[key].error
  BY <1>2, <1>4 DEF Ends
<1>5. ASSUME NEW w \in Workers, WorkGoesOn(w), tasks' # tasks PROVE tasks'[key].error
  <2>1. \E row \in Task : RowMoves(w, row)
    BY <1>5 DEF WorkGoesOn, TakeTask, CallCreate, Poll, Advances
  <2> QED BY <1>2, <2>1 DEF Processes
<1> QED BY <1>3, <1>4, <1>5, Steps
        DEF LoseSession, RecoveryGoesOn, Look, TakeRecovery, Reconfigure, PagesMoves,
            CreationLands, CreationIsLost, DeploymentEnds, vars

LEMMA SteadyRecoveriesStep ==
  ASSUME Shape, AskedOnce, LookedAt, Steady, [Next]_vars
  PROVE  SteadyRecoveries'
<1>0. \A q \in Operators : procs'[q].pc # "idle" => procs'[q].key \in Keys
  BY ShapeStep DEF Shape, ProcOK, Processes
<1> SUFFICES ASSUME NEW o \in Operators, procs'[o].pc # "idle", procs'[o].task.deployment = None,
                    NEW key \in Keys, key = procs'[o].key, tasks'[key].phase = "submitting"
             PROVE  tasks'[key].error /\ cloud'[key] = "absent" /\ key \notin flying'
  BY <1>0 DEF SteadyRecoveries
<1>1. /\ procs \in [Processes -> Proc] /\ o \in Processes /\ o \notin Workers /\ Workers \subseteq Processes
      /\ tasks \in [Keys -> Task]
  BY PublisherAssumption DEF Shape, TypeOK, Processes
<1>2. ASSUME procs[o].pc # "idle", procs[o].key = key, procs[o].task.deployment = None
      PROVE  tasks'[key].error /\ cloud'[key] = "absent" /\ key \notin flying'
  <2>1. ~Unsubmitted(key)
    BY <1>2 DEF LookedAt
  <2>2. tasks[key].phase = "submitting"
    <3>1. CASE tasks'[key] = tasks[key]
      BY <3>1
    <3>2. CASE tasks'[key] # tasks[key]
      BY <2>1, <3>2, RowsFollow DEF Unsubmitted, Queued, Follows
    <3> QED BY <3>1, <3>2
  <2>3. tasks[key].error /\ cloud[key] = "absent" /\ key \notin flying
    BY <1>2, <2>2 DEF Steady, SteadyRecoveries
  <2>4. \A w \in Workers : ~Deploying(w, key)
    BY <2>3, NobodySends DEF Steady
  <2>5. tasks'[key].error
    BY <2>2, <2>3, SubmittingErrs
  <2> QED BY <2>3, <2>4, <2>5, NothingSent
<1>3. ASSUME NEW p \in Processes, Ends(p) PROVE procs'[o] = procs[o]
  BY <1>1, <1>3, IdleType DEF Ends, Return
<1>4. ASSUME NEW w \in Workers, WorkGoesOn(w) PROVE procs'[o] = procs[o]
  BY <1>1, <1>4 DEF WorkGoesOn, TakeTask, CallCreate, Poll, Advances, Goto
<1>5. ASSUME NEW q \in Operators, NEW k \in Keys, NEW deployment \in Keys \cup {None}, Look(q, k, deployment),
             q = o
      PROVE  tasks'[key].error /\ cloud'[key] = "absent" /\ key \notin flying'
  <2>1. procs'[o] = [Idle EXCEPT !.pc = "looked", !.key = k, !.task.deployment = deployment]
    BY <1>1, <1>5 DEF Look
  <2>2. procs'[o].key = k /\ procs'[o].task.deployment = deployment
    BY <2>1 DEF Idle, NoTask
  <2>3. k = key /\ deployment = None /\ UNCHANGED <<tasks, cloud, flying>>
    BY <1>5, <2>2 DEF Look, local
  <2>4. tasks[key].error \/ \E w \in Workers : config[w] # tasks[key].target
    BY <1>5, <2>3 DEF Look
  <2>5. tasks[key].phase = "submitting" /\ cloud[key] = "absent" /\ key \notin flying
    BY <1>5, <2>3 DEF Look, Verified
  <2>6. tasks[key].error
    BY <2>4, <2>5 DEF Steady, SteadyServers
  <2> QED BY <2>3, <2>5, <2>6
<1>6. ASSUME NEW q \in Operators, TakeRecovery(q)
      PROVE  \/ procs'[o] = procs[o]
             \/ procs[o].pc # "idle" /\ procs[o].key = key /\ procs[o].task.deployment = None
  <2>1. q # o => procs'[o] = procs[o]
    BY <1>1, <1>6 DEF TakeRecovery
  <2>2. CASE q = o
    <3>1. procs[o].pc = "looked" /\ procs[o].key \in Keys /\ procs[o].task.deployment \in Keys \cup {None}
      BY <1>1, <1>6, <2>2 DEF TakeRecovery, Shape, ProcOK, Proc, Task
    <3>2. procs'[o] = [procs[o] EXCEPT !.pc = "resolve",
                          !.task = [tasks[procs[o].key] EXCEPT !.deployment = procs[o].task.deployment]]
      BY <1>1, <1>6, <2>2 DEF TakeRecovery
    <3>3. procs'[o].key = procs[o].key /\ procs'[o].task.deployment = procs[o].task.deployment
      BY <1>1, <3>1, <3>2 DEF Proc, Task
    <3> QED BY <3>1, <3>3
  <2> QED BY <2>1, <2>2
<1>7. ASSUME NEW q \in Operators, NEW k \in Keys, NEW deployment \in Keys \cup {None}, Look(q, k, deployment),
             q # o
      PROVE  procs'[o] = procs[o]
  BY <1>1, <1>7 DEF Look
<1>8. CASE procs'[o] = procs[o]
  BY <1>2, <1>8
<1> QED
  BY <1>2, <1>3, <1>4, <1>5, <1>6, <1>7, <1>8, Steps
     DEF RecoveryGoesOn, LoseSession, Enqueue, Reconfigure, PagesMoves, CreationLands,
         CreationIsLost, DeploymentEnds, vars

\* Who changes a row: a process that returns with it or starts the next step.
LEMMA RowMover ==
  ASSUME Shape, [Next]_vars, NEW key \in Keys, tasks'[key] # tasks[key]
  PROVE  \/ Queued(key)
         \/ \E p \in Processes :
              /\ procs[p].key = key /\ RowMoves(p, tasks'[key]) /\ UNCHANGED <<cloud, flying>>
              /\ procs'[p] = Idle \/ tasks'[key].phase \in {"building", "submitting"}
<1>1. tasks \in [Keys -> Task] /\ procs \in [Processes -> Proc] /\ Workers \subseteq Processes
  BY DEF Shape, TypeOK, Processes
<1>2. ASSUME NEW p \in Processes, NEW row \in Task, RowMoves(p, row)
      PROVE  procs[p].key = key /\ row = tasks'[key]
  BY <1>1, <1>2 DEF RowMoves
<1>3. ASSUME NEW k \in Keys, NEW w \in Workers, Enqueue(k, config[w]) PROVE Queued(key)
  BY <1>1, <1>3 DEF Enqueue, NoTask, Queued
<1>4. ASSUME NEW p \in Processes, Ends(p)
      PROVE  procs[p].key = key /\ RowMoves(p, tasks'[key]) /\ UNCHANGED <<cloud, flying>> /\ procs'[p] = Idle
  <2>1. PICK row \in Task : RowMoves(p, row)
    BY <1>4 DEF Ends
  <2>2. procs'[p] = Idle /\ UNCHANGED <<cloud, flying>>
    BY <1>1, <1>4 DEF Ends, Return, local
  <2> QED BY <1>2, <2>1, <2>2
<1>5. ASSUME NEW w \in Workers, WorkGoesOn(w)
      PROVE  /\ procs[w].key = key /\ RowMoves(w, tasks'[key]) /\ UNCHANGED <<cloud, flying>>
             /\ tasks'[key].phase \in {"building", "submitting"}
  <2>1. PICK pc \in {"build", "deploy"}, row \in Task : Advances(w, pc, row)
    BY <1>5 DEF WorkGoesOn, TakeTask, CallCreate, Poll
  <2>2. RowMoves(w, row) /\ UNCHANGED <<cloud, flying>> /\ row.phase \in {"building", "submitting"}
    BY <2>1 DEF Advances, local
  <2> QED BY <1>1, <1>2, <2>2
<1> QED BY <1>1, <1>3, <1>4, <1>5, Steps
        DEF LoseSession, RecoveryGoesOn, Look, TakeRecovery, Reconfigure, PagesMoves,
            CreationLands, CreationIsLost, DeploymentEnds, vars

LEMMA SteadyRowsStep ==
  ASSUME Shape, AskedOnce, OneTask, ResultsHold, Steady, [Next]_vars
  PROVE  SteadyRows'
<1> SUFFICES ASSUME NEW key \in Keys
             PROVE  /\ tasks'[key].deployment \in {None, key}
                    /\ tasks'[key].phase = "succeeded" => tasks'[key].deployment = key
                    /\ tasks'[key].phase = "failed" =>
                         /\ cloud'[key] \in {"absent", "failed"} /\ key \notin flying'
                         /\ \A w \in Workers : ~Deploying(w, key)'
                         /\ cloud'[key] # "absent" => tasks'[key].deployment = key
  BY DEF SteadyRows
<1>1. /\ tasks \in [Keys -> Task] /\ Workers \subseteq Processes /\ Workers \cap Operators = {}
      /\ RowOK(key)' /\ RowOK(key)
      /\ cloud \in [Keys -> {"absent", "building", "succeeded", "failed"}]
  BY ShapeStep, PublisherAssumption DEF Shape, TypeOK, Processes
<1>2. CASE tasks'[key] = tasks[key]
  <2>1. ASSUME tasks[key].phase = "failed"
        PROVE  /\ cloud'[key] = cloud[key] /\ key \notin flying'
               /\ \A w \in Workers : ~Deploying(w, key)'
    <3>1. /\ cloud[key] \in {"absent", "failed"} /\ key \notin flying
          /\ \A w \in Workers : ~Deploying(w, key)
      BY <2>1 DEF Steady, SteadyRows
    <3>2. \A w \in Workers : ~Deploying(w, key)'
      BY <1>2, <2>1, <3>1, NoNewDeploying
    <3>3. CASE cloud[key] = "absent"
      BY <3>1, <3>2, <3>3, NothingSent
    <3>4. CASE cloud[key] = "failed"
      <4>1. cloud'[key] = cloud[key]
        BY <3>4, CloudFinal
      <4>2. calls[key] # 0
        BY <3>4 DEF AskedOnce
      <4>3. key \notin flying'
        BY <3>1, <3>4, StaysLanded
      <4> QED BY <3>2, <4>1, <4>3
    <3> QED BY <3>1, <3>3, <3>4
  <2> QED BY <1>2, <2>1 DEF Steady, SteadyRows
<1>3. CASE Queued(key)
  BY <1>1, <1>3 DEF Queued, RowOK
<1>4. ASSUME NEW p \in Processes, procs[p].key = key, RowMoves(p, tasks'[key]), UNCHANGED <<cloud, flying>>,
             procs'[p] = Idle \/ tasks'[key].phase \in {"building", "submitting"}
      PROVE  /\ tasks'[key].deployment \in {None, key}
             /\ tasks'[key].phase = "succeeded" => tasks'[key].deployment = key
             /\ tasks'[key].phase = "failed" =>
                  /\ cloud'[key] \in {"absent", "failed"} /\ key \notin flying'
                  /\ \A w \in Workers : ~Deploying(w, key)'
                  /\ cloud'[key] # "absent" => tasks'[key].deployment = key
  <2> DEFINE old == tasks[key]
             row == tasks'[key]
             d == row.deployment
  <2>1. /\ row \in Task /\ Active(key) /\ Follows(old.phase, row.phase) /\ lock = p /\ Reason(p, row)
        /\ old.deployment \in {None, key}
        /\ \/ d = old.deployment
           \/ old.phase = "submitting" /\ row.phase = "deployed" /\ d \in Keys /\ cloud[d] # "absent"
    BY <1>4, PublisherAssumption DEF RowMoves, Active, Steady, SteadyRows
  <2>2. d \in {None, key}
    <3> SUFFICES ASSUME d # old.deployment, d # key PROVE FALSE
      BY <2>1
    <3>1. d \in Keys /\ cloud[d] # "absent" /\ \A k \in Keys : tasks[k].deployment # d
      BY <1>4, <2>1 DEF Reason
    <3>2. ~Unsubmitted(d)
      BY <3>1 DEF AskedOnce
    <3>3. ~Active(d)
      BY <2>1, <3>1 DEF OneTask
    <3>4. tasks[d].phase \in {"succeeded", "failed"}
      BY <1>1, <3>1, <3>2, <3>3, PhaseNames DEF Unsubmitted, Active, Task
    <3>5. tasks[d].deployment = d
      BY <3>1, <3>4 DEF Steady, SteadyRows
    <3> QED BY <3>1, <3>5
  <2>3. row.phase \in {"succeeded", "failed"} /\ old.phase = "deployed" => d = key
    BY <1>1, <2>1 DEF RowOK, Bound
  <2>4. row.phase = "succeeded" => old.phase = "deployed"
    BY <2>1, PhaseNames DEF Follows, Active
  <2>5. ASSUME row.phase = "failed"
        PROVE  /\ cloud[key] \in {"absent", "failed"} /\ key \notin flying
               /\ \A w \in Workers : ~Deploying(w, key)'
               /\ cloud[key] # "absent" => d = key
    <3>1. ASSUME NEW w \in Workers, Deploying(w, key)' PROVE Deploying(w, key) /\ w # p
      BY <1>4, <2>5, <3>1, NoNewDeploying, IdleType DEF Deploying
    <3>2. old.phase \in {"building", "submitting", "deployed"}
      BY <2>1, <2>5, PhaseNames DEF Follows, Active
    <3>3. CASE calls[key] = 0 /\ \A w \in Workers : Deploying(w, key) => w = p
      BY <3>1, <3>3 DEF AskedOnce
    <3>4. CASE old.phase = "building"
      BY <3>3, <3>4 DEF AskedOnce, Unsubmitted
    <3>5. CASE old.phase = "submitting" /\ procs[p].pc = "deploy"
      <4>1. p \in Workers /\ Deploying(p, key)
        BY <1>4, <3>5 DEF Shape, ProcOK, Processes, Deploying
      <4> QED BY <3>3, <4>1 DEF AskedOnce
    <3>6. CASE old.phase = "submitting" /\ procs[p].pc = "resolve" /\ procs[p].task.deployment = None
      <4>1. p \in Operators
        BY <3>6 DEF Shape, ProcOK, Processes
      <4>2. cloud[key] = "absent" /\ key \notin flying
        BY <1>4, <3>6, <4>1 DEF Steady, SteadyRecoveries
      <4>3. \A w \in Workers : ~Deploying(w, key)
        BY <1>1, <2>1, <4>1 DEF Steady, SteadyServers, Busy, Deploying
      <4> QED BY <3>1, <4>2, <4>3
    <3>7. CASE old.phase = "deployed"
      <4>1. d = key /\ cloud[key] = "failed"
        BY <1>4, <2>1, <2>3, <2>5, <3>7, PublisherAssumption, RowEnds DEF ResultsHold
      <4>2. calls[key] # 0 /\ key \notin flying
        BY <4>1 DEF AskedOnce
      <4> QED BY <3>1, <4>1, <4>2 DEF AskedOnce
    <3> QED BY <1>4, <2>1, <2>5, <3>2, <3>4, <3>5, <3>6, <3>7 DEF Reason
  <2> QED BY <1>4, <2>2, <2>3, <2>4, <2>5
<1> QED BY <1>2, <1>3, <1>4, RowMover

LEMMA SteadyStep ==
  Shape /\ AskedOnce /\ OneTask /\ ResultsHold /\ LookedAt /\ (steady => Steady) /\ [Next]_vars
    => (steady => Steady)'
<1> SUFFICES ASSUME Shape, AskedOnce, OneTask, ResultsHold, LookedAt, steady => Steady, [Next]_vars, steady'
             PROVE  Steady'
  OBVIOUS
<1>1. steady => SteadyServers
  BY DEF Steady
<1>2. steady /\ SteadyServers'
  BY <1>1, SteadyServersStep
<1>3. SteadyRecoveries' /\ SteadyRows'
  BY <1>2, SteadyRecoveriesStep, SteadyRowsStep
<1> QED BY <1>2, <1>3 DEF Steady

LEMMA SteadyInit == Init => (steady => Steady)
<1>1. NoTask.phase = "none" /\ NoTask.deployment = None
  BY DEF NoTask
<1> QED BY <1>1, SteadyServersInit, IdleType
        DEF Init, Steady, SteadyRecoveries, SteadyRows, Processes

----------------------------------------------------------------------------
\* The inductive invariant: the shape of rows and processes, the history of
\* each creation request, and what holds of the servers while they are steady.
Durable ==
  /\ Shape /\ AskedOnce /\ BuildsFrozen /\ ResultsHold /\ OneTask /\ LookedAt
  /\ SuccessIsDeployed
  /\ steady => Steady

LEMMA DurableStep == Durable /\ [Next]_vars => Durable'
BY ShapeStep, AskedOnceStep, BuildsFrozenStep, ResultsHoldStep, OneTaskStep, LookedAtStep,
   SuccessIsDeployedStep, SteadyStep
   DEF Durable

LEMMA DurableInit == Init => Durable
<1>1. Init => SuccessIsDeployed
  BY DEF Init, SuccessIsDeployed, NoTask
<1> QED
  BY <1>1, ShapeInit, AskedOnceInit, BuildsFrozenInit, ResultsHoldInit, OneTaskInit, LookedAtInit, SteadyInit
     DEF Durable

LEMMA DurableAlways == Spec => []Durable
BY DurableInit, DurableStep, PTL DEF Spec

\* The rows, the processes, the lock and the cloud keep their types: a row has
\* its frozen target from the moment it exists.
THEOREM TypeCorrect == Spec => []TypeOK
<1>1. Durable => TypeOK
  BY DEF Durable, Shape
<1> QED BY <1>1, DurableAlways, PTL

\* Pages is asked at most once to create the deployment of a build, whichever
\* processes stop, lose their session, or take the work over at whatever point.
THEOREM OneCreation == Spec => []NoSecondCreation
<1>1. Durable => NoSecondCreation
  <2> SUFFICES ASSUME Durable, NEW key \in Keys PROVE calls[key] <= 1
    BY DEF NoSecondCreation
  <2>1. calls[key] = 0 \/ calls[key] = 1
    BY DEF Durable, AskedOnce
  <2> QED BY <2>1
<1> QED BY <1>1, DurableAlways, PTL

\* A deployment is built by the configuration and executable frozen when its
\* build was queued, although servers are reconfigured one by one at any time.
THEOREM FrozenTargets == Spec => []BuiltByFrozenTarget
<1>1. Durable => BuiltByFrozenTarget
  BY DEF Durable, BuildsFrozen
<1> QED BY <1>1, DurableAlways, PTL

\* A recorded result is that of the deployment, and with steady servers a
\* build recorded as failed has no live deployment and can get none, whatever
\* deployments administrators name in their recoveries.
THEOREM RealResults == Spec => []ResultsAreReal
<1>1. Durable => ResultsAreReal
  BY DEF Durable, ResultsHold, Steady, SteadyRows, Deploying, ResultsAreReal, FailedBuildStaysOff
<1> QED BY <1>1, DurableAlways, PTL

\* The worker refines the trigger the publish service relies on: one build per
\* key, one at a time, and a result that is never taken back.
THEOREM WorkerImplementsTrigger == Spec => ImplementsTrigger
<1>1. Durable /\ [Next]_vars => [Trigger!Next]_statuses
  BY TriggerStep DEF Durable
<1> QED BY <1>1, TriggerInit, DurableAlways, PTL DEF Spec, ImplementsTrigger, Trigger!Spec, statuses
============================================================================
