----------------------------- MODULE NodeProofs -----------------------------
(* What one node does with its PostgreSQL, proved for any number of tasks,  *)
(* operations, restarts and leaders to rewind to; and that nodes found one  *)
(* system, for any number of nodes.                                         *)
EXTENDS MCNode, TLAPS

-----------------------------------------------------------------------------
(* Restarts.                                                                *)

RsTask == [task : {"none", "restart", "promote"}, id : Nat, start : Nat]
RsTypeOK ==
  /\ pgs \in [start : Nat, role : RS!Roles, flag : BOOLEAN, paused : BOOLEAN]
  /\ sched.id \in Nat /\ sched.start \in Nat
  /\ exec \in RsTask
  /\ log \in [gone : SUBSET Nat, last : Nat, wrong : BOOLEAN, recovering : BOOLEAN]

(* The identifiers of schedules are used once; what is gone is neither      *)
(* scheduled nor carried out.                                               *)
RsIds ==
  /\ 0 \notin log.gone /\ exec.id \notin log.gone
  /\ exec.id <= log.last /\ \A i \in log.gone : i <= log.last
  /\ sched.on => sched.id \notin log.gone /\ sched.id # exec.id /\ sched.id <= log.last /\ sched.id # 0

(* No other start of PostgreSQL comes between the decision and the restart. *)
RsStart == exec.id # 0 => exec.task = "restart" /\ exec.start = pgs.start

RsInv == RsTypeOK /\ RsIds /\ RsStart /\ ~log.wrong

(* The fields of a typed state of the restarts.                             *)
LEMMA RsFacts ==
  ASSUME RsTypeOK
  PROVE  /\ pgs.start \in Nat /\ exec.task \in {"none", "restart", "promote"} /\ exec.id \in Nat /\ exec.start \in Nat
         /\ log.gone \subseteq Nat /\ log.last \in Nat /\ sched.id \in Nat /\ sched.start \in Nat
  BY DEF RsTypeOK, RsTask

(* Steps that start and schedule nothing.                                   *)
LEMMA RsQuiet ==
  ASSUME RsInv, sched' = sched, exec' = exec, log' = log, RsTypeOK', pgs'.start = pgs.start
  PROVE  RsInv'
  BY DEF RsInv, RsIds, RsStart

(* POST /restart with a schedule stores it.                                 *)
LEMMA RsPostRestartAt ==
  ASSUME RsInv, RS!PostRestartAt
  PROVE  RsInv'
  <1>1. PICK at, f : sched' = [on |-> TRUE, at |-> at, filter |-> f, start |-> pgs.start, id |-> log.last + 1]
    BY DEF RS!PostRestartAt, RS!ScheduleFutureRestart
  <1> DEFINE l == log.last + 1
  <1>2. log' = [log EXCEPT !.last = l] /\ pgs' = pgs /\ exec' = exec
    BY DEF RS!PostRestartAt, RS!ScheduleFutureRestart
  <1>3. RsTypeOK /\ log.last \in Nat /\ l \in Nat /\ l # 0
    BY RsFacts DEF RsInv
  <1>4. sched'.on = TRUE /\ sched'.id = l /\ sched'.start = pgs.start
    BY <1>1
  <1>5. \A i \in Nat : i <= log.last => i <= l /\ i # l
    BY <1>3
  <1>6. l <= l
    BY <1>3
  <1> HIDE DEF l
  <1>7. RsTypeOK' /\ log'.last = l /\ log'.gone = log.gone /\ log'.wrong = log.wrong
    BY <1>2, <1>3, <1>4, RsFacts DEF RsTypeOK
  <1>8. RsIds'
    BY <1>2, <1>3, <1>4, <1>5, <1>6, <1>7, RsFacts DEF RsInv, RsIds
  <1>9. QED BY <1>2, <1>7, <1>8 DEF RsInv, RsStart

(* DELETE /restart forgets the schedule.                                    *)
LEMMA RsDeleteRestart ==
  ASSUME RsInv, RS!DeleteRestart
  PROVE  RsInv'
  <1> DEFINE g == log.gone \cup {sched.id}
  <1>1. sched' = RS!NoSchedule /\ log' = [log EXCEPT !.gone = g] /\ pgs' = pgs /\ exec' = exec /\ sched.on
    BY DEF RS!DeleteRestart, RS!DeleteFutureRestart
  <1>2. RsTypeOK /\ g \subseteq Nat
    BY RsFacts DEF RsInv
  <1> HIDE DEF g
  <1>3. sched'.on = FALSE /\ sched'.id = 0 /\ sched'.start = 0
    BY <1>1 DEF RS!NoSchedule
  <1>4. RsTypeOK' /\ log'.gone = g /\ log'.last = log.last /\ log'.wrong = log.wrong
    BY <1>1, <1>2, <1>3 DEF RsTypeOK
  <1>5. RsIds'
    BY <1>1, <1>3, <1>4 DEF RsInv, RsIds, g
  <1>6. QED BY <1>1, <1>4, <1>5 DEF RsInv, RsStart

(* ha.restart() of a request without a schedule is taken by an idle         *)
(* executor.                                                                *)
LEMMA RsRestart ==
  ASSUME RsInv, RS!Restart
  PROVE  RsInv'
  <1>1. RsTypeOK /\ sched' = sched /\ pgs' = pgs
    BY DEF RsInv, RS!Restart
  <1>2. CASE exec' = exec /\ log' = log
    BY <1>1, <1>2, RsQuiet DEF RsTypeOK
  <1>3. CASE exec.task = "none" /\ exec' = [RS!Idle EXCEPT !.task = "restart"] /\ log' = [log EXCEPT !.recovering = TRUE]
    <2>1. exec' = [task |-> "restart", id |-> 0, start |-> 0]
      BY <1>3 DEF RS!Idle
    <2>2. RsTypeOK' /\ exec'.id = 0 /\ log'.gone = log.gone /\ log'.last = log.last /\ log'.wrong = log.wrong
      <3>1. exec' \in RsTask /\ exec'.id = 0
        BY <2>1 DEF RsTask
      <3>2. log' \in [gone : SUBSET Nat, last : Nat, wrong : BOOLEAN, recovering : BOOLEAN]
            /\ log'.gone = log.gone /\ log'.last = log.last /\ log'.wrong = log.wrong
        BY <1>1, <1>3 DEF RsTypeOK
      <3>3. QED BY <1>1, <3>1, <3>2 DEF RsTypeOK
    <2>3. 0 <= log.last
      BY <1>1, RsFacts
    <2>4. RsIds'
      BY <1>1, <2>2, <2>3 DEF RsInv, RsIds
    <2>5. QED BY <2>2, <2>4 DEF RsInv, RsStart
  <1>4. QED BY <1>2, <1>3 DEF RS!Restart

(* The restart is taken over from the schedule only for the postmaster that *)
(* runs.                                                                    *)
LEMMA RsEvaluate ==
  ASSUME RsInv, RS!EvaluateScheduledRestart
  PROVE  RsInv'
  <1>1. RsTypeOK /\ sched' = RS!NoSchedule /\ pgs' = pgs /\ sched.on /\ exec.task = "none"
    BY DEF RsInv, RS!EvaluateScheduledRestart, RS!DeleteFutureRestart
  <1>2. sched'.on = FALSE /\ sched'.id = 0 /\ sched'.start = 0
    BY <1>1 DEF RS!NoSchedule
  <1>3. CASE exec' = exec /\ log' = log
    BY <1>1, <1>2, <1>3 DEF RsInv, RsTypeOK, RsIds, RsStart
  <1>4. CASE /\ sched.start = pgs.start /\ log' = [log EXCEPT !.recovering = TRUE]
             /\ exec' = [task |-> "restart", id |-> sched.id, start |-> sched.start]
    <2>1. /\ RsTypeOK' /\ exec'.id = sched.id /\ exec'.task = "restart" /\ exec'.start = pgs.start
          /\ log'.gone = log.gone /\ log'.last = log.last /\ log'.wrong = log.wrong
      <3>1. exec' \in RsTask /\ exec'.id = sched.id /\ exec'.task = "restart" /\ exec'.start = pgs.start
        BY <1>1, <1>4, RsFacts DEF RsTask
      <3>2. log' \in [gone : SUBSET Nat, last : Nat, wrong : BOOLEAN, recovering : BOOLEAN]
            /\ log'.gone = log.gone /\ log'.last = log.last /\ log'.wrong = log.wrong
        BY <1>1, <1>4 DEF RsTypeOK
      <3>3. QED BY <1>1, <1>2, <3>1, <3>2 DEF RsTypeOK
    <2>2. RsIds'
      BY <1>1, <1>2, <2>1 DEF RsInv, RsIds
    <2>3. QED BY <1>1, <2>1, <2>2 DEF RsInv, RsStart
  <1>5. QED BY <1>3, <1>4 DEF RS!EvaluateScheduledRestart

(* The executor restarts PostgreSQL.                                        *)
LEMMA RsDoRestart ==
  ASSUME RsInv, RS!DoRestart
  PROVE  RsInv'
  <1> DEFINE s == pgs.start + 1
             w == log.wrong \/ exec.id \in log.gone \/ (exec.id # 0 /\ exec.start # pgs.start)
  <1>1. /\ pgs' = [pgs EXCEPT !.start = s, !.flag = FALSE] /\ exec' = RS!Idle /\ sched' = sched
        /\ log' = [log EXCEPT !.wrong = w]
    BY DEF RS!DoRestart
  <1>2. RsTypeOK /\ s \in Nat /\ w = FALSE
    BY RsFacts DEF RsInv, RsIds, RsStart
  <1> HIDE DEF s, w
  <1>3. exec'.id = 0 /\ exec' \in RsTask
    BY <1>1 DEF RS!Idle, RsTask
  <1>4. RsTypeOK' /\ log'.gone = log.gone /\ log'.last = log.last /\ log'.wrong = FALSE
    BY <1>1, <1>2, <1>3 DEF RsTypeOK
  <1>5. 0 <= log.last
    BY <1>2, RsFacts
  <1>6. RsIds'
    BY <1>1, <1>3, <1>4, <1>5 DEF RsInv, RsIds
  <1>7. QED BY <1>3, <1>4, <1>6 DEF RsInv, RsStart

(* The other requests and cycles neither schedule nor restart.              *)
LEMMA RsOthers ==
  ASSUME RsInv,
         RS!PostRestart \/ RS!PostRecover \/ RS!PromoteTask \/ RS!Promoted \/ RS!NeedsRestart \/ RS!Pause \/ RS!Tick
  PROVE  RsInv'
  <1>1. RsTypeOK
    BY DEF RsInv
  <1>2. CASE RS!PostRestart \/ RS!Tick
    BY <1>1, <1>2, RsQuiet DEF RsTypeOK, RS!PostRestart, RS!Tick
  <1>3. CASE RS!NeedsRestart \/ RS!Pause
    BY <1>1, <1>3, RsQuiet DEF RsTypeOK, RS!NeedsRestart, RS!Pause
  <1>4. CASE RS!PostRecover
    <2>1. RsTypeOK' /\ pgs'.start = pgs.start /\ exec' = exec /\ sched' = sched
          /\ log'.gone = log.gone /\ log'.last = log.last /\ log'.wrong = log.wrong
      BY <1>1, <1>4 DEF RsTypeOK, RS!PostRecover, RS!Roles
    <2>2. QED BY <2>1 DEF RsInv, RsIds, RsStart
  <1>5. CASE RS!PromoteTask
    <2>1. exec' = [task |-> "promote", id |-> 0, start |-> 0] /\ pgs' = pgs /\ sched' = sched /\ log' = log
      BY <1>5 DEF RS!PromoteTask, RS!Idle
    <2>2. RsTypeOK' /\ exec'.id = 0 /\ 0 <= log.last
      BY <1>1, <2>1, RsFacts DEF RsTypeOK, RsTask
    <2>3. QED BY <2>1, <2>2 DEF RsInv, RsIds, RsStart
  <1>6. CASE RS!Promoted
    <2>1. exec' = [task |-> "none", id |-> 0, start |-> 0] /\ pgs' = [pgs EXCEPT !.role = "primary"]
          /\ sched' = sched /\ log' = log
      BY <1>6 DEF RS!Promoted, RS!Idle
    <2>2. RsTypeOK' /\ exec'.id = 0 /\ 0 <= log.last
      BY <1>1, <2>1, RsFacts DEF RsTypeOK, RsTask, RS!Roles
    <2>3. QED BY <2>1, <2>2 DEF RsInv, RsIds, RsStart
  <1>7. QED BY <1>2, <1>3, <1>4, <1>5, <1>6

(* PostgreSQL was restarted by somebody else.                               *)
LEMMA RsByItself ==
  ASSUME RsInv, RS!RestartsByItself
  PROVE  RsInv'
  <1> DEFINE s == pgs.start + 1
  <1>1. pgs' = [pgs EXCEPT !.start = s, !.flag = FALSE] /\ exec' = exec /\ sched' = sched /\ log' = log
        /\ exec.task = "none"
    BY DEF RS!RestartsByItself
  <1>2. RsTypeOK /\ s \in Nat
    BY RsFacts DEF RsInv
  <1> HIDE DEF s
  <1>3. RsTypeOK'
    BY <1>1, <1>2 DEF RsTypeOK
  <1>4. QED BY <1>1, <1>3 DEF RsInv, RsIds, RsStart

(* RestartsAsAsked of the module on its own.                                *)
LEMMA RestartsProved == RS!RsSpec => []RS!RestartsAsAsked
  <1>1. RS!RsInit => RsInv
    <2> SUFFICES ASSUME RS!RsInit PROVE RsInv
      OBVIOUS
    <2>1. /\ exec = [task |-> "none", id |-> 0, start |-> 0] /\ sched.on = FALSE /\ sched.id = 0 /\ sched.start = 0
          /\ log = [gone |-> {}, last |-> 0, wrong |-> FALSE, recovering |-> FALSE]
      BY DEF RS!RsInit, RS!NoSchedule, RS!Idle
    <2>2. pgs \in [start : Nat, role : RS!Roles, flag : BOOLEAN, paused : BOOLEAN]
      BY DEF RS!RsInit
    <2>3. QED BY <2>1, <2>2 DEF RsInv, RsTypeOK, RsTask, RsIds, RsStart
  <1>2. RsInv /\ [RS!RsNext]_(RS!rsVars) => RsInv'
    <2> SUFFICES ASSUME RsInv, [RS!RsNext]_(RS!rsVars) PROVE RsInv'
      OBVIOUS
    <2>1. CASE UNCHANGED RS!rsVars
      BY <2>1, RsQuiet DEF RsInv, RsTypeOK, RS!rsVars
    <2>2. CASE RS!RsNext
      BY <2>2, RsPostRestartAt, RsDeleteRestart, RsRestart, RsEvaluate, RsDoRestart, RsOthers, RsByItself DEF RS!RsNext
    <2>3. QED BY <2>1, <2>2
  <1>3. RsInv => RS!RestartsAsAsked
    BY DEF RsInv, RS!RestartsAsAsked
  <1>4. QED BY <1>1, <1>2, <1>3, PTL DEF RS!RsSpec

(* A scheduled restart is carried out only if it was not deleted, and only  *)
(* for the postmaster that ran when it was asked for, however requests,     *)
(* cycles and other restarts interleave.                                    *)
THEOREM ScheduledRestarts == Spec => []RestartsAsAsked
  <1> DEFINE Here == part = "restarts"
  <1>1. Init /\ Here => RS!RsInit
    BY DEF Init
  <1>2. Here /\ [Next]_vars => Here' /\ [RS!RsNext]_(RS!rsVars)
    BY DEF Next, vars, rsVars, RS!rsVars
  <1>3. ~Here /\ [Next]_vars => ~Here'
    BY DEF Next, vars
  <1>4. RS!RsSpec => []RS!RestartsAsAsked
    BY RestartsProved
  <1>5. (Here => RS!RestartsAsAsked) => RestartsAsAsked
    BY DEF RestartsAsAsked
  <1> HIDE DEF Here
  <1>6. QED BY <1>1, <1>2, <1>3, <1>4, <1>5, PTL DEF Spec, RS!RsSpec

-----------------------------------------------------------------------------
(* The asynchronous executor.                                               *)

AeTasks == 1..MaxTasks
AePlaces == {"none", "queued", "begun", "task", "started", "subprocess", "finally", "done"}
AeStopping == {"cancel", "kill", "waiting", "woken", "stopped"}
AeTypeOK ==
  /\ ex \in [action : 0..MaxTasks, cancelled : BOOLEAN, event : BOOLEAN, submitted : 0..MaxTasks]
  /\ crit \in [cancelled : BOOLEAN, result : BOOLEAN, denied : SUBSET AeTasks]
  /\ worker \in [AeTasks -> AePlaces]
  /\ caller \in [at : {"idle", "schedule"} \cup AeStopping, stopping : BOOLEAN]

Live(t) == worker[t] \notin {"none", "done"}
Inside(t) == worker[t] \in {"begun", "task", "started", "subprocess"}

(* Tasks are numbered in the order they come in, and there is one at a time.*)
AeOne ==
  /\ \A t \in AeTasks : t > ex.submitted => worker[t] = "none"
  /\ \A s, t \in AeTasks : Live(s) /\ Live(t) => s = t
  /\ \A t \in AeTasks : Live(t) /\ caller.at # "stopped" => ex.action = t
  /\ ex.action <= ex.submitted /\ \A t \in crit.denied : t <= ex.submitted

(* The critical part: a task that has started PostgreSQL has a result, and  *)
(* one that was cancelled can see it.                                       *)
AeCritical ==
  \A t \in AeTasks : /\ worker[t] = "started" => crit.result /\ t \notin crit.denied
                     /\ t \in crit.denied /\ Live(t) => crit.cancelled

(* The shutdown: the event is only set while no task is between begin and   *)
(* end, and a task that has not begun sees that it was cancelled.           *)
AeShutdown ==
  /\ caller.stopping <=> caller.at \in AeStopping
  /\ ex.event => \A t \in AeTasks : ~Inside(t)
  /\ caller.at \in {"kill", "waiting"} => ex.cancelled
  /\ caller.at \in {"woken", "stopped"} => \A t \in AeTasks : ~Inside(t) /\ (Live(t) => ex.cancelled)

AeInv == AeTypeOK /\ AeOne /\ AeCritical /\ AeShutdown

(* The fields of a typed state of the executor.                             *)
LEMMA AeFacts ==
  ASSUME AeTypeOK
  PROVE  /\ ex.action \in 0..MaxTasks /\ ex.submitted \in 0..MaxTasks /\ ex.cancelled \in BOOLEAN /\ ex.event \in BOOLEAN
         /\ crit.cancelled \in BOOLEAN /\ crit.result \in BOOLEAN /\ crit.denied \subseteq AeTasks
         /\ \A t \in AeTasks : worker[t] \in AePlaces
         /\ caller.at \in {"idle", "schedule"} \cup AeStopping /\ caller.stopping \in BOOLEAN
  BY DEF AeTypeOK

(* Submitting a task to a free executor.                                    *)
LEMMA AeSubmit ==
  ASSUME MaxTasks \in Nat, AeInv, caller.at \in {"idle", "schedule"}, ex.action = 0, ex.submitted < MaxTasks,
         AE!Submit, crit' = crit, caller' \in [at : {"idle", "schedule"}, stopping : {FALSE}]
  PROVE  AeInv'
  <1>1. PICK t : t = ex.submitted + 1
    OBVIOUS
  <1>2. AeTypeOK /\ t \in AeTasks /\ ex.submitted \in Nat /\ t \in 0..MaxTasks
    BY <1>1, AeFacts DEF AeInv, AeTasks
  <1>3. /\ ex' = [action |-> t, cancelled |-> FALSE, event |-> TRUE, submitted |-> t]
        /\ worker' = [worker EXCEPT ![t] = "queued"]
    BY <1>1 DEF AE!Submit
  <1>4. /\ worker'[t] = "queued" /\ \A s \in AeTasks : s # t => worker'[s] = worker[s]
        /\ worker' \in [AeTasks -> AePlaces]
    BY <1>2, <1>3 DEF AeTypeOK, AePlaces
  <1>5. \A s \in AeTasks : worker[s] \in {"none", "done"}
    BY <1>2, AeFacts DEF AeInv, AeOne, Live, AeStopping, AeTasks
  <1>6. ex'.action = t /\ ex'.cancelled = FALSE /\ ex'.event = TRUE /\ ex'.submitted = t
    BY <1>3
  <1>7. AeTypeOK'
    BY <1>2, <1>3, <1>4 DEF AeTypeOK, AeStopping
  <1>8. AeOne'
    <2>1. \A s \in AeTasks : s > t => s > ex.submitted /\ s # t
      BY <1>1, <1>2 DEF AeTasks
    <2>2. \A s \in AeTasks : s <= ex.submitted => s <= t
      BY <1>1, <1>2 DEF AeTasks
    <2>3. t <= t
      BY <1>2 DEF AeTasks
    <2>4. crit.denied \subseteq AeTasks
      BY <1>2, AeFacts
    <2>5. QED BY <1>4, <1>5, <1>6, <2>1, <2>2, <2>3, <2>4 DEF AeInv, AeOne, Live
  <1>9. t \notin crit.denied
    BY <1>1, <1>2 DEF AeInv, AeOne
  <1>10. AeCritical'
    BY <1>4, <1>5, <1>9 DEF AeInv, AeCritical, Live
  <1>11. AeShutdown'
    BY <1>4, <1>5, <1>6 DEF AeInv, AeShutdown, Inside, Live, AeStopping
  <1>12. QED BY <1>7, <1>8, <1>10, <1>11 DEF AeInv

(* A task moves on from one place to another, and is not done yet.          *)
LEMMA AeMoves ==
  ASSUME AeInv, NEW t \in AeTasks, Live(t), NEW place \in AePlaces \ {"none", "queued", "done"},
         worker' = [worker EXCEPT ![t] = place], caller' = caller,
         ex' = ex, crit'.denied = crit.denied, crit'.cancelled = crit.cancelled,
         crit' \in [cancelled : BOOLEAN, result : BOOLEAN, denied : SUBSET AeTasks],
         crit.result => crit'.result, place = "started" => crit'.result /\ ~crit.cancelled,
         place = "finally" \/ Inside(t)
  PROVE  AeInv'
  <1>1. AeTypeOK
    BY DEF AeInv
  <1>2. /\ worker'[t] = place /\ \A s \in AeTasks : s # t => worker'[s] = worker[s]
        /\ worker' \in [AeTasks -> AePlaces]
    BY <1>1 DEF AeTypeOK, AePlaces
  <1>3. AeTypeOK'
    BY <1>1, <1>2 DEF AeTypeOK
  <1>4. \A s \in AeTasks : Live(s)' <=> Live(s)
    BY <1>2 DEF Live
  <1>5. \A s \in AeTasks : Inside(s)' => Inside(s)
    BY <1>2 DEF Inside
  <1>6. AeOne'
    <2>1. ~(t > ex.submitted)
      BY DEF AeInv, AeOne, Live
    <2>2. QED BY <1>2, <1>4, <2>1 DEF AeInv, AeOne
  <1>7. AeCritical'
    BY <1>2, <1>4 DEF AeInv, AeCritical
  <1>8. AeShutdown'
    BY <1>4, <1>5 DEF AeInv, AeShutdown
  <1>9. QED BY <1>3, <1>6, <1>7, <1>8 DEF AeInv

(* The task starts, runs its subprocess and sees it end.                    *)
LEMMA AeWork ==
  ASSUME MaxTasks \in Nat, AeInv, NEW t \in AeTasks,
         AE!ResetIsCancelled(t) \/ AE!StartPostmaster(t) \/ AE!CallSubprocess(t) \/ AE!SubprocessEnds(t)
  PROVE  AeInv'
  <1>1. AeTypeOK /\ ex' = ex /\ caller' = caller
    BY DEF AeInv, AE!ResetIsCancelled, AE!StartPostmaster, AE!CallSubprocess, AE!SubprocessEnds
  <1>2. Live(t) /\ Inside(t)
    BY DEF AE!ResetIsCancelled, AE!StartPostmaster, AE!CallSubprocess, AE!SubprocessEnds, Live, Inside
  <1>3. CASE crit' = crit /\ \E place \in {"task", "subprocess", "finally"} : worker' = [worker EXCEPT ![t] = place]
    <2>1. PICK place \in {"task", "subprocess", "finally"} : worker' = [worker EXCEPT ![t] = place]
      BY <1>3
    <2>2. place \in AePlaces \ {"none", "queued", "done"} /\ place # "started"
      BY DEF AePlaces
    <2>3. crit' \in [cancelled : BOOLEAN, result : BOOLEAN, denied : SUBSET AeTasks]
      BY <1>1, <1>3 DEF AeTypeOK
    <2>4. QED BY <1>1, <1>2, <1>3, <2>1, <2>2, <2>3, AeMoves
  <1>4. CASE worker' = [worker EXCEPT ![t] = "started"] /\ crit' = [crit EXCEPT !.result = TRUE] /\ ~crit.cancelled
    <2>1. /\ crit' \in [cancelled : BOOLEAN, result : BOOLEAN, denied : SUBSET AeTasks]
          /\ crit'.denied = crit.denied /\ crit'.cancelled = crit.cancelled /\ crit'.result
      BY <1>1, <1>4 DEF AeTypeOK
    <2>2. "started" \in AePlaces \ {"none", "queued", "done"}
      BY DEF AePlaces
    <2>3. QED BY <1>1, <1>2, <1>4, <2>1, <2>2, AeMoves
  <1>5. QED BY <1>3, <1>4 DEF AE!ResetIsCancelled, AE!StartPostmaster, AE!CallSubprocess, AE!SubprocessEnds, AE!Goto

(* A task begins, unless it was cancelled: then the event is not set any    *)
(* more.                                                                    *)
LEMMA AeBegin ==
  ASSUME MaxTasks \in Nat, AeInv, NEW t \in AeTasks, AE!Begin(t)
  PROVE  AeInv'
  <1>1. AeTypeOK /\ worker[t] = "queued" /\ Live(t) /\ crit' = crit /\ caller' = caller
    BY DEF AeInv, AE!Begin, Live
  <1>2. CASE ex.cancelled
    <2>1. worker' = [worker EXCEPT ![t] = "finally"] /\ ex' = ex
      BY <1>2 DEF AE!Begin, AE!Goto
    <2>2. "finally" \in AePlaces \ {"none", "queued", "done"}
      BY DEF AePlaces
    <2>3. crit' \in [cancelled : BOOLEAN, result : BOOLEAN, denied : SUBSET AeTasks]
      BY <1>1 DEF AeTypeOK
    <2>4. QED BY <1>1, <2>1, <2>2, <2>3, AeMoves
  <1>3. CASE ~ex.cancelled
    <2>1. worker' = [worker EXCEPT ![t] = "begun"] /\ ex' = [ex EXCEPT !.event = FALSE]
      BY <1>3 DEF AE!Begin, AE!Goto
    <2>2. /\ worker'[t] = "begun" /\ \A s \in AeTasks : s # t => worker'[s] = worker[s]
          /\ worker' \in [AeTasks -> AePlaces]
      BY <1>1, <2>1 DEF AeTypeOK, AePlaces
    <2>3. ex'.action = ex.action /\ ex'.cancelled = ex.cancelled /\ ex'.event = FALSE /\ ex'.submitted = ex.submitted
      BY <1>1, <2>1 DEF AeTypeOK
    <2>4. AeTypeOK'
      BY <1>1, <2>1, <2>2 DEF AeTypeOK
    <2>5. \A s \in AeTasks : Live(s)' <=> Live(s)
      BY <1>1, <2>2 DEF Live
    <2>6. AeOne'
      <3>1. ~(t > ex.submitted)
        BY <1>1 DEF AeInv, AeOne
      <3>2. QED BY <1>1, <2>2, <2>3, <2>5, <3>1 DEF AeInv, AeOne
    <2>7. AeCritical'
      BY <1>1, <2>2, <2>5 DEF AeInv, AeCritical
    <2>8. caller.at \notin {"kill", "waiting", "woken", "stopped"}
      BY <1>1, <1>3 DEF AeInv, AeShutdown
    <2>9. AeShutdown'
      BY <1>1, <2>3, <2>8 DEF AeInv, AeShutdown
    <2>10. QED BY <2>4, <2>6, <2>7, <2>9 DEF AeInv
  <1>4. QED BY <1>2, <1>3

(* The task ends and frees the executor.                                    *)
LEMMA AeFinally ==
  ASSUME MaxTasks \in Nat, AeInv, NEW t \in AeTasks, AE!Finally(t)
  PROVE  AeInv'
  <1> DEFINE at == IF caller.at = "waiting" THEN "woken" ELSE caller.at
  <1>1. AeTypeOK /\ worker[t] = "finally" /\ Live(t)
    BY DEF AeInv, AE!Finally, Live
  <1>2. /\ worker' = [worker EXCEPT ![t] = "done"] /\ ex' = [ex EXCEPT !.action = 0, !.event = TRUE]
        /\ crit' = [crit EXCEPT !.cancelled = FALSE, !.result = FALSE] /\ caller' = [caller EXCEPT !.at = at]
    BY DEF AE!Finally, AE!Goto, AE!NoTask
  <1>3. at \in {"idle", "schedule"} \cup AeStopping
    BY <1>1, AeFacts DEF AeStopping
  <1>4. (at \in AeStopping <=> caller.at \in AeStopping) /\ (at = "stopped" <=> caller.at = "stopped")
        /\ (at \in {"kill", "waiting"} => caller.at = "kill")
    BY DEF AeStopping
  <1> HIDE DEF at
  <1>5. /\ worker'[t] = "done" /\ \A s \in AeTasks : s # t => worker'[s] = worker[s]
        /\ worker' \in [AeTasks -> AePlaces]
    BY <1>1, <1>2 DEF AeTypeOK, AePlaces
  <1>6. 0 \in 0..MaxTasks /\ 0 <= ex.submitted
    BY <1>1, AeFacts
  <1>7. ex'.action = 0 /\ ex'.cancelled = ex.cancelled /\ ex'.submitted = ex.submitted
        /\ ex' \in [action : 0..MaxTasks, cancelled : BOOLEAN, event : BOOLEAN, submitted : 0..MaxTasks]
    BY <1>1, <1>2, <1>6 DEF AeTypeOK
  <1>8. crit'.denied = crit.denied /\ crit' \in [cancelled : BOOLEAN, result : BOOLEAN, denied : SUBSET AeTasks]
    BY <1>1, <1>2 DEF AeTypeOK
  <1>9. caller'.at = at /\ caller'.stopping = caller.stopping
        /\ caller' \in [at : {"idle", "schedule"} \cup AeStopping, stopping : BOOLEAN]
    BY <1>1, <1>2, <1>3 DEF AeTypeOK
  <1>10. \A s \in AeTasks : worker'[s] \in {"none", "done"}
    BY <1>1, <1>5, AeFacts DEF AeInv, AeOne, Live
  <1>11. AeTypeOK'
    BY <1>5, <1>7, <1>8, <1>9 DEF AeTypeOK
  <1>12. AeOne'
    <2>1. ~(t > ex.submitted)
      BY <1>1 DEF AeInv, AeOne
    <2>2. QED BY <1>5, <1>6, <1>7, <1>8, <1>10, <2>1 DEF AeInv, AeOne, Live
  <1>13. AeCritical' /\ AeShutdown'
    BY <1>4, <1>7, <1>9, <1>10 DEF AeInv, AeCritical, AeShutdown, Live, Inside
  <1>14. QED BY <1>11, <1>12, <1>13 DEF AeInv

(* The critical task is cancelled if it can still be.                       *)
LEMMA AeCancelCritical ==
  ASSUME MaxTasks \in Nat, AeInv, AE!CancelCritical
  PROVE  AeInv'
  <1> DEFINE d == crit.denied \cup {ex.action}
  <1>1. AeTypeOK /\ ex' = ex /\ worker' = worker /\ caller' = caller /\ ~crit.result
        /\ crit' = [crit EXCEPT !.cancelled = TRUE, !.denied = d]
    BY DEF AeInv, AE!CancelCritical
  <1>2. d \subseteq AeTasks
    BY <1>1, AeFacts DEF AE!CancelCritical, AE!NoTask, AeTasks
  <1>3. \A t \in d : t <= ex.submitted
    BY DEF AeInv, AeOne
  <1> HIDE DEF d
  <1>4. AeTypeOK' /\ crit'.denied = d /\ crit'.cancelled
    BY <1>1, <1>2 DEF AeTypeOK
  <1>5. AeOne' /\ AeShutdown'
    BY <1>1, <1>3, <1>4 DEF AeInv, AeOne, AeShutdown, Live, Inside
  <1>6. AeCritical'
    BY <1>1, <1>4 DEF AeInv, AeCritical
  <1>7. QED BY <1>4, <1>5, <1>6 DEF AeInv

(* The caller of cancel() moves on; the tasks do not.                       *)
LEMMA AeCaller ==
  ASSUME MaxTasks \in Nat, AeInv, AeTypeOK', worker' = worker, crit' = crit,
         ex'.submitted = ex.submitted, ex'.event = ex.event,
         ex'.action = ex.action \/ (ex'.action = 0 /\ caller'.at = "stopped"),
         ex'.cancelled = ex.cancelled \/ ex'.cancelled, caller.at # "stopped",
         caller'.stopping <=> caller'.at \in AeStopping,
         caller'.at \in {"kill", "waiting"} => ex'.cancelled,
         caller'.at \in {"woken", "stopped"} => \A t \in AeTasks : ~Inside(t) /\ (Live(t) => ex.cancelled)
  PROVE  AeInv'
  <1>1. AeTypeOK
    BY DEF AeInv
  <1>2. \A t \in AeTasks : (Live(t)' <=> Live(t)) /\ (Inside(t)' <=> Inside(t))
    BY DEF Live, Inside
  <1>3. ex'.action <= ex'.submitted
    <2>1. 0 <= ex.submitted
      BY <1>1, AeFacts
    <2>2. QED BY <2>1 DEF AeInv, AeOne
  <1>4. AeOne'
    BY <1>2, <1>3 DEF AeInv, AeOne
  <1>5. AeCritical'
    BY <1>2 DEF AeInv, AeCritical
  <1>6. AeShutdown'
    BY <1>2 DEF AeInv, AeShutdown
  <1>7. QED BY <1>4, <1>5, <1>6 DEF AeInv

(* Cancelling a task, step by step: without a forced reinitialize the       *)
(* executor is not freed under it.                                          *)
LEMMA AeCancel ==
  ASSUME MaxTasks \in Nat, ForceReinit = {FALSE}, AeInv,
         AE!Reinitialize \/ AE!Shutdown \/ AE!CancelTask \/ AE!CancelSubprocess \/ AE!ResetAction
  PROVE  AeInv'
  <1>1. AeTypeOK /\ worker' = worker /\ crit' = crit
    BY DEF AeInv, AE!Reinitialize, AE!Shutdown, AE!CancelTask, AE!CancelSubprocess, AE!ResetAction
  <1>2. caller.stopping <=> caller.at \in AeStopping
    BY DEF AeInv, AeShutdown
  <1>3. caller = [at |-> caller.at, stopping |-> caller.stopping]
    BY <1>1 DEF AeTypeOK
  <1>4. ASSUME NEW a, NEW s, caller' = [at |-> a, stopping |-> s]
        PROVE  caller'.at = a /\ caller'.stopping = s
    BY <1>4
  <1>5. CASE AE!Reinitialize
    <2>1. caller' = [at |-> "schedule", stopping |-> FALSE] /\ ex' = ex /\ caller.at = "idle"
      BY <1>1, <1>3, <1>5 DEF AE!Reinitialize, AeTypeOK
    <2>2. AeTypeOK' /\ caller'.at = "schedule" /\ caller'.stopping = FALSE
      BY <1>1, <2>1 DEF AeTypeOK
    <2>3. QED BY <1>1, <2>1, <2>2, AeCaller DEF AeStopping
  <1>6. CASE AE!Shutdown
    <2>1. caller' = [at |-> "cancel", stopping |-> TRUE] /\ ex' = ex /\ caller.at = "idle"
      BY <1>3, <1>6 DEF AE!Shutdown
    <2>2. AeTypeOK' /\ caller'.at = "cancel" /\ caller'.stopping = TRUE
      BY <1>1, <2>1 DEF AeTypeOK, AeStopping
    <2>3. QED BY <1>1, <2>1, <2>2, AeCaller DEF AeStopping
  <1>7. CASE AE!CancelTask
    <2>1. caller.at = "cancel" /\ caller.stopping
      BY <1>2, <1>7 DEF AE!CancelTask, AeStopping
    <2>2. CASE ex.action = 0
      <3>1. caller' = [caller EXCEPT !.at = "stopped"] /\ ex' = ex
        BY <1>7, <2>1, <2>2 DEF AE!CancelTask, AE!NoTask, AE!Return
      <3>2. AeTypeOK' /\ caller'.at = "stopped" /\ caller'.stopping = TRUE
        BY <1>1, <2>1, <3>1 DEF AeTypeOK, AeStopping
      <3>3. \A t \in AeTasks : ~Live(t) /\ ~Inside(t)
        BY <2>1, <2>2 DEF AeInv, AeOne, Live, Inside, AeTasks
      <3>4. QED BY <1>1, <2>1, <2>2, <3>1, <3>2, <3>3, AeCaller DEF AeStopping
    <2>3. CASE ex.action # 0
      <3>1. caller' = [caller EXCEPT !.at = "kill"] /\ ex' = [ex EXCEPT !.cancelled = TRUE]
        BY <1>7, <2>3 DEF AE!CancelTask, AE!NoTask
      <3>2. /\ AeTypeOK' /\ caller'.at = "kill" /\ caller'.stopping = TRUE
            /\ ex'.action = ex.action /\ ex'.cancelled = TRUE /\ ex'.event = ex.event /\ ex'.submitted = ex.submitted
        BY <1>1, <2>1, <3>1 DEF AeTypeOK, AeStopping
      <3>3. QED BY <1>1, <2>1, <3>1, <3>2, AeCaller DEF AeStopping
    <2>4. QED BY <2>2, <2>3
  <1>8. CASE AE!CancelSubprocess
    <2>1. PICK a \in {"woken", "waiting"} : caller' = [caller EXCEPT !.at = a] /\ ex' = ex /\ (a = "woken" <=> ex.event)
      BY <1>8 DEF AE!CancelSubprocess
    <2>2. caller.at = "kill" /\ caller.stopping /\ ex.cancelled
      BY <1>2, <1>8 DEF AE!CancelSubprocess, AeStopping, AeInv, AeShutdown
    <2>3. AeTypeOK' /\ caller'.at = a /\ caller'.stopping = TRUE
      BY <1>1, <2>1, <2>2 DEF AeTypeOK, AeStopping
    <2>4. ex.event => \A t \in AeTasks : ~Inside(t)
      BY DEF AeInv, AeShutdown
    <2>5. QED BY <1>1, <2>1, <2>2, <2>3, <2>4, AeCaller DEF AeStopping
  <1>9. CASE AE!ResetAction
    <2>1. caller.at = "woken" /\ caller.stopping /\ \A t \in AeTasks : ~Inside(t) /\ (Live(t) => ex.cancelled)
      BY <1>2, <1>9 DEF AE!ResetAction, AeStopping, AeInv, AeShutdown
    <2>2. caller' = [caller EXCEPT !.at = "stopped"] /\ ex' = [ex EXCEPT !.action = 0]
      BY <1>9, <2>1 DEF AE!ResetAction, AE!NoTask, AE!Return
    <2>3. 0 \in 0..MaxTasks
      OBVIOUS
    <2>4. /\ AeTypeOK' /\ caller'.at = "stopped" /\ caller'.stopping = TRUE
          /\ ex'.action = 0 /\ ex'.cancelled = ex.cancelled /\ ex'.event = ex.event /\ ex'.submitted = ex.submitted
      BY <1>1, <2>1, <2>2, <2>3 DEF AeTypeOK, AeStopping
    <2>5. QED BY <1>1, <2>1, <2>4, AeCaller DEF AeStopping
  <1>10. QED BY <1>5, <1>6, <1>7, <1>8, <1>9

(* try_run_async() and schedule() by the main thread or the API.            *)
LEMMA AeSchedule ==
  ASSUME MaxTasks \in Nat, AeInv, AE!TryRunAsync \/ AE!ScheduleReinit
  PROVE  AeInv'
  <1>1. AeTypeOK /\ crit' = crit
    BY DEF AeInv, AE!TryRunAsync, AE!ScheduleReinit
  <1>2. caller.stopping <=> caller.at \in AeStopping
    BY DEF AeInv, AeShutdown
  <1>3. CASE AE!TryRunAsync
    <2>1. caller.at \in {"idle", "schedule"} /\ caller' = caller /\ caller.stopping = FALSE
      BY <1>1, <1>2, <1>3, AeFacts DEF AE!TryRunAsync
    <2>2. caller' \in [at : {"idle", "schedule"}, stopping : {FALSE}]
      BY <1>1, <2>1 DEF AeTypeOK
    <2>3. QED BY <1>1, <1>3, <2>1, <2>2, AeSubmit DEF AE!TryRunAsync, AE!Schedule, AE!NoTask
  <1>4. CASE AE!ScheduleReinit
    <2>1. caller.at = "schedule" /\ caller.stopping = FALSE /\ caller' = [caller EXCEPT !.at = "idle"]
      BY <1>1, <1>2, <1>4, AeFacts DEF AE!ScheduleReinit, AeStopping
    <2>2. caller' \in [at : {"idle", "schedule"}, stopping : {FALSE}] /\ caller'.at = "idle" /\ caller'.stopping = FALSE
      BY <1>1, <2>1 DEF AeTypeOK
    <2>3. CASE AE!Schedule
      BY <1>1, <2>1, <2>2, <2>3, AeSubmit DEF AE!Schedule, AE!NoTask
    <2>4. CASE UNCHANGED <<ex, worker>>
      <3>1. AeTypeOK'
        BY <1>1, <2>1, <2>4 DEF AeTypeOK
      <3>2. QED BY <1>1, <2>1, <2>2, <2>4, <3>1, AeCaller DEF AeStopping
    <2>5. QED BY <1>4, <2>3, <2>4 DEF AE!ScheduleReinit
  <1>5. QED BY <1>3, <1>4

(* TasksUnderControl of the module on its own.                              *)
LEMMA ExecutorProved ==
  ASSUME MaxTasks \in Nat, ForceReinit = {FALSE}
  PROVE  AE!ExecSpec => []AE!TasksUnderControl
  <1>1. AE!ExecInit => AeInv
    <2> SUFFICES ASSUME AE!ExecInit PROVE AeInv
      OBVIOUS
    <2>1. /\ ex = [action |-> 0, cancelled |-> FALSE, event |-> FALSE, submitted |-> 0]
          /\ crit = [cancelled |-> FALSE, result |-> FALSE, denied |-> {}]
          /\ worker = [t \in AeTasks |-> "none"] /\ caller = [at |-> "idle", stopping |-> FALSE]
      BY DEF AE!ExecInit, AE!NoTask, AE!Tasks, AeTasks
    <2>2. 0 \in 0..MaxTasks /\ 0 <= 0
      OBVIOUS
    <2>3. AeTypeOK
      BY <2>1, <2>2 DEF AeTypeOK, AePlaces
    <2>4. QED BY <2>1, <2>2, <2>3 DEF AeInv, AeOne, AeCritical, AeShutdown, Live, Inside, AeStopping
  <1>2. AeInv /\ [AE!ExecNext]_(AE!execVars) => AeInv'
    <2> SUFFICES ASSUME AeInv, [AE!ExecNext]_(AE!execVars) PROVE AeInv'
      OBVIOUS
    <2>1. CASE UNCHANGED AE!execVars
      BY <2>1 DEF AeInv, AeTypeOK, AeOne, AeCritical, AeShutdown, Live, Inside, AE!execVars
    <2>2. CASE AE!ExecNext
      BY <2>2, AeSchedule, AeCancelCritical, AeCancel, AeBegin, AeWork, AeFinally
         DEF AE!ExecNext, AE!ExecCancel, AE!ExecWork, AE!Tasks, AeTasks
    <2>3. QED BY <2>1, <2>2
  <1>3. AeInv => AE!TasksUnderControl
    <2> SUFFICES ASSUME AeInv PROVE AE!TasksUnderControl
      OBVIOUS
    <2>1. AeTypeOK /\ \A t : t \in AE!InTask <=> t \in AeTasks /\ Inside(t)
      BY DEF AeInv, AE!InTask, AE!Tasks, AeTasks, Inside
    <2>2. AE!OneTaskAtATime
      BY <2>1 DEF AeInv, AeOne, AE!OneTaskAtATime, Inside, Live
    <2>3. AE!CancelledNeverStarts
      BY <2>1, AeFacts DEF AeInv, AeCritical, AE!CancelledNeverStarts
    <2>4. AE!ShutdownQuiesces
      BY <2>1 DEF AeInv, AeShutdown, AE!ShutdownQuiesces
    <2>5. QED BY <2>2, <2>3, <2>4 DEF AE!TasksUnderControl
  <1>4. QED BY <1>1, <1>2, <1>3, PTL DEF AE!ExecSpec

(* No two tasks work on PostgreSQL at once, none that was cancelled starts  *)
(* a postmaster, and none runs once the shutdown's cancel() has returned:   *)
(* for any number of tasks, if reinitialize is not forced.                  *)
THEOREM ExecutorUnderControl ==
  ASSUME MaxTasks \in Nat, ForceReinit = {FALSE}
  PROVE  Spec => []TasksUnderControl
  <1> DEFINE Here == part = "executor"
  <1>1. Init /\ Here => AE!ExecInit
    BY DEF Init
  <1>2. Here /\ [Next]_vars => Here' /\ [AE!ExecNext]_(AE!execVars)
    BY DEF Next, vars, execVars, AE!execVars
  <1>3. ~Here /\ [Next]_vars => ~Here'
    BY DEF Next, vars
  <1>4. AE!ExecSpec => []AE!TasksUnderControl
    BY ExecutorProved
  <1>5. (Here => AE!TasksUnderControl) => TasksUnderControl
    BY DEF TasksUnderControl
  <1> HIDE DEF Here
  <1>6. QED BY <1>1, <1>2, <1>3, <1>4, <1>5, PTL DEF Spec, AE!ExecSpec

-----------------------------------------------------------------------------
(* PostgreSQL and its callbacks.                                            *)

PgSteps == {"idle", "start", "wait", "finish", "stop", "signaled", "backends", "stopping", "promoted"}
PgOps == [step : PgSteps, block : BOOLEAN, restart : BOOLEAN, change : BOOLEAN, role : PG!Roles \cup {"none"},
          listed : BOOLEAN]
PgStates == {"stopped", "starting", "start_failed", "running", "restart_failed", "restarting", "stopping", "stop_failed"}
PgCalls == [slot : PG!Roles \cup {"none"}, running : PG!Roles \cup {"none"}, last : PG!Roles \cup {"none"}]
PgTypeOK ==
  /\ os \in [proc : {"none", "starting", "running", "stopping"}, standby : BOOLEAN, users : BOOLEAN, safe : BOOLEAN]
  /\ pg \in [state : PgStates, role : PG!Roles, pending : {"none", "start", "restart", "noop"}, called : BOOLEAN, ops : Nat]
  /\ op \in PgOps
  /\ cb \in PgCalls

(* From the safepoint on nobody can connect, and nobody is connected.       *)
PgSafe ==
  /\ os.safe => os.proc \in {"none", "stopping"} /\ ~os.users
  /\ os.proc = "none" => ~os.users
  /\ op.step = "backends" => os.proc \in {"none", "stopping"} /\ (os.users => op.listed)

(* A running or starting PostgreSQL whose start will be silent has been     *)
(* announced, or will be by follow() at the end of its operation.           *)
PgAnnounced == PG!Announced(pg.role) = IF cb.slot # "none" THEN cb.slot ELSE cb.last
PgRole ==
  /\ os.proc \in {"starting", "running"} /\ ~op.change /\ (pg.state = "running" \/ pg.pending = "noop") => PgAnnounced
  /\ op.change /\ op.step \in {"stop", "signaled", "backends", "stopping"} => op.restart
  /\ op.change => op.step \in {"stop", "signaled", "backends", "stopping", "start", "wait", "finish"}
  /\ op.restart /\ ~op.change /\ op.step \in {"stop", "signaled", "backends", "stopping", "start"} =>
       pg.pending = "restart"
  /\ op.step = "start" /\ op.block => op.change \/ op.restart
  /\ op.step = "idle" => op = PG!NoOp
  /\ op.step = "promoted" => pg.role = "promoted"

PgInv == PgTypeOK /\ PgSafe /\ PgRole

(* The fields of a typed state of the PostgreSQL process.                   *)
LEMMA PgFacts ==
  ASSUME PgTypeOK
  PROVE  /\ os.proc \in {"none", "starting", "running", "stopping"} /\ os.users \in BOOLEAN /\ os.safe \in BOOLEAN
         /\ os.standby \in BOOLEAN /\ pg.state \in PgStates /\ pg.role \in PG!Roles /\ pg.called \in BOOLEAN /\ pg.ops \in Nat
         /\ pg.pending \in {"none", "start", "restart", "noop"}
         /\ op.step \in PgSteps /\ op.block \in BOOLEAN /\ op.restart \in BOOLEAN /\ op.change \in BOOLEAN
         /\ op.role \in PG!Roles \cup {"none"} /\ op.listed \in BOOLEAN
         /\ cb.slot \in PG!Roles \cup {"none"} /\ cb.running \in PG!Roles \cup {"none"}
         /\ cb.last \in PG!Roles \cup {"none"}
  BY DEF PgTypeOK, PgOps, PgCalls

(* Whatever callback is called, it is given the role at hand.               *)
LEMMA PgCalled ==
  ASSUME PgTypeOK, NEW role \in PG!Roles, cb' \in PG!CallNowait(cb, role)
  PROVE  cb' \in PgCalls /\ cb'.slot = PG!Announced(role) /\ cb'.slot # "none"
  <1>1. PICK r \in {"none", cb.running} : cb' = [cb EXCEPT !.slot = PG!Announced(role), !.running = r]
    BY DEF PG!CallNowait, PG!None_
  <1>2. PG!Announced(role) \in PG!Roles /\ PG!Announced(role) # "none"
    BY DEF PG!Announced, PG!Roles
  <1>3. r \in PG!Roles \cup {"none"}
    BY PgFacts
  <1> HIDE DEF PG!Announced
  <1>4. QED BY <1>1, <1>2, <1>3 DEF PgTypeOK, PgCalls

(* The postmaster, the clients and the thread that runs the callbacks.      *)
LEMMA PgOutside ==
  ASSUME PgInv, PG!ComesUp \/ PG!Dies \/ PG!Connect \/ PG!ShutsDown \/ PG!BackendsEnd
  PROVE  PgInv'
  <1>1. PgTypeOK /\ pg' = pg /\ op' = op /\ cb' = cb
    BY DEF PgInv, PG!ComesUp, PG!Dies, PG!Connect, PG!ShutsDown, PG!BackendsEnd
  <1>2. PgTypeOK' /\ os'.safe = os.safe
    BY <1>1 DEF PgTypeOK, PG!ComesUp, PG!Dies, PG!Connect, PG!ShutsDown, PG!BackendsEnd
  <1>3. \/ os.proc = "starting" /\ os'.proc = "running" /\ os'.users = os.users
        \/ os.proc \in {"starting", "running"} /\ os'.proc = "none" /\ os'.users = FALSE
        \/ os.proc = "running" /\ os'.proc = "running"
        \/ os.proc \in {"starting", "running"} /\ os'.proc = "stopping" /\ os'.users = os.users
        \/ os.proc = "stopping" /\ os'.proc = "stopping" /\ os'.users = FALSE
    BY <1>1 DEF PgTypeOK, PG!ComesUp, PG!Dies, PG!Connect, PG!ShutsDown, PG!BackendsEnd
  <1>4. PgSafe'
    BY <1>1, <1>2, <1>3, PgFacts DEF PgInv, PgSafe
  <1>5. PgRole'
    <2>1. os'.proc \in {"starting", "running"} => os.proc \in {"starting", "running"}
      BY <1>3
    <2>2. QED BY <1>1, <2>1 DEF PgInv, PgRole, PgAnnounced, PG!NoOp
  <1>6. QED BY <1>2, <1>4, <1>5 DEF PgInv

(* The callback executor runs the callback it was given last.               *)
LEMMA PgRunCallback ==
  ASSUME PgInv, PG!RunCallback
  PROVE  PgInv'
  <1>1. PgTypeOK /\ os' = os /\ pg' = pg /\ op' = op
    BY DEF PgInv, PG!RunCallback
  <1>2. /\ cb' \in PgCalls
        /\ (IF cb'.slot # "none" THEN cb'.slot ELSE cb'.last) = (IF cb.slot # "none" THEN cb.slot ELSE cb.last)
    BY <1>1, PgFacts DEF PgTypeOK, PgCalls, PG!RunCallback, PG!None_
  <1>3. PgAnnounced' <=> PgAnnounced
    BY <1>1, <1>2 DEF PgAnnounced, PG!Announced
  <1>4. PgTypeOK'
    BY <1>1, <1>2 DEF PgTypeOK
  <1>5. QED BY <1>1, <1>3, <1>4 DEF PgInv, PgSafe, PgRole, PG!NoOp

(* What an operation does to PgRole, as far as the callbacks are concerned. *)
LEMMA PgStart ==
  ASSUME PgInv, PG!Start
  PROVE  PgInv'
  <1>1. PgTypeOK /\ op.step = "start" /\ cb' = cb
    BY DEF PgInv, PG!Start
  <1>2. CASE os.proc # "none"
    <2>1. pg' = [pg EXCEPT !.state = "starting"] /\ op' = [op EXCEPT !.step = "finish"] /\ os' = os
      BY <1>2 DEF PG!Start, PG!IsRunning
    <2>2. /\ PgTypeOK' /\ pg'.state = "starting" /\ pg'.role = pg.role /\ pg'.pending = pg.pending
          /\ op'.step = "finish" /\ op'.change = op.change /\ op'.restart = op.restart
      BY <1>1, <2>1 DEF PgTypeOK, PgOps, PgSteps, PgStates
    <2>3. PgAnnounced' <=> PgAnnounced
      BY <1>1, <2>2 DEF PgAnnounced, PG!Announced
    <2>4. QED BY <1>1, <2>1, <2>2, <2>3 DEF PgInv, PgSafe, PgRole
  <1>3. CASE os.proc = "none"
    <2> DEFINE pending == IF op.block THEN pg.pending ELSE "start"
               role == IF op.role = "none" THEN PG!RoleFromDataDirectory ELSE op.role
    <2>1. /\ pg' = [pg EXCEPT !.state = "starting", !.pending = pending, !.role = role]
          /\ op' = [op EXCEPT !.step = "wait"]
          /\ os' = [os EXCEPT !.proc = "starting", !.users = FALSE, !.safe = FALSE]
      BY <1>3 DEF PG!Start, PG!IsRunning, PG!Spawn, PG!None_
    <2>2. pending \in {"none", "start", "restart", "noop"} /\ role \in PG!Roles
      BY <1>1, PgFacts DEF PG!RoleFromDataDirectory, PG!Roles
    <2>3. pending = "noop" => op.change
      BY <1>1, PgFacts DEF PgInv, PgRole
    <2> HIDE DEF pending, role
    <2>4. /\ PgTypeOK' /\ pg'.state = "starting" /\ pg'.pending = pending
          /\ op'.step = "wait" /\ op'.change = op.change /\ op'.restart = op.restart
      BY <1>1, <2>1, <2>2 DEF PgTypeOK, PgOps, PgSteps, PgStates
    <2>5. os'.users = FALSE /\ os'.safe = FALSE /\ os'.proc = "starting"
      BY <1>1, <2>1 DEF PgTypeOK
    <2>6. QED BY <2>3, <2>4, <2>5 DEF PgInv, PgSafe, PgRole
  <1>4. QED BY <1>2, <1>3

(* What is pending is called, and a silent start was announced before.      *)
LEMMA PgStartup ==
  ASSUME PgInv, PG!WaitForStartup \/ PG!CheckForStartup
  PROVE  PgInv'
  <1>1. PgTypeOK /\ os' = os
    BY DEF PgInv, PG!WaitForStartup, PG!CheckForStartup
  <1>2. /\ op' \in PgOps /\ op'.change = op.change /\ op'.restart = op.restart
        /\ \/ op' = op /\ op.step = "idle"
           \/ op.step = "wait" /\ op'.step = "finish"
    BY <1>1 DEF PgTypeOK, PgOps, PgSteps, PG!WaitForStartup, PG!CheckForStartup, PG!NoOp
  <1>3. CASE pg' = pg /\ cb' = cb
    <2>1. PgTypeOK' /\ (PgAnnounced' <=> PgAnnounced)
      BY <1>1, <1>2, <1>3 DEF PgTypeOK, PgAnnounced, PG!Announced
    <2>2. QED BY <1>1, <1>2, <1>3, <2>1 DEF PgInv, PgSafe, PgRole, PG!NoOp
  <1>4. CASE pg.state = "starting" /\ os.proc = "none" /\ pg' = [pg EXCEPT !.state = "start_failed"] /\ cb' = cb
    <2>1. PgTypeOK' /\ os'.proc = "none" /\ pg'.pending = pg.pending
      BY <1>1, <1>2, <1>4 DEF PgTypeOK, PgStates
    <2>2. QED BY <1>1, <1>2, <2>1 DEF PgInv, PgSafe, PgRole, PG!NoOp
  <1>5. CASE PG!StartupChanged /\ os.proc = "running"
    <2> DEFINE called == IF pg.pending = "noop" THEN pg.called ELSE TRUE
    <2>1. pg' = [pg EXCEPT !.state = "running", !.pending = "none", !.called = called] /\ pg.state = "starting"
      BY <1>5 DEF PG!StartupChanged, PG!None_
    <2>2. called \in BOOLEAN
      BY <1>1, PgFacts
    <2> HIDE DEF called
    <2>3. /\ pg'.state = "running" /\ pg'.pending = "none" /\ pg'.role = pg.role
          /\ pg' \in [state : PgStates, role : PG!Roles, pending : {"none", "start", "restart", "noop"},
                      called : BOOLEAN, ops : Nat]
      BY <1>1, <2>1, <2>2 DEF PgTypeOK, PgStates
    <2>4. cb' \in PgCalls /\ (~op.change => PgAnnounced')
      <3>1. CASE pg.pending = "noop"
        <4>1. cb' = cb
          BY <1>5, <3>1 DEF PG!StartupChanged
        <4>2. ~op.change => PgAnnounced
          BY <1>5, <3>1 DEF PgInv, PgRole
        <4>3. QED BY <1>1, <2>3, <4>1, <4>2 DEF PgTypeOK, PgAnnounced, PG!Announced
      <3>2. CASE pg.pending # "noop"
        <4>1. cb' \in PG!CallNowait(cb, pg.role)
          BY <1>5, <3>2 DEF PG!StartupChanged
        <4>2. cb' \in PgCalls /\ cb'.slot = PG!Announced(pg.role) /\ cb'.slot # "none"
          BY <1>1, <4>1, PgFacts, PgCalled
        <4>3. QED BY <2>3, <4>2 DEF PgAnnounced, PG!Announced
      <3>3. QED BY <3>1, <3>2
    <2>5. PgTypeOK'
      BY <1>1, <1>2, <2>3, <2>4 DEF PgTypeOK
    <2>6. PgSafe'
      BY <1>1, <1>2 DEF PgInv, PgSafe
    <2>7. PgRole'
      BY <1>2, <2>3, <2>4 DEF PgInv, PgRole, PG!NoOp
    <2>8. QED BY <2>5, <2>6, <2>7 DEF PgInv
  <1>6. QED BY <1>3, <1>4, <1>5 DEF PG!WaitForStartup, PG!CheckForStartup, PG!StartupChanged

(* The end of an operation: the role change is announced at the latest now. *)
LEMMA PgFinish ==
  ASSUME PgInv, PG!Finish
  PROVE  PgInv'
  <1> DEFINE state == IF op.restart /\ pg.state \notin {"running", "starting"} THEN "restart_failed" ELSE pg.state
             called == pg.called \/ op.change
  <1>1. PgTypeOK /\ os' = os /\ op' = PG!NoOp /\ op.step = "finish" /\ pg' = [pg EXCEPT !.state = state, !.called = called]
    BY DEF PgInv, PG!Finish
  <1>2. state \in PgStates /\ called \in BOOLEAN /\ (state = "running" => pg.state = "running")
    BY <1>1, PgFacts DEF PgStates
  <1> HIDE DEF state, called
  <1>3. op' \in PgOps /\ op'.change = FALSE /\ op'.restart = FALSE /\ op'.step = "idle"
    BY <1>1 DEF PG!NoOp, PgOps, PgSteps, PG!None_
  <1>4. /\ pg'.state = state /\ pg'.pending = pg.pending /\ pg'.role = pg.role
        /\ pg' \in [state : PgStates, role : PG!Roles, pending : {"none", "start", "restart", "noop"},
                    called : BOOLEAN, ops : Nat]
    BY <1>1, <1>2 DEF PgTypeOK
  <1>5. CASE op.change
    <2>1. cb' \in PG!CallNowait(cb, pg.role)
      BY <1>5 DEF PG!Finish
    <2>2. cb' \in PgCalls /\ cb'.slot = PG!Announced(pg.role) /\ cb'.slot # "none"
      BY <1>1, <2>1, PgFacts, PgCalled
    <2>3. PgTypeOK' /\ PgAnnounced'
      BY <1>1, <1>3, <1>4, <2>2 DEF PgTypeOK, PgAnnounced, PG!Announced
    <2>4. QED BY <1>1, <1>3, <2>3 DEF PgInv, PgSafe, PgRole, PG!NoOp
  <1>6. CASE ~op.change
    <2>1. cb' = cb
      BY <1>6 DEF PG!Finish
    <2>2. PgTypeOK' /\ (PgAnnounced' <=> PgAnnounced)
      BY <1>1, <1>3, <1>4, <2>1 DEF PgTypeOK, PgAnnounced, PG!Announced
    <2>3. QED BY <1>1, <1>2, <1>3, <1>4, <1>6, <2>2 DEF PgInv, PgSafe, PgRole, PG!NoOp
  <1>7. QED BY <1>5, <1>6

(* The end of stop(), with PostgreSQL gone.                                 *)
LEMMA PgStopped ==
  ASSUME PgInv, op.step \in {"stop", "stopping"}, NEW called \in BOOLEAN, PG!Stopped(called),
         os' \in [proc : {"none"}, standby : BOOLEAN, users : {FALSE}, safe : BOOLEAN]
  PROVE  PgInv'
  <1>1. PgTypeOK /\ os'.proc = "none" /\ os'.users = FALSE
    BY DEF PgInv
  <1>2. CASE op.restart
    <2>1. op' = [op EXCEPT !.step = "start", !.block = TRUE] /\ pg' = pg /\ cb' = cb
      BY <1>2 DEF PG!Stopped
    <2>2. PgTypeOK' /\ op'.step = "start" /\ op'.restart = op.restart /\ op'.change = op.change
      BY <1>1, <2>1 DEF PgTypeOK, PgOps, PgSteps
    <2>3. QED BY <1>1, <1>2, <2>1, <2>2 DEF PgInv, PgSafe, PgRole
  <1>3. CASE ~op.restart
    <2> DEFINE c == pg.called \/ called
    <2>1. op' = PG!NoOp /\ pg' = [pg EXCEPT !.state = "stopped", !.called = c]
          /\ (cb' = cb \/ cb' \in PG!CallNowait(cb, pg.role))
      BY <1>3 DEF PG!Stopped
    <2>2. c \in BOOLEAN
      BY <1>1, PgFacts
    <2> HIDE DEF c
    <2>3. cb' \in PgCalls
      BY <1>1, <2>1, PgFacts, PgCalled DEF PgTypeOK
    <2>4. op' \in PgOps /\ op'.change = FALSE /\ op'.restart = FALSE /\ op'.step = "idle"
      BY <2>1 DEF PG!NoOp, PgOps, PgSteps, PG!None_
    <2>5. PgTypeOK'
      BY <1>1, <2>1, <2>2, <2>3, <2>4 DEF PgTypeOK, PgStates
    <2>6. QED BY <1>1, <2>1, <2>4, <2>5 DEF PgInv, PgSafe, PgRole, PG!NoOp
  <1>4. QED BY <1>2, <1>3

(* stop() signals the postmaster.                                           *)
LEMMA PgStop ==
  ASSUME PgInv, PG!Stop
  PROVE  PgInv'
  <1>1. PgTypeOK /\ op.step = "stop"
    BY DEF PgInv, PG!Stop
  <1>2. CASE os.proc = "none"
    <2>1. PG!Stopped(FALSE) /\ os' = [os EXCEPT !.safe = ~op.restart]
      BY <1>2 DEF PG!Stop, PG!IsRunning
    <2>2. os.users = FALSE
      BY <1>1, <1>2, PgFacts DEF PgInv, PgSafe
    <2>3. os' \in [proc : {"none"}, standby : BOOLEAN, users : {FALSE}, safe : BOOLEAN]
      BY <1>1, <1>2, <2>1, <2>2 DEF PgTypeOK
    <2>4. QED BY <1>1, <2>1, <2>3, PgStopped
  <1>3. CASE os.proc # "none" /\ op' = [op EXCEPT !.step = "signaled"]
    <2>0. os' = os /\ cb' = cb
      BY <1>3 DEF PG!Stop, PG!IsRunning
    <2>1. PICK state \in PgStates : pg' = [pg EXCEPT !.state = state] /\ (state = "running" => pg.state = "running")
      <3>1. \/ pg' = [pg EXCEPT !.state = pg.state]
            \/ pg' = [pg EXCEPT !.state = "stopping"]
            \/ pg' = [pg EXCEPT !.state = "stop_failed"]
        BY <1>3 DEF PG!Stop, PG!IsRunning, PG!SignalStop
      <3>2. QED BY <1>1, <3>1, PgFacts DEF PgStates
    <2>2. /\ PgTypeOK' /\ op'.step = "signaled" /\ op'.restart = op.restart /\ op'.change = op.change
          /\ pg'.state = state /\ pg'.pending = pg.pending /\ pg'.role = pg.role
      BY <1>1, <1>3, <2>0, <2>1 DEF PgTypeOK, PgOps, PgSteps
    <2>3. PgAnnounced' <=> PgAnnounced
      BY <2>0, <2>2 DEF PgAnnounced, PG!Announced
    <2>4. QED BY <1>1, <2>0, <2>1, <2>2, <2>3 DEF PgInv, PgSafe, PgRole
  <1>4. CASE /\ os.proc # "none" /\ pg' = [pg EXCEPT !.state = "stop_failed"]
             /\ op' = IF op.restart THEN [op EXCEPT !.step = "finish"] ELSE PG!NoOp
    <2>0. os' = os /\ cb' = cb
      BY <1>4 DEF PG!Stop, PG!IsRunning
    <2>1. pg'.state = "stop_failed" /\ pg'.pending = pg.pending /\ pg'.role = pg.role
          /\ pg' \in [state : PgStates, role : PG!Roles, pending : {"none", "start", "restart", "noop"},
                      called : BOOLEAN, ops : Nat]
      BY <1>1, <1>4 DEF PgTypeOK, PgStates
    <2>2. /\ op' \in PgOps /\ op'.change = op.change
          /\ op'.step = "finish" \/ op' = PG!NoOp
      <3>1. CASE op.restart
        BY <1>1, <1>4, <3>1 DEF PgTypeOK, PgOps, PgSteps
      <3>2. CASE ~op.restart
        <4>1. op.change = FALSE
          BY <1>1, <3>2, PgFacts DEF PgInv, PgRole
        <4>2. QED BY <1>4, <3>2, <4>1 DEF PG!NoOp, PgOps, PgSteps, PG!None_
      <3>3. QED BY <3>1, <3>2
    <2>3. op'.step \in {"finish", "idle"} /\ (op'.step = "idle" => op'.change = FALSE /\ op' = PG!NoOp)
      BY <2>2 DEF PG!NoOp
    <2>4. PgTypeOK' /\ (PgAnnounced' <=> PgAnnounced)
      BY <1>1, <2>0, <2>1, <2>2 DEF PgTypeOK, PgAnnounced, PG!Announced
    <2>5. QED BY <1>1, <2>0, <2>1, <2>2, <2>3, <2>4 DEF PgInv, PgSafe, PgRole, PG!NoOp
  <1>5. QED BY <1>2, <1>3, <1>4 DEF PG!Stop, PG!IsRunning, PG!SignalStop

(* stop() waits for client connections to close.                            *)
LEMMA PgWaits ==
  ASSUME PgInv, PG!WaitForConnectionClose \/ PG!WaitForUserBackends
  PROVE  PgInv'
  <1>1. PgTypeOK /\ pg' = pg /\ cb' = cb
    BY DEF PgInv, PG!WaitForConnectionClose, PG!WaitForUserBackends
  <1>2. PgAnnounced' <=> PgAnnounced
    BY <1>1 DEF PgAnnounced, PG!Announced
  <1>3. CASE PG!WaitForConnectionClose
    <2> DEFINE step == IF op.restart THEN "stopping" ELSE "backends"
    <2>1. op' = [op EXCEPT !.step = step, !.listed = os.users] /\ os' = os /\ os.proc \in {"stopping", "none"}
          /\ op.step = "signaled"
      BY <1>3 DEF PG!WaitForConnectionClose
    <2>2. step \in {"stopping", "backends"} /\ os.users \in BOOLEAN
      BY <1>1, PgFacts
    <2> HIDE DEF step
    <2>3. PgTypeOK' /\ op'.step = step /\ op'.restart = op.restart /\ op'.change = op.change /\ op'.listed = os.users
      BY <1>1, <2>1, <2>2 DEF PgTypeOK, PgOps, PgSteps
    <2>4. QED BY <1>1, <1>2, <2>1, <2>2, <2>3 DEF PgInv, PgSafe, PgRole
  <1>4. CASE PG!WaitForUserBackends
    <2>1. op.step = "backends" /\ op' = [op EXCEPT !.step = "stopping"]
          /\ (os' = os \/ ((op.listed => ~os.users) /\ os' = [os EXCEPT !.safe = TRUE]))
      BY <1>4 DEF PG!WaitForUserBackends
    <2>2. /\ PgTypeOK' /\ op'.step = "stopping" /\ op'.restart = op.restart /\ op'.change = op.change
          /\ os'.proc = os.proc /\ os'.users = os.users
      BY <1>1, <2>1 DEF PgTypeOK, PgOps, PgSteps
    <2>3. os.proc \in {"none", "stopping"} /\ (os.users => op.listed)
      BY <2>1 DEF PgInv, PgSafe
    <2>4. os'.safe => ~os.users
      BY <1>1, <2>1, <2>3, PgFacts DEF PgInv, PgSafe, PgTypeOK
    <2>5. QED BY <1>1, <1>2, <2>1, <2>2, <2>3, <2>4 DEF PgInv, PgSafe, PgRole
  <1>5. QED BY <1>3, <1>4

(* The postmaster has gone.                                                 *)
LEMMA PgGone ==
  ASSUME PgInv, PG!PostmasterGone
  PROVE  PgInv'
  <1>1. PgTypeOK /\ op.step = "stopping" /\ PG!Stopped(TRUE)
        /\ os' = [os EXCEPT !.proc = "none", !.users = FALSE, !.safe = ~op.restart]
    BY DEF PgInv, PG!PostmasterGone
  <1>2. os' \in [proc : {"none"}, standby : BOOLEAN, users : {FALSE}, safe : BOOLEAN]
    BY <1>1 DEF PgTypeOK
  <1>3. QED BY <1>1, <1>2, PgStopped

(* An operation begins, or PostgreSQL is promoted, in a PostgreSQL that is  *)
(* not stopped: nothing but op and pg changes.                              *)
LEMMA PgBegins ==
  ASSUME PgInv, PG!DoStart \/ PG!DoStop \/ PG!DoRestart
  PROVE  PgInv'
  <1> DEFINE ops == pg.ops + 1
  <1>1. PgTypeOK /\ op = PG!NoOp /\ os' = os /\ cb' = cb /\ ops \in Nat
    BY PgFacts DEF PgInv, PG!DoStart, PG!DoStop, PG!DoRestart, PG!Begin
  <1>2. op.change = FALSE
    BY <1>1 DEF PG!NoOp
  <1>3. CASE PG!DoStart \/ PG!DoStop
    <2>1. PICK step \in {"start", "stop"} : op' = [PG!NoOp EXCEPT !.step = step] /\ pg' = [pg EXCEPT !.ops = ops]
      BY <1>3 DEF PG!DoStart, PG!DoStop, PG!Begin
    <2> HIDE DEF ops
    <2>2. op' \in PgOps /\ op'.step = step /\ op'.change = FALSE /\ op'.restart = FALSE /\ op'.block = FALSE
      BY <2>1 DEF PG!NoOp, PgOps, PgSteps, PG!None_
    <2>3. PgTypeOK' /\ pg'.state = pg.state /\ pg'.pending = pg.pending /\ pg'.role = pg.role
      BY <1>1, <2>1, <2>2 DEF PgTypeOK
    <2>4. PgAnnounced' <=> PgAnnounced
      BY <1>1, <2>3 DEF PgAnnounced, PG!Announced
    <2>5. QED BY <1>1, <1>2, <2>2, <2>3, <2>4 DEF PgInv, PgSafe, PgRole
  <1>4. CASE PG!DoRestart
    <2>1. op' = [PG!NoOp EXCEPT !.step = "stop", !.restart = TRUE]
          /\ pg' = [pg EXCEPT !.ops = ops, !.state = "restarting", !.pending = "restart"]
      BY <1>4 DEF PG!DoRestart, PG!Begin
    <2> HIDE DEF ops
    <2>2. op' \in PgOps /\ op'.step = "stop" /\ op'.change = FALSE /\ op'.restart = TRUE
      BY <2>1 DEF PG!NoOp, PgOps, PgSteps, PG!None_
    <2>3. PgTypeOK' /\ pg'.state = "restarting" /\ pg'.pending = "restart"
      BY <1>1, <2>1, <2>2 DEF PgTypeOK, PgStates
    <2>4. QED BY <1>1, <2>2, <2>3 DEF PgInv, PgSafe, PgRole
  <1>5. QED BY <1>3, <1>4

(* The roles set by demote() and promote().                                 *)
LEMMA PgRoles ==
  ASSUME PgInv, PG!SetDemoted \/ PG!WaitPromote \/ PG!DoPromote
  PROVE  PgInv'
  <1>1. PgTypeOK
    BY DEF PgInv
  <1>2. CASE PG!SetDemoted
    <2>1. op = PG!NoOp /\ os.proc = "none" /\ pg' = [pg EXCEPT !.role = "demoted"] /\ os' = os /\ op' = op /\ cb' = cb
      BY <1>2 DEF PG!SetDemoted
    <2>2. PgTypeOK' /\ pg'.pending = pg.pending
      BY <1>1, <2>1 DEF PgTypeOK, PG!Roles
    <2>3. QED BY <2>1, <2>2 DEF PgInv, PgSafe, PgRole, PG!NoOp
  <1>3. CASE PG!WaitPromote
    <2> DEFINE role == IF os.proc = "running" THEN "primary" ELSE pg.role
    <2>1. op.step = "promoted" /\ op' = PG!NoOp /\ pg' = [pg EXCEPT !.role = role] /\ os' = os /\ cb' = cb
      BY <1>3 DEF PG!WaitPromote
    <2>2. role \in PG!Roles
      BY <1>1, PgFacts DEF PG!Roles
    <2>3. ~op.change
      BY <2>1 DEF PgInv, PgRole
    <2>4. os.proc \in {"starting", "running"} => PG!Announced(role) = PG!Announced(pg.role)
      <3>1. CASE os.proc = "running"
        <4>1. pg.role \in {"promoted", "primary"}
          BY <2>1, <3>1 DEF PgInv, PgRole
        <4>2. QED BY <3>1, <4>1 DEF PG!Announced
      <3>2. QED BY <3>1
    <2> HIDE DEF role
    <2>5. op' \in PgOps /\ op'.step = "idle" /\ op'.change = FALSE /\ op'.restart = FALSE
      BY <2>1 DEF PG!NoOp, PgOps, PgSteps, PG!None_
    <2>6. PgTypeOK' /\ pg'.pending = pg.pending /\ pg'.state = pg.state /\ pg'.role = role
      BY <1>1, <2>1, <2>2, <2>5 DEF PgTypeOK
    <2>7. os.proc \in {"starting", "running"} => (PgAnnounced' <=> PgAnnounced)
      <3>1. PG!Announced(pg.role)' = PG!Announced(role)
        BY <2>6 DEF PG!Announced
      <3> HIDE DEF PG!Announced
      <3>2. QED BY <2>1, <2>4, <3>1 DEF PgAnnounced
    <2>8. QED BY <2>1, <2>3, <2>5, <2>6, <2>7 DEF PgInv, PgSafe, PgRole
  <1>4. CASE PG!DoPromote
    <2> DEFINE ops == pg.ops + 1
    <2>1. /\ op = PG!NoOp /\ op' = [PG!NoOp EXCEPT !.step = "promoted"] /\ os' = [os EXCEPT !.standby = FALSE]
          /\ pg' = [pg EXCEPT !.ops = ops, !.role = "promoted", !.called = TRUE]
          /\ cb' \in PG!CallNowait(cb, "promoted")
      BY <1>4 DEF PG!DoPromote, PG!Begin
    <2>2. ops \in Nat /\ "promoted" \in PG!Roles
      BY <1>1, PgFacts DEF PG!Roles
    <2> HIDE DEF ops
    <2>3. cb' \in PgCalls /\ cb'.slot = PG!Announced("promoted") /\ cb'.slot # "none"
      BY <1>1, <2>1, <2>2, PgCalled
    <2>4. op' \in PgOps /\ op'.step = "promoted" /\ op'.change = FALSE /\ op'.restart = FALSE
      BY <2>1 DEF PG!NoOp, PgOps, PgSteps, PG!None_
    <2>5. PgTypeOK' /\ pg'.role = "promoted"
      BY <1>1, <2>1, <2>2, <2>3, <2>4 DEF PgTypeOK
    <2>6. os'.proc = os.proc /\ os'.users = os.users /\ os'.safe = os.safe
      BY <1>1, <2>1 DEF PgTypeOK
    <2>7. PgAnnounced'
      BY <2>3, <2>5 DEF PgAnnounced, PG!Announced
    <2>8. QED BY <2>4, <2>5, <2>6, <2>7 DEF PgInv, PgSafe, PgRole
  <1>5. QED BY <1>2, <1>3, <1>4

(* follow() starts or restarts PostgreSQL as a standby.                     *)
LEMMA PgFollow ==
  ASSUME PgInv, PG!DoFollow
  PROVE  PgInv'
  <1> DEFINE ops == pg.ops + 1
  <1>1. PgTypeOK /\ op = PG!NoOp /\ os' = [os EXCEPT !.standby = TRUE] /\ cb' = cb /\ ops \in Nat
    BY PgFacts DEF PgInv, PG!DoFollow, PG!Begin
  <1>2. os'.proc = os.proc /\ os'.users = os.users /\ os'.safe = os.safe
        /\ os' \in [proc : {"none", "starting", "running", "stopping"}, standby : BOOLEAN, users : BOOLEAN, safe : BOOLEAN]
    BY <1>1 DEF PgTypeOK
  <1>3. op.change = FALSE
    BY <1>1 DEF PG!NoOp
  <1>4. PICK role \in {"replica", "standby_leader"}, reload \in BOOLEAN :
          LET change == PG!ChangeRole(role)
              pending == IF change THEN "noop" ELSE pg.pending IN
          IF PG!IsRunning /\ reload
          THEN /\ pg.role # "primary" /\ op' = [PG!NoOp EXCEPT !.step = "finish", !.change = change]
               /\ pg' = [pg EXCEPT !.ops = ops, !.pending = pending, !.role = IF change THEN role ELSE pg.role]
          ELSE LET running == PG!IsRunning IN
               /\ op' = [step |-> IF running THEN "stop" ELSE "start", block |-> change, restart |-> running,
                         change |-> change, role |-> role, listed |-> FALSE]
               /\ pg' = [pg EXCEPT !.ops = ops,
                                   !.state = IF running THEN "restarting" ELSE pg.state,
                                   !.pending = IF running /\ ~change THEN "restart" ELSE pending]
    BY DEF PG!DoFollow, PG!Begin
  <1> HIDE DEF ops
  <1>5. PICK change \in BOOLEAN : change = PG!ChangeRole(role)
    BY <1>1, PgFacts DEF PG!ChangeRole
  <1>6. PICK pending \in {"none", "start", "restart", "noop"} : /\ pending = IF change THEN "noop" ELSE pg.pending
    BY <1>1, PgFacts
  <1>7. CASE os.proc # "none" /\ reload
    <2>1. PICK r \in PG!Roles : r = IF change THEN role ELSE pg.role
      BY <1>1, PgFacts DEF PG!Roles
    <2>2. op' = [PG!NoOp EXCEPT !.step = "finish", !.change = change]
          /\ pg' = [pg EXCEPT !.ops = ops, !.pending = pending, !.role = r]
      BY <1>4, <1>5, <1>6, <1>7, <2>1 DEF PG!IsRunning
    <2>3. op' \in PgOps /\ op'.step = "finish" /\ op'.change = change
      BY <2>2 DEF PG!NoOp, PgOps, PgSteps, PG!None_
    <2>4. PgTypeOK' /\ pg'.pending = pending /\ pg'.state = pg.state /\ pg'.role = r
      BY <1>1, <1>2, <2>2, <2>3 DEF PgTypeOK
    <2>5. ~change => pg'.pending = pg.pending /\ (PgAnnounced' <=> PgAnnounced)
      BY <1>1, <1>6, <2>1, <2>4 DEF PgAnnounced, PG!Announced
    <2>6. QED BY <1>1, <1>2, <1>3, <2>3, <2>4, <2>5 DEF PgInv, PgSafe, PgRole
  <1>8. CASE os.proc # "none" /\ ~reload
    <2>1. /\ op' = [step |-> "stop", block |-> change, restart |-> TRUE, change |-> change, role |-> role, listed |-> FALSE]
          /\ pg' = [pg EXCEPT !.ops = ops, !.state = "restarting", !.pending = IF ~change THEN "restart" ELSE pending]
      BY <1>4, <1>5, <1>6, <1>8 DEF PG!IsRunning
    <2>2. op' \in PgOps /\ op'.step = "stop" /\ op'.change = change /\ op'.restart = TRUE
      BY <2>1 DEF PgOps, PgSteps, PG!Roles
    <2>3. PgTypeOK' /\ (~change => pg'.pending = "restart") /\ pg'.state = "restarting"
      BY <1>1, <1>2, <2>1, <2>2 DEF PgTypeOK, PgStates
    <2>4. QED BY <1>2, <2>2, <2>3 DEF PgInv, PgSafe, PgRole
  <1>9. CASE os.proc = "none"
    <2>1. /\ op' = [step |-> "start", block |-> change, restart |-> FALSE, change |-> change, role |-> role, listed |-> FALSE]
          /\ pg' = [pg EXCEPT !.ops = ops, !.state = pg.state, !.pending = pending]
      BY <1>4, <1>5, <1>6, <1>9 DEF PG!IsRunning
    <2>2. op' \in PgOps /\ op'.step = "start" /\ op'.change = change /\ op'.restart = FALSE /\ op'.block = change
      BY <2>1 DEF PgOps, PgSteps, PG!Roles
    <2>3. PgTypeOK'
      BY <1>1, <1>2, <2>1, <2>2 DEF PgTypeOK
    <2>4. QED BY <1>2, <1>9, <2>2, <2>3 DEF PgInv, PgSafe, PgRole
  <1>10. QED BY <1>7, <1>8, <1>9

(* The invariant of the PostgreSQL process holds always.                    *)
LEMMA PgAlways == PG!PgSpec => []PgInv
  <1>1. PG!PgInit => PgInv
    <2> SUFFICES ASSUME PG!PgInit PROVE PgInv
      OBVIOUS
    <2>1. PICK standby \in BOOLEAN :
            /\ os = [proc |-> "none", standby |-> standby, users |-> FALSE, safe |-> FALSE]
            /\ pg = [state |-> "stopped", role |-> IF standby THEN "replica" ELSE "primary",
                     pending |-> "none", called |-> FALSE, ops |-> 0]
            /\ op = PG!NoOp /\ cb = [slot |-> "none", running |-> "none", last |-> "none"]
      BY DEF PG!PgInit, PG!None_
    <2>2. op \in PgOps /\ op.step = "idle" /\ op.change = FALSE /\ op.restart = FALSE
      BY <2>1 DEF PG!NoOp, PgOps, PgSteps, PG!None_
    <2>3. PgTypeOK
      BY <2>1, <2>2 DEF PgTypeOK, PgStates, PgCalls, PG!Roles
    <2>4. QED BY <2>1, <2>2, <2>3 DEF PgInv, PgSafe, PgRole
  <1>2. PgInv /\ [PG!PgNext]_(PG!pgVars) => PgInv'
    <2> SUFFICES ASSUME PgInv, [PG!PgNext]_(PG!pgVars) PROVE PgInv'
      OBVIOUS
    <2>1. CASE UNCHANGED PG!pgVars
      BY <2>1 DEF PG!pgVars, PgInv, PgTypeOK, PgSafe, PgRole, PgAnnounced, PG!Announced, PG!NoOp
    <2>2. CASE PG!PgNext
      BY <2>2, PgStart, PgStartup, PgFinish, PgStop, PgWaits, PgGone, PgRoles, PgRunCallback, PgOutside, PgBegins, PgFollow
         DEF PG!PgNext
    <2>3. QED BY <2>1, <2>2
  <1>3. QED BY <1>1, <1>2, PTL DEF PG!PgSpec

(* SafepointIsSafe of the module on its own.                                *)
LEMMA SafepointProved == PG!PgSpec => []PG!SafepointIsSafe
  <1>1. PgInv => PG!SafepointIsSafe
    BY DEF PgInv, PgSafe, PG!SafepointIsSafe
  <1>2. QED BY <1>1, PgAlways, PTL

(* When stop() calls on_safepoint(), and the watchdog is disarmed, no       *)
(* client has a backend or can get one before the next start.               *)
THEOREM SafepointSafe == Spec => []SafepointIsSafe
  <1> DEFINE Here == part = "postgresql"
  <1>1. Init /\ Here => PG!PgInit
    BY DEF Init
  <1>2. Here /\ [Next]_vars => Here' /\ [PG!PgNext]_(PG!pgVars)
    BY DEF Next, vars, pgVars, PG!pgVars
  <1>3. ~Here /\ [Next]_vars => ~Here'
    BY DEF Next, vars
  <1>4. PG!PgSpec => []PG!SafepointIsSafe
    BY SafepointProved
  <1>5. (Here => PG!SafepointIsSafe) => SafepointIsSafe
    BY DEF SafepointIsSafe
  <1> HIDE DEF Here
  <1>6. QED BY <1>1, <1>2, <1>3, <1>4, <1>5, PTL DEF Spec, PG!PgSpec

(* RoleAnnounced of the module on its own.                                  *)
LEMMA RoleProved == PG!PgSpec => []PG!RoleAnnounced
  <1>1. PgInv => PG!RoleAnnounced
    BY DEF PgInv, PgRole, PgAnnounced, PG!RoleAnnounced, PG!NoOp, PG!None_
  <1>2. QED BY <1>1, PgAlways, PTL

(* Whenever PostgreSQL is up and no operation is in progress, the callback  *)
(* that was requested last was given the role the node has, whatever        *)
(* operations, failures and kills of callbacks came before.                 *)
THEOREM RoleAlwaysAnnounced == Spec => []RoleAnnounced
  <1> DEFINE Here == part = "postgresql"
  <1>1. Init /\ Here => PG!PgInit
    BY DEF Init
  <1>2. Here /\ [Next]_vars => Here' /\ [PG!PgNext]_(PG!pgVars)
    BY DEF Next, vars, pgVars, PG!pgVars
  <1>3. ~Here /\ [Next]_vars => ~Here'
    BY DEF Next, vars
  <1>4. PG!PgSpec => []PG!RoleAnnounced
    BY RoleProved
  <1>5. (Here => PG!RoleAnnounced) => RoleAnnounced
    BY DEF RoleAnnounced
  <1> HIDE DEF Here
  <1>6. QED BY <1>1, <1>2, <1>3, <1>4, <1>5, PTL DEF Spec, PG!PgSpec

-----------------------------------------------------------------------------
(* Bootstrap.                                                               *)

BsBootSteps == {"bootstrap", "initialized", "recovery", "check", "post", "register", "cancel"}
BsBooting(n) == node[n].step \in BsBootSteps
BsSteps == BsBootSteps \cup {"idle", "loaded", "move", "take", "member", "join", "exited"}
BsInits == {"absent", "", "old"} \cup Nodes
BsNodes == [step : BsSteps, data : {None, "old"} \cup Nodes, init : BsInits, leader : Nodes \cup {None}]
BsKeys == [init : BsInits, leader : Nodes \cup {None}]
BsTypeOK == key \in BsKeys /\ node \in [Nodes -> BsNodes]

(* Before there is a system: whoever bootstraps has the initialize key.     *)
BsEmpty ==
  /\ key.init \in {"absent", ""} /\ key.leader = None
  /\ \A n \in Nodes : /\ node[n].leader = None /\ node[n].init \in {"absent", ""}
                      /\ node[n].step \in {"idle", "loaded"} => node[n].data = None
                      /\ node[n].step \in {"idle", "loaded", "move"} \/ (BsBooting(n) /\ key.init = "")
                      /\ node[n].step \in {"post", "register"} => node[n].init = ""
                      /\ node[n].step \in {"recovery", "check", "initialized", "post", "register"} => node[n].data = n
  /\ \A m, n \in Nodes : BsBooting(m) /\ BsBooting(n) => m = n

(* The system s exists: there is no way to another one, and the leader and  *)
(* whoever was seen as the leader have its data.                            *)
BsHas(n, s) == node[n].data = s /\ node[n].step # "move"
BsFounded(s) ==
  /\ key.init = s \/ (key.init = "absent" /\ s = "old")
  /\ \A n \in Nodes : /\ ~BsBooting(n) /\ node[n].init \in {"absent", "", s}
                      /\ node[n].step = "move" \/ node[n].data \in {None, s}
                      /\ s = "old" => BsHas(n, s)
                      /\ BS!Member(n) => node[n].data = s
                      /\ key.leader = n => BsHas(n, s)
                      /\ \A m \in Nodes : node[m].leader = n => BsHas(n, s)

BsInv == BsTypeOK /\ (BsEmpty \/ \E s \in Nodes \cup {"old"} : BsFounded(s))

BsGiven == Mixed = FALSE /\ None \notin Nodes /\ None # "old" /\ "old" \notin Nodes /\ "absent" \notin Nodes /\ "" \notin Nodes

(* The fields of a typed state of bootstrap.                                *)
LEMMA BsFacts ==
  ASSUME BsTypeOK
  PROVE  /\ key.init \in BsInits /\ key.leader \in Nodes \cup {None}
         /\ \A n \in Nodes : /\ node[n] \in BsNodes /\ node[n].step \in BsSteps /\ node[n].data \in {None, "old"} \cup Nodes
                             /\ node[n].init \in BsInits /\ node[n].leader \in Nodes \cup {None}
  BY DEF BsTypeOK, BsKeys, BsNodes

(* A step of node n that leaves it with r.                                  *)
BsTurns(n, r) == r \in BsNodes /\ node' = [node EXCEPT ![n] = r] /\ key' \in BsKeys

(* A step of one node changes its own record only.                          *)
LEMMA BsTurned ==
  ASSUME BsTypeOK, NEW n \in Nodes, NEW r, BsTurns(n, r)
  PROVE  BsTypeOK' /\ node'[n] = r /\ \A m \in Nodes : m # n => node'[m] = node[m]
  BY DEF BsTypeOK, BsTurns

(* What such a step may do once the system s exists.                        *)
BsKeeps(n, r, s) ==
  /\ key'.init \in {key.init, s}
  /\ key'.leader = key.leader \/ (key'.leader = n /\ r.data = s /\ r.step # "move")
  /\ node[n].step = "move" => r.data = None
  /\ node[n].step # "move" => r.data = node[n].data \/ (node[n].data = None /\ r.data = s)
  /\ r.step \notin BsBootSteps \cup {"move"} /\ r.init \in {"absent", "", s}
  /\ r.leader \in {node[n].leader, key.leader}
  /\ r.step \in {"member", "join", "take"} => r.data = s

(* A step that brings no other system into a founded cluster keeps it       *)
(* founded.                                                                 *)
LEMMA BsKept ==
  ASSUME BsGiven, BsTypeOK, NEW s \in Nodes \cup {"old"}, BsFounded(s), NEW n \in Nodes, NEW r, BsTurns(n, r),
         BsKeeps(n, r, s)
  PROVE  BsFounded(s)'
  <1>1. BsTypeOK' /\ node'[n] = r /\ \A m \in Nodes : m # n => node'[m] = node[m]
    BY BsTurned
  <1>2. s # None
    BY DEF BsGiven
  <1>3. key'.init = s \/ (key'.init = "absent" /\ s = "old")
    BY DEF BsFounded, BsKeeps
  <1>4. \A m \in Nodes : BsHas(m, s) => BsHas(m, s)'
    BY <1>1, <1>2 DEF BsHas, BsKeeps
  <1>5. ASSUME NEW m \in Nodes
        PROVE  /\ ~BsBooting(m)' /\ node'[m].init \in {"absent", "", s}
               /\ node'[m].step = "move" \/ node'[m].data \in {None, s}
               /\ BS!Member(m)' => node'[m].data = s
    BY <1>1, <1>5 DEF BsFounded, BsKeeps, BsBooting, BS!Member
  <1>6. ASSUME NEW m \in Nodes, key'.leader = m PROVE BsHas(m, s)'
    BY <1>1, <1>4, <1>6 DEF BsFounded, BsKeeps, BsHas
  <1>7. ASSUME NEW m \in Nodes, NEW l \in Nodes, node'[l].leader = m PROVE BsHas(m, s)'
    BY <1>1, <1>4, <1>7 DEF BsFounded, BsKeeps
  <1>8. s = "old" => \A m \in Nodes : BsHas(m, s)'
    BY <1>4 DEF BsFounded
  <1>9. QED BY <1>3, <1>5, <1>6, <1>7, <1>8 DEF BsFounded

(* No step of a node brings another system into a founded cluster.          *)
LEMMA BsFoundedStep ==
  ASSUME BsGiven, BsTypeOK, NEW s \in Nodes \cup {"old"}, BsFounded(s), NEW n \in Nodes,
         BS!BootStep(n) \/ BS!BootstrapFails(n) \/ BS!CreateReplicaFails(n)
  PROVE  BsTypeOK' /\ BsFounded(s)'
  <1>1. /\ node[n] \in BsNodes /\ ~BsBooting(n) /\ node[n].init \in {"absent", "", s}
        /\ node[n].step = "move" \/ node[n].data \in {None, s}
        /\ s = "old" => node[n].data = s
        /\ node[n].step \in {"member", "join", "take"} => node[n].data = s
        /\ key.init = s \/ (key.init = "absent" /\ s = "old")
        /\ key \in BsKeys
    BY BsFacts DEF BsFounded, BsHas, BS!Member, BsTypeOK
  <1>2. s \notin {None, "absent", ""} /\ s \in BsInits /\ s \in {None, "old"} \cup Nodes
    BY DEF BsGiven, BsInits
  <1>3. SUFFICES \E r : BsTurns(n, r) /\ BsKeeps(n, r, s)
    BY BsKept, BsTurned
  <1>4. ASSUME NEW step \in {"idle", "loaded", "take", "member", "join"}, node' = [node EXCEPT ![n].step = step],
               key' \in BsKeys, key'.init \in {key.init, s}, node[n].step # "move",
               key'.leader = key.leader \/ (key'.leader = n /\ node[n].data = s),
               step \in {"member", "join", "take"} => node[n].data = s
        PROVE  \E r : BsTurns(n, r) /\ BsKeeps(n, r, s)
    <2> DEFINE r == [node[n] EXCEPT !.step = step]
    <2>1. r \in BsNodes /\ r.step = step /\ r.data = node[n].data /\ r.init = node[n].init /\ r.leader = node[n].leader
      BY <1>1, <1>4 DEF BsNodes, BsSteps
    <2>2. node' = [node EXCEPT ![n] = r]
      BY <1>4
    <2> HIDE DEF r
    <2>3. BsTurns(n, r) /\ BsKeeps(n, r, s)
      BY <1>1, <1>4, <2>1, <2>2 DEF BsTurns, BsKeeps, BsBootSteps
    <2>4. QED BY <2>3
  <1>5. CASE BS!LoadCluster(n)
    <2> DEFINE r == [node[n] EXCEPT !.init = key.init, !.leader = key.leader, !.step = "loaded"]
    <2>1. node[n].step \in {"idle", "member"} /\ key' = key
      BY <1>1, <1>5 DEF BS!LoadCluster, BsBooting, BsBootSteps
    <2>2. node' = [node EXCEPT ![n] = r]
      BY <1>5, <2>1 DEF BS!LoadCluster
    <2>3. /\ r \in BsNodes /\ r.step = "loaded" /\ r.data = node[n].data /\ r.init = key.init /\ r.leader = key.leader
      BY <1>1, BsFacts DEF BsNodes, BsSteps
    <2> HIDE DEF r
    <2>4. BsTurns(n, r) /\ BsKeeps(n, r, s)
      BY <1>1, <2>1, <2>2, <2>3 DEF BsTurns, BsKeeps, BsBootSteps
    <2>5. QED BY <2>4
  <1>6. CASE BS!Bootstrap_(n)
    <2>1. node[n].step = "loaded" /\ node[n].data = None
      BY <1>6 DEF BS!Bootstrap_
    <2>2. key.init = s
      BY <1>1, <1>2, <2>1
    <2>3. key' = key /\ node' = [node EXCEPT ![n].step = "idle"]
      BY <1>2, <1>6, <2>2 DEF BS!Bootstrap_, BS!Initialize, BS!Goto
    <2>4. QED BY <1>1, <1>4, <2>1, <2>3
  <1>7. CASE BS!TakeLeader(n)
    <2>1. node[n].step = "take" /\ key' = [key EXCEPT !.leader = n] /\ node' = [node EXCEPT ![n].step = "member"]
      BY <1>7 DEF BS!TakeLeader, BS!Goto
    <2>2. key' \in BsKeys /\ key'.init = key.init /\ key'.leader = n
      BY <1>1, <2>1 DEF BsKeys
    <2>3. QED BY <1>1, <1>4, <2>1, <2>2
  <1>8. CASE BS!MoveDataDirectory(n)
    <2> DEFINE r == [node[n] EXCEPT !.data = None, !.step = "idle"]
    <2>1. node[n].step = "move" /\ key' = key /\ node' = [node EXCEPT ![n] = r]
      BY <1>8 DEF BS!MoveDataDirectory
    <2>2. r \in BsNodes /\ r.step = "idle" /\ r.data = None /\ r.init = node[n].init /\ r.leader = node[n].leader
      BY <1>1, BsFacts DEF BsNodes, BsSteps
    <2> HIDE DEF r
    <2>3. BsTurns(n, r) /\ BsKeeps(n, r, s)
      BY <1>1, <2>1, <2>2 DEF BsTurns, BsKeeps, BsBootSteps
    <2>4. QED BY <2>3
  <1>9. CASE BS!CreateReplica(n)
    <2>1. node[n].step = "loaded" /\ node[n].data = None /\ key' = key
      BY <1>9 DEF BS!CreateReplica
    <2>2. PICK m \in BS!CloneFrom(n) : node' = [node EXCEPT ![n].data = node[m].data, ![n].step = "member"]
      BY <1>9 DEF BS!CreateReplica
    <2>3. node[m].data = s
      BY <2>2 DEF BS!CloneFrom, BsFounded, BsHas, BS!Member
    <2> DEFINE r == [node[n] EXCEPT !.data = s, !.step = "member"]
    <2>4. node' = [node EXCEPT ![n] = r]
      BY <2>2, <2>3
    <2>5. r \in BsNodes /\ r.step = "member" /\ r.data = s /\ r.init = node[n].init /\ r.leader = node[n].leader
      BY <1>1, <1>2, BsFacts DEF BsNodes, BsSteps
    <2> HIDE DEF r
    <2>6. BsTurns(n, r) /\ BsKeeps(n, r, s)
      BY <1>1, <2>1, <2>4, <2>5 DEF BsTurns, BsKeeps, BsBootSteps
    <2>7. QED BY <2>6
  <1>10. CASE BS!CreateReplicaFails(n) \/ BS!WaitForLeader(n)
    <2>1. node[n].step = "loaded" /\ key' = key /\ node' = [node EXCEPT ![n].step = "idle"]
      BY <1>10 DEF BS!CreateReplicaFails, BS!WaitForLeader, BS!Goto
    <2>2. QED BY <1>1, <1>4, <2>1
  <1>11. CASE BS!Join(n)
    <2>1. node[n].step = "loaded" /\ node[n].data = s
      BY <1>1, <1>11 DEF BS!Join
    <2>2. node' = [node EXCEPT ![n].step = "join"]
      BY <1>1, <1>11, <2>1 DEF BS!Join, BS!Goto, BS!Valid
    <2>3. key' = key \/ key' = [key EXCEPT !.init = s]
      BY <1>11, <2>1 DEF BS!Join, BS!Initialize
    <2>4. key' \in BsKeys /\ key'.init \in {key.init, s} /\ key'.leader = key.leader
      BY <1>1, <1>2, <2>3 DEF BsKeys
    <2>5. QED BY <1>1, <1>4, <2>1, <2>2, <2>4
  <1>12. CASE BS!AttemptToAcquireLeader(n)
    <2>1. node[n].step = "join" /\ node' = [node EXCEPT ![n].step = "member"]
          /\ (key' = key \/ key' = [key EXCEPT !.leader = n])
      BY <1>12 DEF BS!AttemptToAcquireLeader, BS!Goto
    <2>2. key' \in BsKeys /\ key'.init = key.init /\ key'.leader \in {key.leader, n}
      BY <1>1, <2>1 DEF BsKeys
    <2>3. QED BY <1>1, <1>4, <2>1, <2>2
  <1>13. ~(BS!RunBootstrap(n) \/ BS!EndOfRecovery(n) \/ BS!PostBootstrap(n) \/ BS!Register(n)
           \/ BS!CancelInitialization(n) \/ BS!BootstrapFails(n))
    BY <1>1 DEF BS!RunBootstrap, BS!EndOfRecovery, BS!PostBootstrap, BS!Register, BS!CancelInitialization,
                BS!BootstrapFails, BsBooting, BsBootSteps
  <1>14. QED BY <1>5, <1>6, <1>7, <1>8, <1>9, <1>10, <1>11, <1>12, <1>13 DEF BS!BootStep

(* What a step may do before there is a system, with which there is none    *)
(* afterwards, either.                                                      *)
BsOrderly(n, r) ==
  /\ r.leader = None /\ r.init \in {"absent", ""}
  /\ r.step \in {"idle", "loaded"} => r.data = None
  /\ r.step \in {"idle", "loaded", "move"} \/ (r.step \in BsBootSteps /\ key'.init = "")
  /\ r.step \in {"post", "register"} => r.init = ""
  /\ r.step \in {"recovery", "check", "initialized", "post", "register"} => r.data = n

(* A step of a node in a cluster without a system, by which at most one     *)
(* node bootstraps.                                                         *)
LEMMA BsEmptyKept ==
  ASSUME BsGiven, BsTypeOK, BsEmpty, NEW n \in Nodes, NEW r, BsTurns(n, r), BsOrderly(n, r),
         key'.leader = None, key'.init \in {"absent", ""},
         key'.init = "absent" => key.init = "absent" \/ BsBooting(n),
         r.step \in BsBootSteps => BsBooting(n) \/ key.init = "absent"
  PROVE  BsEmpty'
  <1>1. BsTypeOK' /\ node'[n] = r /\ \A m \in Nodes : m # n => node'[m] = node[m]
    BY BsTurned
  <1>2. ASSUME NEW m \in Nodes, m # n, BsBooting(m) PROVE key'.init = "" /\ r.step \notin BsBootSteps
    BY <1>2 DEF BsEmpty, BsBooting, BsBootSteps
  <1>3. ASSUME NEW m \in Nodes, m # n
        PROVE  /\ node'[m].leader = None /\ node'[m].init \in {"absent", ""}
               /\ node'[m].step \in {"idle", "loaded"} => node'[m].data = None
               /\ node'[m].step \in {"idle", "loaded", "move"} \/ (BsBooting(m)' /\ key'.init = "")
               /\ node'[m].step \in {"post", "register"} => node'[m].init = ""
               /\ node'[m].step \in {"recovery", "check", "initialized", "post", "register"} => node'[m].data = m
    <2>1. node'[m] = node[m] /\ (BsBooting(m)' <=> BsBooting(m))
      BY <1>1, <1>3 DEF BsBooting
    <2>2. /\ node[m].leader = None /\ node[m].init \in {"absent", ""}
          /\ node[m].step \in {"idle", "loaded"} => node[m].data = None
          /\ node[m].step \in {"idle", "loaded", "move"} \/ BsBooting(m)
          /\ node[m].step \in {"post", "register"} => node[m].init = ""
          /\ node[m].step \in {"recovery", "check", "initialized", "post", "register"} => node[m].data = m
      BY DEF BsEmpty
    <2>3. BsBooting(m) => key'.init = ""
      BY <1>2, <1>3
    <2>4. QED BY <2>1, <2>2, <2>3
  <1>4. \A l, m \in Nodes : BsBooting(l)' /\ BsBooting(m)' => l = m
    <2>1. ASSUME NEW m \in Nodes, m # n, BsBooting(m)' PROVE ~BsBooting(n)'
      BY <1>1, <1>2, <2>1 DEF BsBooting
    <2>2. ASSUME NEW l \in Nodes, NEW m \in Nodes, l # n, m # n, BsBooting(l)', BsBooting(m)' PROVE l = m
      BY <1>1, <2>2 DEF BsBooting, BsEmpty
    <2>3. QED BY <2>1, <2>2
  <1>5. QED BY <1>1, <1>3, <1>4 DEF BsEmpty, BsOrderly, BsBooting

(* A step in a cluster without a system founds one or leaves it without.    *)
LEMMA BsEmptyStep ==
  ASSUME BsGiven, BsTypeOK, BsEmpty, NEW n \in Nodes,
         BS!BootStep(n) \/ BS!BootstrapFails(n) \/ BS!CreateReplicaFails(n)
  PROVE  BsTypeOK' /\ (BsEmpty' \/ BsFounded(n)')
  <1>1. /\ node[n] \in BsNodes /\ key \in BsKeys /\ key.init \in {"absent", ""} /\ key.leader = None
        /\ node[n].leader = None /\ node[n].init \in {"absent", ""}
        /\ node[n].step \in {"idle", "loaded"} => node[n].data = None
        /\ node[n].step \in {"idle", "loaded", "move"} \/ (BsBooting(n) /\ key.init = "")
        /\ node[n].step \in {"post", "register"} => node[n].init = ""
        /\ node[n].step \in {"recovery", "check", "initialized", "post", "register"} => node[n].data = n
    BY BsFacts DEF BsEmpty, BsTypeOK
  <1>2. ASSUME NEW step \in BsSteps, node' = [node EXCEPT ![n].step = step]
        PROVE  \E r \in BsNodes : /\ node' = [node EXCEPT ![n] = r] /\ r.step = step /\ r.data = node[n].data
                                  /\ r.init = node[n].init /\ r.leader = node[n].leader
    <2> DEFINE r == [node[n] EXCEPT !.step = step]
    <2>1. r \in BsNodes /\ r.step = step /\ r.data = node[n].data /\ r.init = node[n].init /\ r.leader = node[n].leader
      BY <1>1, <1>2 DEF BsNodes
    <2>2. node' = [node EXCEPT ![n] = r]
      BY <1>2
    <2> HIDE DEF r
    <2>3. QED BY <2>1, <2>2
  <1>3. ASSUME NEW r, BsTurns(n, r), BsOrderly(n, r), key' = key, r.step \in BsBootSteps => BsBooting(n)
        PROVE  BsTypeOK' /\ BsEmpty'
    BY <1>1, <1>3, BsTurned, BsEmptyKept
  <1>4. CASE BS!LoadCluster(n)
    <2>1. PICK step \in {"loaded", "post", "check"} :
            /\ step = CASE node[n].step = "initialized" -> "post" [] node[n].step = "recovery" -> "check" [] OTHER -> "loaded"
            /\ node' = [node EXCEPT ![n].init = key.init, ![n].leader = key.leader, ![n].step = step]
      BY <1>4 DEF BS!LoadCluster
    <2>2. key' = key /\ node[n].step \in {"idle", "member", "initialized", "recovery"}
      BY <1>4 DEF BS!LoadCluster
    <2>3. \/ step = "loaded" /\ node[n].step = "idle"
          \/ step = "post" /\ node[n].step = "initialized"
          \/ step = "check" /\ node[n].step = "recovery"
      BY <1>1, <2>1, <2>2 DEF BsBooting, BsBootSteps
    <2> DEFINE r == [node[n] EXCEPT !.init = key.init, !.leader = key.leader, !.step = step]
    <2>4. r \in BsNodes /\ r.step = step /\ r.data = node[n].data /\ r.init = key.init /\ r.leader = key.leader
      BY <1>1, BsFacts DEF BsNodes, BsSteps, BsBootSteps
    <2>5. node' = [node EXCEPT ![n] = r]
      BY <2>1
    <2> HIDE DEF r
    <2>6. BsTurns(n, r) /\ BsOrderly(n, r)
      BY <1>1, <2>2, <2>3, <2>4, <2>5 DEF BsTurns, BsOrderly, BsBooting, BsBootSteps
    <2>7. QED BY <1>3, <2>2, <2>3, <2>4, <2>6 DEF BsBooting, BsBootSteps
  <1>5. CASE BS!Bootstrap_(n)
    <2>1. node[n].step = "loaded"
      BY <1>5 DEF BS!Bootstrap_
    <2>2. CASE key.init = "absent"
      <3>1. key' = [key EXCEPT !.init = ""] /\ node' = [node EXCEPT ![n].step = "bootstrap"]
        BY <1>5, <2>2 DEF BS!Bootstrap_, BS!Initialize, BS!Goto
      <3>2. PICK r \in BsNodes : /\ node' = [node EXCEPT ![n] = r] /\ r.step = "bootstrap" /\ r.data = node[n].data
                                 /\ r.init = node[n].init /\ r.leader = node[n].leader
        BY <1>2, <3>1 DEF BsSteps, BsBootSteps
      <3>3. key' \in BsKeys /\ key'.init = "" /\ key'.leader = None
        BY <1>1, <3>1 DEF BsKeys, BsInits
      <3>4. BsTurns(n, r) /\ BsOrderly(n, r)
        BY <1>1, <3>2, <3>3 DEF BsTurns, BsOrderly, BsBootSteps
      <3>5. QED BY <2>2, <3>3, <3>4, BsTurned, BsEmptyKept
    <2>3. CASE key.init # "absent"
      <3>1. key' = key /\ node' = [node EXCEPT ![n].step = "idle"]
        BY <1>5, <2>3 DEF BS!Bootstrap_, BS!Initialize, BS!Goto
      <3>2. PICK r \in BsNodes : /\ node' = [node EXCEPT ![n] = r] /\ r.step = "idle" /\ r.data = node[n].data
                                 /\ r.init = node[n].init /\ r.leader = node[n].leader
        BY <1>2, <3>1 DEF BsSteps
      <3>3. BsTurns(n, r) /\ BsOrderly(n, r)
        BY <1>1, <2>1, <3>1, <3>2 DEF BsTurns, BsOrderly, BsBootSteps
      <3>4. QED BY <1>3, <3>1, <3>2, <3>3 DEF BsBootSteps
    <2>4. QED BY <2>2, <2>3
  <1>6. CASE BS!RunBootstrap(n)
    <2>1. PICK step \in {"recovery", "initialized"} : node' = [node EXCEPT ![n].data = n, ![n].step = step]
      BY <1>6 DEF BS!RunBootstrap
    <2>2. node[n].step = "bootstrap" /\ key' = key
      BY <1>6 DEF BS!RunBootstrap
    <2> DEFINE r == [node[n] EXCEPT !.data = n, !.step = step]
    <2>3. r \in BsNodes /\ r.step = step /\ r.data = n /\ r.init = node[n].init /\ r.leader = node[n].leader
      BY <1>1 DEF BsNodes, BsSteps, BsBootSteps
    <2>4. node' = [node EXCEPT ![n] = r]
      BY <2>1
    <2> HIDE DEF r
    <2>5. BsTurns(n, r) /\ BsOrderly(n, r)
      BY <1>1, <2>2, <2>3, <2>4 DEF BsTurns, BsOrderly, BsBooting, BsBootSteps
    <2>6. QED BY <1>3, <2>2, <2>5 DEF BsBooting, BsBootSteps
  <1>7. CASE BS!BootstrapFails(n) \/ BS!EndOfRecovery(n) \/ BS!PostBootstrap(n)
    <2>1. PICK step \in {"cancel", "initialized", "register"} :
            /\ node' = [node EXCEPT ![n].step = step]
            /\ step = "initialized" => node[n].step = "check"
            /\ step = "register" => node[n].step = "post"
      BY <1>7 DEF BS!BootstrapFails, BS!EndOfRecovery, BS!PostBootstrap, BS!Goto
    <2>2. key' = key /\ node[n].step \in {"bootstrap", "initialized", "check", "post"}
      BY <1>7 DEF BS!BootstrapFails, BS!EndOfRecovery, BS!PostBootstrap
    <2>3. PICK r \in BsNodes : /\ node' = [node EXCEPT ![n] = r] /\ r.step = step /\ r.data = node[n].data
                               /\ r.init = node[n].init /\ r.leader = node[n].leader
      <3>1. step \in BsSteps
        BY DEF BsSteps, BsBootSteps
      <3>2. QED BY <1>2, <2>1, <3>1
    <2>4. BsTurns(n, r) /\ BsBooting(n) /\ key.init = ""
      BY <1>1, <2>2, <2>3 DEF BsTurns, BsBooting, BsBootSteps
    <2>5. BsOrderly(n, r)
      <3>1. CASE step = "cancel"
        BY <1>1, <2>2, <2>3, <2>4, <3>1 DEF BsOrderly, BsBootSteps
      <3>2. CASE step = "initialized"
        BY <1>1, <2>1, <2>2, <2>3, <2>4, <3>2 DEF BsOrderly, BsBootSteps
      <3>3. CASE step = "register"
        BY <1>1, <2>1, <2>2, <2>3, <2>4, <3>3 DEF BsOrderly, BsBootSteps
      <3>4. QED BY <3>1, <3>2, <3>3
    <2>6. QED BY <1>3, <2>2, <2>4, <2>5
  <1>8. CASE BS!Register(n)
    <2>1. node[n].step = "register" /\ node[n].init = "" /\ node[n].data = n /\ key.init = "" /\ BsBooting(n)
      BY <1>1, <1>8 DEF BS!Register
    <2>2. key' = [key EXCEPT !.init = n] /\ node' = [node EXCEPT ![n].step = "take"]
      BY <1>8, <2>1 DEF BS!Register, BS!Initialize, BS!Goto
    <2>3. PICK r \in BsNodes : /\ node' = [node EXCEPT ![n] = r] /\ r.step = "take" /\ r.data = node[n].data
                               /\ r.init = node[n].init /\ r.leader = node[n].leader
      BY <1>2, <2>2 DEF BsSteps
    <2>4. key' \in BsKeys /\ key'.init = n /\ key'.leader = None
      BY <1>1, <2>2 DEF BsKeys, BsInits
    <2>5. BsTypeOK' /\ node'[n] = r /\ \A m \in Nodes : m # n => node'[m] = node[m]
      BY <2>3, <2>4, BsTurned DEF BsTurns
    <2>6. ASSUME NEW m \in Nodes, m # n PROVE node[m].step \in {"idle", "loaded", "move"} /\ node[m].leader = None
                                              /\ node[m].init \in {"absent", ""}
                                              /\ (node[m].step # "move" => node[m].data = None)
      BY <2>1, <2>6 DEF BsEmpty
    <2>7. BsFounded(n)'
      <3>1. ASSUME NEW m \in Nodes
            PROVE  /\ ~BsBooting(m)' /\ node'[m].init \in {"absent", "", n}
                   /\ node'[m].step = "move" \/ node'[m].data \in {None, n}
                   /\ BS!Member(m)' => node'[m].data = n
                   /\ node'[m].leader = None
        BY <1>1, <2>1, <2>3, <2>5, <2>6, <3>1 DEF BsBooting, BsBootSteps, BS!Member
      <3>2. n # "old" /\ n # None /\ None \notin Nodes
        BY DEF BsGiven
      <3>3. QED BY <2>4, <3>1, <3>2 DEF BsFounded
    <2>8. QED BY <2>5, <2>7
  <1>9. CASE BS!CancelInitialization(n)
    <2>1. node[n].step = "cancel" /\ key' = [key EXCEPT !.init = "absent"] /\ node' = [node EXCEPT ![n].step = "move"]
      BY <1>9 DEF BS!CancelInitialization, BS!Goto
    <2>2. PICK r \in BsNodes : /\ node' = [node EXCEPT ![n] = r] /\ r.step = "move" /\ r.data = node[n].data
                               /\ r.init = node[n].init /\ r.leader = node[n].leader
      BY <1>2, <2>1 DEF BsSteps
    <2>3. key' \in BsKeys /\ key'.init = "absent" /\ key'.leader = None
      BY <1>1, <2>1 DEF BsKeys, BsInits
    <2>4. BsTurns(n, r) /\ BsOrderly(n, r) /\ BsBooting(n) /\ r.step \notin BsBootSteps
      BY <1>1, <2>1, <2>2, <2>3 DEF BsTurns, BsOrderly, BsBooting, BsBootSteps
    <2>5. QED BY <2>3, <2>4, BsTurned, BsEmptyKept
  <1>10. CASE BS!MoveDataDirectory(n)
    <2> DEFINE r == [node[n] EXCEPT !.data = None, !.step = "idle"]
    <2>1. node[n].step = "move" /\ key' = key /\ node' = [node EXCEPT ![n] = r]
      BY <1>10 DEF BS!MoveDataDirectory
    <2>2. r \in BsNodes /\ r.step = "idle" /\ r.data = None /\ r.init = node[n].init /\ r.leader = node[n].leader
      BY <1>1 DEF BsNodes, BsSteps
    <2> HIDE DEF r
    <2>3. BsTurns(n, r) /\ BsOrderly(n, r) /\ r.step \notin BsBootSteps
      BY <1>1, <2>1, <2>2 DEF BsTurns, BsOrderly, BsBootSteps
    <2>4. QED BY <1>3, <2>1, <2>3
  <1>11. CASE BS!WaitForLeader(n)
    <2>1. node[n].step = "loaded" /\ key' = key /\ node' = [node EXCEPT ![n].step = "idle"]
      BY <1>11 DEF BS!WaitForLeader, BS!Goto
    <2>2. PICK r \in BsNodes : /\ node' = [node EXCEPT ![n] = r] /\ r.step = "idle" /\ r.data = node[n].data
                               /\ r.init = node[n].init /\ r.leader = node[n].leader
      BY <1>2, <2>1 DEF BsSteps
    <2>3. BsTurns(n, r) /\ BsOrderly(n, r) /\ r.step \notin BsBootSteps
      BY <1>1, <2>1, <2>2 DEF BsTurns, BsOrderly, BsBootSteps
    <2>4. QED BY <1>3, <2>1, <2>3
  <1>12. ~(BS!TakeLeader(n) \/ BS!CreateReplica(n) \/ BS!CreateReplicaFails(n) \/ BS!Join(n)
           \/ BS!AttemptToAcquireLeader(n))
    BY <1>1 DEF BS!TakeLeader, BS!CreateReplica, BS!CreateReplicaFails, BS!Join, BS!AttemptToAcquireLeader,
                BsBooting, BsBootSteps
  <1>13. QED BY <1>4, <1>5, <1>6, <1>7, <1>8, <1>9, <1>10, <1>11, <1>12 DEF BS!BootStep

(* The leader key expires.                                                  *)
LEMMA BsExpires ==
  ASSUME BsGiven, BsInv, BS!LeaderExpires
  PROVE  BsInv'
  <1>1. BsTypeOK /\ key.leader # None /\ key' = [key EXCEPT !.leader = None] /\ node' = node
    BY DEF BsInv, BS!LeaderExpires
  <1>2. BsTypeOK' /\ key'.init = key.init /\ key'.leader = None
    BY <1>1 DEF BsTypeOK, BsKeys
  <1>3. PICK s \in Nodes \cup {"old"} : BsFounded(s)
    BY <1>1 DEF BsInv, BsEmpty
  <1>4. BsFounded(s)'
    BY <1>1, <1>2, <1>3 DEF BsFounded, BsHas, BsBooting, BS!Member, BsGiven
  <1>5. QED BY <1>2, <1>4 DEF BsInv

(* OneSystem of the module on its own.                                      *)
LEMMA BootstrapProved ==
  ASSUME Mixed = FALSE, None \notin Nodes, None # "old", "old" \notin Nodes, "absent" \notin Nodes, "" \notin Nodes
  PROVE  BS!BootSpec => []BS!OneSystem
  <1>1. BsGiven
    BY DEF BsGiven
  <1>2. BS!BootInit => BsInv
    <2> SUFFICES ASSUME BS!BootInit PROVE BsInv
      OBVIOUS
    <2>1. PICK have \in {{}, Nodes} :
            node = [n \in Nodes |-> [step |-> "idle", data |-> IF n \in have THEN "old" ELSE None,
                                     init |-> "absent", leader |-> None]]
      BY DEF BS!BootInit, BS!Old
    <2>2. key = [init |-> "absent", leader |-> None]
      BY DEF BS!BootInit
    <2>3. BsTypeOK
      BY <2>1, <2>2 DEF BsTypeOK, BsKeys, BsNodes, BsSteps, BsInits
    <2>4. CASE have = {}
      BY <1>1, <2>1, <2>2, <2>3, <2>4 DEF BsInv, BsEmpty, BsBooting, BsBootSteps, BsGiven
    <2>5. CASE have = Nodes
      <3>1. BsFounded("old")
        BY <1>1, <2>1, <2>2, <2>5 DEF BsFounded, BsBooting, BsBootSteps, BsHas, BS!Member, BsGiven
      <3>2. QED BY <2>3, <3>1 DEF BsInv
    <2>6. QED BY <2>4, <2>5
  <1>3. BsInv /\ [BS!BootNext]_(BS!bootVars) => BsInv'
    <2> SUFFICES ASSUME BsInv, [BS!BootNext]_(BS!bootVars) PROVE BsInv'
      OBVIOUS
    <2>1. CASE UNCHANGED BS!bootVars
      <3>1. key' = key /\ node' = node
        BY <2>1 DEF BS!bootVars
      <3>2. BsTypeOK'
        BY <3>1 DEF BsInv, BsTypeOK
      <3>3. BsEmpty => BsEmpty'
        BY <3>1 DEF BsEmpty, BsBooting
      <3>4. ASSUME NEW s, BsFounded(s) PROVE BsFounded(s)'
        BY <3>1, <3>4 DEF BsFounded, BsBooting, BsHas, BS!Member
      <3>5. QED BY <3>2, <3>3, <3>4 DEF BsInv
    <2>2. CASE BS!LeaderExpires
      BY <1>1, <2>2, BsExpires
    <2>3. ASSUME NEW n \in Nodes, BS!BootStep(n) \/ BS!BootstrapFails(n) \/ BS!CreateReplicaFails(n) PROVE BsInv'
      <3>1. CASE BsEmpty
        BY <1>1, <2>3, <3>1, BsEmptyStep DEF BsInv
      <3>2. CASE \E s \in Nodes \cup {"old"} : BsFounded(s)
        BY <1>1, <2>3, <3>2, BsFoundedStep DEF BsInv
      <3>3. QED BY <3>1, <3>2 DEF BsInv
    <2>4. QED BY <2>1, <2>2, <2>3 DEF BS!BootNext
  <1>4. BsInv => BS!OneSystem
    <2> SUFFICES ASSUME BsInv PROVE BS!OneSystem
      OBVIOUS
    <2>1. CASE BsEmpty
      BY <1>1, <2>1 DEF BsEmpty, BS!OneSystem, BS!Member, BsBooting, BsBootSteps, BsGiven
    <2>2. ASSUME NEW s \in Nodes \cup {"old"}, BsFounded(s) PROVE BS!OneSystem
      BY <1>1, <2>2 DEF BsFounded, BsHas, BS!OneSystem, BS!Valid, BsGiven
    <2>3. QED BY <2>1, <2>2 DEF BsInv
  <1>5. QED BY <1>2, <1>3, <1>4, PTL DEF BS!BootSpec

(* All nodes that take part in the cluster have the data of one system: the *)
(* one that was bootstrapped first and registered, or the one that was      *)
(* taken over; for any number of nodes and of failed attempts, unless nodes *)
(* with data meet nodes without.                                            *)
THEOREM OneSystemOnly ==
  ASSUME Mixed = FALSE, None \notin Nodes, None # "old", "old" \notin Nodes, "absent" \notin Nodes, "" \notin Nodes
  PROVE  Spec => []OneSystem
  <1> DEFINE Here == part = "bootstrap"
  <1>1. Init /\ Here => BS!BootInit
    BY DEF Init
  <1>2. Here /\ [Next]_vars => Here' /\ [BS!BootNext]_(BS!bootVars)
    BY DEF Next, vars, bootVars, BS!bootVars
  <1>3. ~Here /\ [Next]_vars => ~Here'
    BY DEF Next, vars
  <1>4. BS!BootSpec => []BS!OneSystem
    BY BootstrapProved
  <1>5. (Here => BS!OneSystem) => OneSystem
    BY DEF OneSystem
  <1> HIDE DEF Here
  <1>6. QED BY <1>1, <1>2, <1>3, <1>4, <1>5, PTL DEF Spec, BS!BootSpec

-----------------------------------------------------------------------------
(* pg_rewind.                                                               *)

RwWals == Seq(Nat) \ {<<>>}
RwLeaders == [wal : RwWals, name : Nat, up : BOOLEAN, promoted : BOOLEAN, control : Nat,
              task : {"none", "running", "ok", "failed"}, ckpt : BOOLEAN, shows : {"replica", "waiting", "ready"}]
RwLocals == [wal : RwWals, proc : {"up", "down"},
             control : {"production", "shut down", "shut down in recovery", "in archive recovery"},
             data : {"ok", "damaged", "empty"}, conf : Nat, allowed : RW!Allowed, timeline : Nat, faults : Nat]
RwStates == [state : {"INITIAL", "CHECK", "NEED", "NOT_NEED", "SUCCESS", "FAILED"}, crash : BOOLEAN,
             recovering : BOOLEAN, source : Nat,
             task : {"none", "crash recovery", "rewind", "pg_rewind", "reinitialize", "start"}]

RwTypeOK == leader \in RwLeaders /\ local \in RwLocals /\ rw \in RwStates

(* The member key of a primary says that a checkpoint was run, and its      *)
(* Rewind object does, only when pg_control has the timeline of the         *)
(* promotion.                                                               *)
RwPublished ==
  /\ ~leader.promoted => leader.shows = "replica"
  /\ leader.promoted /\ (leader.ckpt \/ leader.task = "ok" \/ leader.shows = "ready") =>
       leader.control = RW!Timeline(leader.wal)

(* The leader that was asked last has no later timeline than the present    *)
(* one; pg_rewind runs only against one whose pg_control has its timeline.  *)
RwAsked ==
  /\ rw.source <= RW!Timeline(leader.wal)
  /\ rw.task = "pg_rewind" =>
       /\ local.proc = "down"
       /\ leader.promoted /\ rw.source = RW!Timeline(leader.wal) => leader.control = RW!Timeline(leader.wal)

(* After a success the node is only started: no crash recovery writes to    *)
(* its WAL before the state is reset.                                       *)
RwRewound ==
  rw.state = "SUCCESS" =>
    /\ local.control = "in archive recovery" /\ rw.task \in {"none", "start"}
    /\ local.proc = "up" \/ rw.task = "start" => rw.recovering
    /\ leader.promoted /\ rw.source = RW!Timeline(leader.wal) => RW!IsPrefix(local.wal, leader.wal)

RwInv == RwTypeOK /\ RwPublished /\ RwAsked /\ RwRewound

(* The timeline of a WAL, and of one that got a record or was cut off.      *)
LEMMA RwTimeline ==
  ASSUME NEW w \in RwWals
  PROVE  /\ RW!Timeline(w) \in Nat /\ Len(w) \in Nat \ {0} /\ \A i \in 1..Len(w) : w[i] \in Nat
         /\ \A t \in Nat : Append(w, t) \in RwWals /\ RW!Timeline(Append(w, t)) = t
         /\ \A n \in 1..Len(w) : SubSeq(w, 1, n) \in RwWals /\ RW!Timeline(SubSeq(w, 1, n)) = w[n]
  <1>1. w \in Seq(Nat) /\ Len(w) \in Nat \ {0}
    BY DEF RwWals
  <1>2. \A i \in 1..Len(w) : w[i] \in Nat
    BY <1>1
  <1>3. RW!Timeline(w) \in Nat
    BY <1>1, <1>2 DEF RW!Timeline, RW!Last
  <1>4. ASSUME NEW t \in Nat PROVE Append(w, t) \in RwWals /\ RW!Timeline(Append(w, t)) = t
    <2>1. Append(w, t) \in Seq(Nat) /\ Len(Append(w, t)) = Len(w) + 1 /\ Append(w, t)[Len(w) + 1] = t
      BY <1>1
    <2>2. Append(w, t) # <<>>
      BY <1>1, <2>1
    <2>3. QED BY <2>1, <2>2 DEF RwWals, RW!Timeline, RW!Last
  <1>5. ASSUME NEW n \in 1..Len(w) PROVE SubSeq(w, 1, n) \in RwWals /\ RW!Timeline(SubSeq(w, 1, n)) = w[n]
    <2>1. SubSeq(w, 1, n) \in Seq(Nat) /\ Len(SubSeq(w, 1, n)) = n /\ SubSeq(w, 1, n)[n] = w[n]
      BY <1>1
    <2>2. SubSeq(w, 1, n) # <<>>
      BY <1>1, <2>1
    <2>3. QED BY <2>1, <2>2 DEF RwWals, RW!Timeline, RW!Last
  <1>6. QED BY <1>1, <1>2, <1>3, <1>4, <1>5

(* A WAL is a prefix of itself, and stays one of a WAL that goes on.        *)
LEMMA RwPrefix ==
  ASSUME NEW w \in RwWals
  PROVE  /\ RW!IsPrefix(w, w)
         /\ \A v \in RwWals, t \in Nat : RW!IsPrefix(v, w) => RW!IsPrefix(v, Append(w, t))
         /\ \A n \in 1..Len(w) : RW!IsPrefix(SubSeq(w, 1, n), w)
  <1>1. w \in Seq(Nat) /\ Len(w) \in Nat \ {0}
    BY DEF RwWals
  <1>2. RW!IsPrefix(w, w)
    BY <1>1 DEF RW!IsPrefix
  <1>3. ASSUME NEW v \in RwWals, NEW t \in Nat, RW!IsPrefix(v, w) PROVE RW!IsPrefix(v, Append(w, t))
    <2>1. v \in Seq(Nat) /\ Len(v) \in Nat /\ Len(v) <= Len(w) /\ SubSeq(v, 1, Len(v)) = SubSeq(w, 1, Len(v))
      BY <1>3 DEF RW!IsPrefix, RwWals
    <2>2. SubSeq(Append(w, t), 1, Len(v)) = SubSeq(w, 1, Len(v)) /\ Len(v) <= Len(Append(w, t))
      BY <1>1, <2>1
    <2>3. QED BY <2>1, <2>2 DEF RW!IsPrefix
  <1>4. ASSUME NEW n \in 1..Len(w) PROVE RW!IsPrefix(SubSeq(w, 1, n), w)
    <2> DEFINE s == SubSeq(w, 1, n)
    <2>1. s \in Seq(Nat) /\ Len(s) = n /\ SubSeq(s, 1, Len(s)) = s
      BY <1>1
    <2>2. QED BY <1>1, <2>1 DEF RW!IsPrefix
  <1>5. QED BY <1>2, <1>3, <1>4

(* The fields of a typed state.                                             *)
LEMMA RwFacts ==
  ASSUME RwTypeOK
  PROVE  /\ leader.wal \in RwWals /\ leader.name \in Nat /\ leader.up \in BOOLEAN /\ leader.promoted \in BOOLEAN
         /\ leader.control \in Nat /\ leader.ckpt \in BOOLEAN /\ leader.task \in {"none", "running", "ok", "failed"}
         /\ local.wal \in RwWals /\ local.faults \in Nat /\ local.conf \in Nat
         /\ rw.source \in Nat /\ rw.crash \in BOOLEAN /\ rw.recovering \in BOOLEAN
         /\ RW!Timeline(leader.wal) \in Nat /\ RW!Timeline(local.wal) \in Nat
  <1>1. leader.wal \in RwWals /\ local.wal \in RwWals
    BY DEF RwTypeOK, RwLeaders, RwLocals
  <1>2. RW!Timeline(leader.wal) \in Nat /\ RW!Timeline(local.wal) \in Nat
    BY <1>1, RwTimeline
  <1>3. QED BY <1>1, <1>2 DEF RwTypeOK, RwLeaders, RwLocals, RwStates

-----------------------------------------------------------------------------
(* A step of the leader, after which it is l: it is no primary, or has a    *)
(* later timeline, or goes on writing on its own.                           *)
RwLeads(l) ==
  LET old == RW!Timeline(leader.wal)
      new == RW!Timeline(l.wal) IN
  /\ leader' = l /\ l \in RwLeaders /\ rw' = rw
  /\ local' \in RwLocals /\ local'.wal = local.wal /\ local'.proc = local.proc /\ local'.control = local.control
  /\ ~l.promoted => l.shows = "replica"
  /\ l.promoted /\ (l.ckpt \/ l.task = "ok" \/ l.shows = "ready") => l.control = new
  /\ \/ ~l.promoted /\ new >= old
     \/ l.promoted /\ new > old
     \/ /\ leader.promoted /\ new = old /\ l.control \in {leader.control, new}
        /\ l.wal = leader.wal \/ l.wal = Append(leader.wal, old)

(* Such a step preserves the invariant.                                     *)
LEMMA RwLeadsKeeps ==
  ASSUME RwInv, NEW l, RwLeads(l)
  PROVE  RwInv'
  <1> DEFINE old == RW!Timeline(leader.wal)
             new == RW!Timeline(l.wal)
  <1>1. RwTypeOK /\ RwTypeOK'
    BY DEF RwInv, RwTypeOK, RwLeads
  <1>2. old \in Nat /\ new \in Nat /\ rw.source \in Nat /\ rw.source <= old /\ leader.wal \in RwWals /\ local.wal \in RwWals
    <2>1. l.wal \in RwWals
      BY DEF RwLeads, RwLeaders
    <2>2. QED BY <1>1, <2>1, RwFacts, RwTimeline DEF RwInv, RwAsked
  <1>3. RwPublished'
    BY DEF RwPublished, RwLeads
  <1>4. \/ ~l.promoted /\ new >= old
        \/ l.promoted /\ new > old
        \/ /\ leader.promoted /\ new = old /\ l.control \in {leader.control, new}
           /\ l.wal = leader.wal \/ l.wal = Append(leader.wal, old)
    BY DEF RwLeads
  <1>5. rw' = rw /\ leader' = l /\ local'.wal = local.wal /\ local'.proc = local.proc /\ local'.control = local.control
    BY DEF RwLeads
  <1>6. RwAsked'
    <2>1. rw.source <= new
      BY <1>2, <1>4
    <2>2. ASSUME rw.task = "pg_rewind", l.promoted, rw.source = new PROVE l.control = new
      <3>1. leader.promoted /\ new = old /\ l.control \in {leader.control, new}
        BY <1>2, <1>4, <2>2
      <3>2. QED BY <2>2, <3>1 DEF RwInv, RwAsked
    <2>3. QED BY <1>5, <2>1, <2>2 DEF RwInv, RwAsked
  <1>7. RwRewound'
    <2>1. ASSUME rw.state = "SUCCESS", l.promoted, rw.source = new PROVE RW!IsPrefix(local.wal, l.wal)
      <3>1. leader.promoted /\ new = old /\ (l.wal = leader.wal \/ l.wal = Append(leader.wal, old))
        BY <1>2, <1>4, <2>1
      <3>2. RW!IsPrefix(local.wal, leader.wal)
        BY <2>1, <3>1 DEF RwInv, RwRewound
      <3>3. QED BY <1>2, <3>1, <3>2, RwPrefix
    <2>2. QED BY <1>5, <2>1 DEF RwInv, RwRewound
  <1>8. QED BY <1>1, <1>3, <1>6, <1>7 DEF RwInv


(* The leader is promoted, runs its checkpoint, says so, writes and fails.  *)
LEMMA RwLeaderStep ==
  ASSUME RwInv, \/ RW!Promote \/ RW!EnsureCheckpointAfterPromote \/ RW!Checkpoint \/ RW!CheckpointFails
                \/ RW!TouchMember \/ RW!LeaderWrites \/ RW!LeaderGone
  PROVE  RwInv'
  <1> DEFINE old == RW!Timeline(leader.wal)
  <1>1. /\ RwTypeOK /\ leader \in RwLeaders /\ leader.wal \in RwWals /\ old \in Nat /\ local \in RwLocals
        /\ local.faults + 1 \in Nat
    BY RwFacts DEF RwInv, RwTypeOK
  <1>2. /\ ~leader.promoted => leader.shows = "replica"
        /\ leader.promoted /\ (leader.ckpt \/ leader.task = "ok" \/ leader.shows = "ready") => leader.control = old
    BY DEF RwInv, RwPublished
  <1>3. rw' = rw /\ local' \in RwLocals /\ local'.wal = local.wal /\ local'.proc = local.proc
        /\ local'.control = local.control
    <2>1. rw' = rw /\ (local' = local \/ local' = [local EXCEPT !.faults = local.faults + 1])
      BY DEF RW!Promote, RW!EnsureCheckpointAfterPromote, RW!Checkpoint, RW!CheckpointFails, RW!TouchMember,
             RW!LeaderWrites, RW!LeaderGone
    <2>2. QED BY <1>1, <2>1 DEF RwLocals
  <1>4. CASE RW!Promote
    <2> DEFINE w == Append(leader.wal, old + 1)
               l == [leader EXCEPT !.promoted = TRUE, !.wal = w, !.ckpt = FALSE, !.task = "none"]
    <2>1. w \in RwWals /\ RW!Timeline(w) = old + 1 /\ ~leader.promoted
      <3>1. old + 1 \in Nat /\ ~leader.promoted
        BY <1>1, <1>4 DEF RW!Promote
      <3> HIDE DEF old
      <3>2. QED BY <1>1, <3>1, RwTimeline
    <2>2. leader' = l
      BY <1>4 DEF RW!Promote
    <2> HIDE DEF w
    <2>3. l \in RwLeaders /\ l.wal = w /\ l.promoted /\ ~l.ckpt /\ l.task = "none" /\ l.shows = "replica"
      BY <1>1, <1>2, <2>1 DEF RwLeaders
    <2> HIDE DEF l
    <2>4. old + 1 > old
      BY <1>1
    <2>5. RwLeads(l)
      BY <1>3, <2>1, <2>2, <2>3, <2>4 DEF RwLeads
    <2>6. QED BY <2>5, RwLeadsKeeps
  <1>5. CASE RW!LeaderWrites
    <2> DEFINE w == Append(leader.wal, old)
               l == [leader EXCEPT !.wal = w]
    <2>1. w \in RwWals /\ RW!Timeline(w) = old /\ leader.promoted
      BY <1>1, <1>5, RwTimeline DEF RW!LeaderWrites
    <2>2. leader' = l
      BY <1>5 DEF RW!LeaderWrites
    <2>3. /\ l \in RwLeaders /\ l.wal = w /\ l.promoted /\ l.ckpt = leader.ckpt /\ l.task = leader.task
          /\ l.shows = leader.shows /\ l.control = leader.control
      BY <1>1, <2>1 DEF RwLeaders
    <2>4. w = Append(leader.wal, old)
      OBVIOUS
    <2> HIDE DEF l, w
    <2>5. RwLeads(l)
      BY <1>2, <1>3, <2>1, <2>2, <2>3, <2>4 DEF RwLeads
    <2>6. QED BY <2>5, RwLeadsKeeps
  (* The other steps leave its WAL alone.                                   *)
  <1>6. ASSUME NEW l \in RwLeaders, leader' = l, l.wal = leader.wal, l.promoted = leader.promoted,
               l.control \in {leader.control, old}, ~l.promoted => l.shows = "replica",
               l.promoted /\ (l.ckpt \/ l.task = "ok" \/ l.shows = "ready") => l.control = old
        PROVE  RwInv'
    <2>1. RwLeads(l)
      BY <1>1, <1>3, <1>6 DEF RwLeads, RwLeaders
    <2>2. QED BY <2>1, RwLeadsKeeps
  <1>7. CASE RW!EnsureCheckpointAfterPromote
    <2>1. leader.promoted /\ ~leader.ckpt
      BY <1>7 DEF RW!EnsureCheckpointAfterPromote
    <2>2. CASE /\ leader.task \in {"ok", "failed"}
               /\ leader' = [leader EXCEPT !.ckpt = leader.task = "ok", !.task = "none"]
      <3> DEFINE c == leader.task = "ok"
                 l == [leader EXCEPT !.ckpt = c, !.task = "none"]
      <3>1. l \in RwLeaders /\ l.wal = leader.wal /\ l.promoted = leader.promoted /\ l.control = leader.control
            /\ l.shows = leader.shows /\ l.ckpt = c /\ l.task = "none"
        BY <1>1 DEF RwLeaders
      <3>2. leader' = l
        BY <2>2
      <3> HIDE DEF l
      <3>3. QED BY <1>2, <1>6, <2>1, <3>1, <3>2
    <2>3. CASE leader.control = old /\ leader' = [leader EXCEPT !.ckpt = TRUE]
      <3> DEFINE l == [leader EXCEPT !.ckpt = TRUE]
      <3>1. l \in RwLeaders /\ l.wal = leader.wal /\ l.promoted = leader.promoted /\ l.control = leader.control
        BY <1>1 DEF RwLeaders
      <3> HIDE DEF l
      <3>2. QED BY <1>6, <2>1, <2>3, <3>1 DEF l
    <2>4. CASE leader' = [leader EXCEPT !.task = "running"]
      <3> DEFINE l == [leader EXCEPT !.task = "running"]
      <3>1. l \in RwLeaders /\ l.wal = leader.wal /\ l.promoted = leader.promoted /\ l.control = leader.control
            /\ l.shows = leader.shows /\ l.ckpt = leader.ckpt /\ l.task = "running"
        BY <1>1 DEF RwLeaders
      <3>2. leader' = l
        BY <2>4
      <3> HIDE DEF l
      <3>3. QED BY <1>2, <1>6, <2>1, <3>1, <3>2
    <2>5. QED BY <1>7, <2>2, <2>3, <2>4 DEF RW!EnsureCheckpointAfterPromote
  <1>8. CASE RW!Checkpoint
    <2> DEFINE l == [leader EXCEPT !.task = "ok", !.control = old]
    <2>1. leader' = l
      BY <1>8 DEF RW!Checkpoint
    <2>2. l \in RwLeaders /\ l.wal = leader.wal /\ l.promoted = leader.promoted /\ l.control = old
          /\ l.shows = leader.shows
      BY <1>1 DEF RwLeaders
    <2> HIDE DEF l
    <2>3. QED BY <1>2, <1>6, <2>1, <2>2
  <1>9. CASE RW!CheckpointFails
    <2> DEFINE l == [leader EXCEPT !.task = "failed"]
    <2>1. leader' = l
      BY <1>9 DEF RW!CheckpointFails
    <2>2. l \in RwLeaders /\ l.wal = leader.wal /\ l.promoted = leader.promoted /\ l.control = leader.control
          /\ l.shows = leader.shows /\ l.ckpt = leader.ckpt /\ l.task = "failed"
      BY <1>1 DEF RwLeaders
    <2> HIDE DEF l
    <2>3. QED BY <1>2, <1>6, <2>1, <2>2
  <1>10. CASE RW!TouchMember
    <2>1. PICK s \in {"replica", "waiting", "ready"} :
            leader' = [leader EXCEPT !.shows = s] /\ (~leader.promoted => s = "replica")
            /\ (s = "ready" => leader.ckpt)
      BY <1>10 DEF RW!TouchMember
    <2> DEFINE l == [leader EXCEPT !.shows = s]
    <2>2. l \in RwLeaders /\ l.wal = leader.wal /\ l.promoted = leader.promoted /\ l.control = leader.control
          /\ l.shows = s /\ l.ckpt = leader.ckpt /\ l.task = leader.task
      BY <1>1, <2>1 DEF RwLeaders
    <2>3. leader' = l
      BY <2>1
    <2> HIDE DEF l
    <2>4. QED BY <1>2, <1>6, <2>1, <2>2, <2>3
  <1>11. CASE RW!LeaderGone
    <2> DEFINE l == [leader EXCEPT !.up = FALSE]
    <2>1. leader' = l
      BY <1>11 DEF RW!LeaderGone
    <2>2. l \in RwLeaders /\ l.wal = leader.wal /\ l.promoted = leader.promoted /\ l.control = leader.control
          /\ l.shows = leader.shows /\ l.ckpt = leader.ckpt /\ l.task = leader.task
      BY <1>1 DEF RwLeaders
    <2> HIDE DEF l
    <2>3. QED BY <1>2, <1>6, <2>1, <2>2
  <1>12. QED BY <1>4, <1>5, <1>7, <1>8, <1>9, <1>10, <1>11

(* A new leader has a part of the WAL, but the same timeline.               *)
LEMMA RwElected ==
  ASSUME RwInv, RW!Elect
  PROVE  RwInv'
  <1>1. PICK n \in 1..Len(leader.wal), name \in RW!Names :
          /\ leader.wal[n] = RW!Timeline(leader.wal)
          /\ leader' = RW!NewLeader_(SubSeq(leader.wal, 1, n), name, name = leader.name /\ leader.ckpt)
    BY DEF RW!Elect
  <1>2. /\ leader.wal \in RwWals /\ local' = local /\ rw' = rw /\ local \in RwLocals /\ leader.ckpt \in BOOLEAN
        /\ RW!Timeline(leader.wal) \in Nat
    BY RwFacts DEF RwInv, RwTypeOK, RW!Elect
  <1> DEFINE w == SubSeq(leader.wal, 1, n)
             c == name = leader.name /\ leader.ckpt
             l == RW!NewLeader_(w, name, c)
  <1>3. w \in RwWals /\ RW!Timeline(w) = RW!Timeline(leader.wal) /\ c \in BOOLEAN /\ name \in Nat
    <2>1. name \in Nat /\ c \in BOOLEAN
      BY <1>1, <1>2 DEF RW!Names
    <2>2. w \in RwWals /\ RW!Timeline(w) = leader.wal[n]
      BY <1>1, <1>2, RwTimeline
    <2>3. QED BY <1>1, <2>1, <2>2
  <1>4. leader' = l
    BY <1>1
  <1> HIDE DEF w, c
  <1>5. l \in RwLeaders /\ l.wal = w /\ ~l.promoted /\ l.shows = "replica"
    BY <1>2, <1>3 DEF RW!NewLeader_, RwLeaders
  <1> HIDE DEF l
  <1>6. RwLeads(l)
    BY <1>2, <1>3, <1>4, <1>5 DEF RwLeads
  <1>7. QED BY <1>6, RwLeadsKeeps


-----------------------------------------------------------------------------
(* A step of the node after which its last pg_rewind does not count any     *)
(* more.                                                                    *)
LEMMA RwOnward ==
  ASSUME RwInv, leader' = leader, local' \in RwLocals, rw' \in RwStates,
         rw'.source \in {rw.source, RW!Timeline(leader.wal)}, rw'.state # "SUCCESS", rw'.task # "pg_rewind"
  PROVE  RwInv'
  <1>1. RwTypeOK'
    BY DEF RwInv, RwTypeOK
  <1>2. RwAsked'
    BY RwFacts DEF RwInv, RwAsked
  <1>3. QED BY <1>1, <1>2 DEF RwInv, RwPublished, RwRewound

(* The state of Rewind while no task runs.                                  *)
RwIdle(x) ==
  x \in RwStates /\ x.state # "SUCCESS" /\ x.task = "none" /\ x.source \in {rw.source, RW!Timeline(leader.wal)}

(* What the steps of a cycle make of it.                                    *)
LEMMA RwCycle ==
  ASSUME RwTypeOK, NEW x, RwIdle(x)
  PROVE  /\ RwIdle(RW!TriggerCheckDivergedLsn(x)) /\ \A r \in RW!CheckTimelineAndLsn(x) : RwIdle(r)
         /\ LET r == RW!Run(x, RW!Task(x)) IN
              /\ r \in RwStates /\ r.state = x.state /\ r.source = x.source /\ r.task # "pg_rewind"
  <1>1. x \in RwStates /\ RW!Timeline(leader.wal) \in Nat
    BY RwFacts DEF RwIdle
  <1>2. RwIdle(RW!TriggerCheckDivergedLsn(x))
    BY <1>1 DEF RW!TriggerCheckDivergedLsn, RwIdle, RwStates
  <1>3. ASSUME NEW r \in RW!CheckTimelineAndLsn(x) PROVE RwIdle(r)
    <2>1. \/ r = x
          \/ \E s \in {"NEED", "NOT_NEED"} : r = [x EXCEPT !.state = s, !.source = RW!Timeline(leader.wal)]
      BY <1>3 DEF RW!CheckTimelineAndLsn
    <2>2. QED BY <1>1, <2>1 DEF RwIdle, RwStates
  <1>4. LET r == RW!Run(x, RW!Task(x)) IN
          /\ r \in RwStates /\ r.state = x.state /\ r.source = x.source /\ r.task # "pg_rewind"
    <2> DEFINE t == RW!Task(x)
               c == x.crash \/ t = "crash recovery"
               r == [x EXCEPT !.task = t, !.crash = c]
    <2>1. t \in {"none", "reinitialize", "crash recovery", "rewind"}
      BY DEF RW!Task
    <2>2. c \in BOOLEAN
      OBVIOUS
    <2>3. RW!Run(x, t) = r
      BY <1>1 DEF RW!Run, RwStates
    <2> HIDE DEF t, c
    <2>4. r \in RwStates /\ r.state = x.state /\ r.source = x.source /\ r.task = t
      BY <1>1, <2>1, <2>2 DEF RwStates
    <2>5. QED BY <2>1, <2>3, <2>4 DEF t
  <1>5. QED BY <1>2, <1>3, <1>4

(* recover(): after a success the node is started at once, with whatever    *)
(* leader there is.                                                         *)
LEMMA RwRecover ==
  ASSUME RwInv, RW!Recover
  PROVE  RwInv'
  <1>1. /\ RwTypeOK /\ local \in RwLocals /\ rw \in RwStates /\ rw.task = "none" /\ local.proc = "down"
        /\ leader' = leader /\ leader.name \in Nat
    BY RwFacts DEF RwInv, RwTypeOK, RW!Recover
  <1> DEFINE conf == IF leader.up THEN leader.name ELSE 0
  <1>2. conf \in Nat
    BY <1>1
  <1>3. CASE local.control = "production" /\ RW!CrashRecoveryPossible(rw)
    <2>1. rw' = RW!Run(rw, "crash recovery") /\ local' = local /\ rw.state # "SUCCESS"
      BY <1>3 DEF RW!Recover, RwInv, RwRewound
    <2>2. rw' \in RwStates /\ rw'.state = rw.state /\ rw'.source = rw.source /\ rw'.task = "crash recovery"
      BY <1>1, <2>1 DEF RW!Run, RwStates
    <2>3. QED BY <1>1, <2>1, <2>2, RwOnward
  <1>4. CASE ~(local.control = "production" /\ RW!CrashRecoveryPossible(rw)) /\ rw.state # "SUCCESS"
    <2> DEFINE x == IF rw.state = "FAILED" THEN rw ELSE RW!TriggerCheckDivergedLsn(rw)
    <2>1. PICK r \in RW!CheckTimelineAndLsn(x) :
            IF RW!Task(r) # "none" THEN rw' = RW!Run(r, RW!Task(r)) /\ UNCHANGED local
            ELSE rw' = [r EXCEPT !.recovering = TRUE, !.task = "start"] /\ local' = [local EXCEPT !.conf = conf]
      BY <1>4 DEF RW!Recover
    <2>2. RwIdle(rw)
      BY <1>1, <1>4 DEF RwIdle
    <2>3. RwIdle(x)
      BY <1>1, <2>2, RwCycle
    <2>4. RwIdle(r)
      BY <1>1, <2>1, <2>3, RwCycle
    <2> HIDE DEF x, conf
    <2>5. CASE RW!Task(r) # "none"
      BY <1>1, <2>1, <2>4, <2>5, RwCycle, RwOnward DEF RwIdle
    <2>6. CASE RW!Task(r) = "none"
      <3>1. rw' = [r EXCEPT !.recovering = TRUE, !.task = "start"] /\ local' = [local EXCEPT !.conf = conf]
        BY <2>1, <2>6
      <3>2. rw' \in RwStates /\ rw'.state = r.state /\ rw'.source = r.source /\ rw'.task = "start"
        BY <2>4, <3>1 DEF RwIdle, RwStates
      <3>3. local' \in RwLocals
        BY <1>1, <1>2, <3>1 DEF RwLocals
      <3>4. QED BY <1>1, <2>4, <3>2, <3>3, RwOnward DEF RwIdle
    <2>7. QED BY <2>5, <2>6
  <1>5. CASE rw.state = "SUCCESS"
    <2>1. local.control = "in archive recovery"
      BY <1>5 DEF RwInv, RwRewound
    <2>2. RW!CheckTimelineAndLsn(rw) = {rw} /\ RW!Task(rw) = "none"
      BY <1>5 DEF RW!CheckTimelineAndLsn, RW!Task, RW!NeededAndPossible
    <2>3. rw' = [rw EXCEPT !.recovering = TRUE, !.task = "start"] /\ local' = [local EXCEPT !.conf = conf]
      BY <1>5, <2>1, <2>2 DEF RW!Recover
    <2> HIDE DEF conf
    <2>4. /\ rw' \in RwStates /\ rw'.state = rw.state /\ rw'.source = rw.source /\ rw'.task = "start" /\ rw'.recovering
          /\ local' \in RwLocals /\ local'.wal = local.wal /\ local'.control = local.control /\ local'.proc = local.proc
      BY <1>1, <1>2, <2>3 DEF RwStates, RwLocals
    <2>5. RwTypeOK'
      BY <1>1, <2>4 DEF RwTypeOK
    <2>6. RwPublished' /\ RwAsked'
      BY <1>1, <2>4 DEF RwInv, RwPublished, RwAsked
    <2>7. RwRewound'
      BY <1>1, <2>1, <2>4 DEF RwInv, RwRewound
    <2>8. QED BY <2>5, <2>6, <2>7 DEF RwInv
  <1>6. QED BY <1>3, <1>4, <1>5

(* A cycle with PostgreSQL up begins by forgetting the success.             *)
LEMMA RwFollow ==
  ASSUME RwInv, RW!Follow
  PROVE  RwInv'
  <1>1. /\ RwTypeOK /\ local \in RwLocals /\ rw \in RwStates /\ rw.task = "none" /\ local.proc = "up"
        /\ leader' = leader /\ leader.name \in Nat /\ RW!Timeline(local.wal) \in Nat
    BY RwFacts DEF RwInv, RwTypeOK, RW!Follow
  <1>2. RwIdle(RW!Recovered)
    <2>1. rw.state = "SUCCESS" => rw.recovering
      BY <1>1 DEF RwInv, RwRewound
    <2>2. QED BY <1>1, <2>1 DEF RW!Recovered, RwIdle, RwStates
  <1>3. PICK r \in RW!CheckTimelineAndLsn(RW!Recovered) :
          IF RW!Task(r) # "none" THEN rw' = RW!Run(r, RW!Task(r)) /\ UNCHANGED local
          ELSE IF local.conf # leader.name
          THEN rw' = RW!TriggerCheckDivergedLsn(r) /\ local' = [local EXCEPT !.conf = leader.name]
          ELSE /\ IF RW!Behind
                  THEN \E q \in RW!CheckTimelineAndLsn(RW!TriggerCheckDivergedLsn(r)) : rw' = RW!Run(q, RW!Task(q))
                  ELSE rw' = r
               /\ local' = [local EXCEPT !.timeline = RW!Timeline(local.wal)]
    BY DEF RW!Follow
  <1>4. RwIdle(r)
    BY <1>1, <1>2, <1>3, RwCycle
  <1>5. local' \in RwLocals
    <2>1. \/ local' = local \/ local' = [local EXCEPT !.conf = leader.name]
          \/ local' = [local EXCEPT !.timeline = RW!Timeline(local.wal)]
      BY <1>3
    <2>2. QED BY <1>1, <2>1 DEF RwLocals
  <1>6. CASE rw' = RW!Run(r, RW!Task(r))
    BY <1>1, <1>4, <1>5, <1>6, RwCycle, RwOnward DEF RwIdle
  <1>7. CASE rw' = RW!TriggerCheckDivergedLsn(r) \/ rw' = r
    <2>1. RwIdle(RW!TriggerCheckDivergedLsn(r))
      BY <1>1, <1>4, RwCycle
    <2>2. QED BY <1>1, <1>4, <1>5, <1>7, <2>1, RwOnward DEF RwIdle
  <1>8. ASSUME NEW q \in RW!CheckTimelineAndLsn(RW!TriggerCheckDivergedLsn(r)), rw' = RW!Run(q, RW!Task(q))
        PROVE  RwInv'
    <2>1. RwIdle(RW!TriggerCheckDivergedLsn(r))
      BY <1>1, <1>4, RwCycle
    <2>2. RwIdle(q)
      BY <1>1, <1>8, <2>1, RwCycle
    <2>3. QED BY <1>1, <1>5, <1>8, <2>2, RwCycle, RwOnward DEF RwIdle
  <1>9. QED BY <1>3, <1>6, <1>7, <1>8


(* The tasks before pg_rewind.  Execute looks at what the leader shows.     *)
LEMMA RwTasks ==
  ASSUME RwInv, RW!EnsureCleanShutdown \/ RW!Execute \/ RW!PgRewindFails \/ RW!Clone \/ RW!CloneFails
  PROVE  RwInv'
  <1>0. leader' = leader
    BY DEF RW!EnsureCleanShutdown, RW!Execute, RW!PgRewindFails, RW!Clone, RW!CloneFails
  <1>a. /\ RwTypeOK /\ local \in RwLocals /\ rw \in RwStates /\ leader.wal \in RwWals
        /\ local.wal \in RwWals /\ leader.name \in Nat /\ local.faults \in Nat
        /\ RW!Timeline(local.wal) \in Nat /\ RW!Timeline(leader.wal) \in Nat
    BY RwFacts DEF RwInv, RwTypeOK
  <1>1. /\ RwTypeOK /\ local \in RwLocals /\ rw \in RwStates /\ leader' = leader /\ leader.wal \in RwWals
        /\ local.wal \in RwWals /\ leader.name \in Nat /\ local.faults + 1 \in Nat
        /\ RW!Timeline(local.wal) \in Nat /\ RW!Timeline(leader.wal) \in Nat
    <2>1. local.faults + 1 \in Nat
      BY <1>a
    <2>2. QED BY <1>0, <1>a, <2>1
  <1>2. CASE RW!EnsureCleanShutdown
    <2> DEFINE w == Append(local.wal, RW!Timeline(local.wal))
    <2>1. w \in RwWals /\ rw.state # "SUCCESS"
      BY <1>1, <1>2, RwTimeline DEF RW!EnsureCleanShutdown, RwInv, RwRewound
    <2>2. local' = [local EXCEPT !.control = "shut down", !.wal = w] /\ rw' = [rw EXCEPT !.task = "none"]
      BY <1>2 DEF RW!EnsureCleanShutdown
    <2> HIDE DEF w
    <2>3. local' \in RwLocals
      BY <1>1, <2>1, <2>2 DEF RwLocals
    <2>4. rw' \in RwStates /\ rw'.state = rw.state /\ rw'.source = rw.source /\ rw'.task = "none"
      BY <1>1, <2>2 DEF RwStates
    <2>5. QED BY <1>1, <2>1, <2>3, <2>4, RwOnward
  <1>3. CASE RW!Execute
    <2> DEFINE c == IF local.proc = "up" THEN "shut down in recovery" ELSE local.control
               t == IF leader.up /\ leader.shows = "ready" /\ leader.promoted THEN "pg_rewind" ELSE "none"
    <2>1. /\ local' = [local EXCEPT !.proc = "down", !.control = c]
          /\ rw' = [rw EXCEPT !.task = t, !.source = RW!Timeline(leader.wal)]
      BY <1>3 DEF RW!Execute
    <2>t. /\ c \in {local.control, "shut down in recovery"} /\ t \in {"pg_rewind", "none"}
          /\ t = "pg_rewind" => leader.promoted /\ leader.shows = "ready"
      OBVIOUS
    <2> HIDE DEF c, t
    <2>2. local' \in RwLocals /\ local'.proc = "down"
      BY <1>1, <2>1, <2>t DEF RwLocals
    <2>3. rw' \in RwStates /\ rw'.state = rw.state /\ rw'.task = t /\ rw'.source = RW!Timeline(leader.wal)
      BY <1>1, <2>1, <2>t DEF RwStates
    <2>4. rw.state # "SUCCESS"
      BY <1>3 DEF RW!Execute, RwInv, RwRewound
    <2>5. RwTypeOK'
      BY <1>1, <2>2, <2>3 DEF RwTypeOK
    <2>6. RwAsked'
      <3> DEFINE tl == RW!Timeline(leader.wal)
      <3>1. tl <= tl /\ tl = RW!Timeline(leader.wal)
        BY <1>1
      <3>2. t = "pg_rewind" => leader.control = tl
        BY <2>t DEF RwInv, RwPublished
      <3> HIDE DEF tl
      <3>3. tl = RW!Timeline(leader.wal)'
        BY <1>1, <3>1
      <3>4. QED BY <1>1, <2>2, <2>3, <3>1, <3>2, <3>3 DEF RwAsked
    <2>7. RwRewound' /\ RwPublished'
      BY <1>1, <2>3, <2>4 DEF RwInv, RwRewound, RwPublished
    <2>8. QED BY <2>5, <2>6, <2>7 DEF RwInv
  <1>4. CASE RW!PgRewindFails
    <2>1. PICK s, d, f : /\ rw' = [rw EXCEPT !.task = "none", !.state = s]
                         /\ local' = [local EXCEPT !.data = d, !.faults = f]
                         /\ s \in {"INITIAL", "FAILED", rw.state} /\ d \in {"empty", "damaged", local.data}
                         /\ f \in {local.faults, local.faults + 1}
      <3>1. PICK damaged \in BOOLEAN :
              LET failed == damaged \/ (leader.up /\ leader.promoted)
                  removed == failed /\ "remove" \in local.allowed IN
              /\ rw' = [rw EXCEPT !.task = "none", !.state = IF removed THEN "INITIAL" ELSE IF failed THEN "FAILED" ELSE rw.state]
              /\ local' = [local EXCEPT !.data = IF removed THEN "empty" ELSE IF failed THEN "damaged" ELSE local.data,
                                        !.faults = IF RW!Connected THEN local.faults + 1 ELSE local.faults]
        BY <1>4 DEF RW!PgRewindFails
      <3>2. QED BY <3>1
    <2>2. rw.state # "SUCCESS"
      BY <1>4 DEF RW!PgRewindFails, RwInv, RwRewound
    <2>3. local' \in RwLocals
      BY <1>1, <2>1 DEF RwLocals
    <2>4. rw' \in RwStates /\ rw'.state = s /\ rw'.source = rw.source /\ rw'.task = "none"
      BY <1>1, <2>1 DEF RwStates
    <2>5. QED BY <1>1, <2>1, <2>2, <2>3, <2>4, RwOnward
  <1>5. CASE RW!Clone
    <2>1. /\ local' = [local EXCEPT !.wal = leader.wal, !.data = "ok", !.control = "in archive recovery",
                                    !.proc = "down", !.conf = leader.name]
          /\ rw' = [rw EXCEPT !.state = "INITIAL", !.task = "start"]
      BY <1>5 DEF RW!Clone
    <2>2. local' \in RwLocals
      BY <1>1, <2>1 DEF RwLocals
    <2>3. rw' \in RwStates /\ rw'.state = "INITIAL" /\ rw'.source = rw.source /\ rw'.task = "start"
      BY <1>1, <2>1 DEF RwStates
    <2>4. QED BY <1>1, <2>2, <2>3, RwOnward
  <1>6. CASE RW!CloneFails
    <2>1. /\ local' = [local EXCEPT !.proc = "down", !.data = "empty"]
          /\ rw' = [rw EXCEPT !.task = "none", !.state = "INITIAL"]
      BY <1>6 DEF RW!CloneFails
    <2>2. local' \in RwLocals
      BY <1>1, <2>1 DEF RwLocals
    <2>3. rw' \in RwStates /\ rw'.state = "INITIAL" /\ rw'.source = rw.source /\ rw'.task = "none"
      BY <1>1, <2>1 DEF RwStates
    <2>4. QED BY <1>1, <2>2, <2>3, RwOnward
  <1>7. QED BY <1>2, <1>3, <1>4, <1>5, <1>6

(* pg_rewind succeeds: pg_control of the leader had its timeline, so the    *)
(* node now has the leader's WAL.                                           *)
LEMMA RwSucceeds ==
  ASSUME RwInv, RW!PgRewind
  PROVE  RwInv'
  <1>1. /\ RwTypeOK /\ local \in RwLocals /\ rw \in RwStates /\ leader' = leader /\ leader.wal \in RwWals
        /\ leader.control = RW!Timeline(leader.wal) /\ local.proc = "down"
    BY RwFacts DEF RwInv, RwTypeOK, RwAsked, RW!PgRewind, RW!Connected
  <1>2. /\ rw' = [rw EXCEPT !.task = "none", !.state = "SUCCESS"]
        /\ local' = [local EXCEPT !.data = "ok", !.wal = leader.wal, !.control = "in archive recovery"]
    BY <1>1 DEF RW!PgRewind
  <1>3. /\ local' \in RwLocals /\ local'.wal = leader.wal /\ local'.control = "in archive recovery"
        /\ local'.proc = "down"
    BY <1>1, <1>2 DEF RwLocals
  <1>4. rw' \in RwStates /\ rw'.task = "none" /\ rw'.source = rw.source
    BY <1>1, <1>2 DEF RwStates
  <1>5. RwTypeOK' /\ RwAsked' /\ RwPublished'
    BY <1>1, <1>3, <1>4 DEF RwInv, RwTypeOK, RwAsked, RwPublished
  <1>6. RW!IsPrefix(leader.wal, leader.wal)
    BY <1>1, RwPrefix
  <1>7. RwRewound'
    BY <1>1, <1>3, <1>4, <1>6 DEF RwRewound
  <1>8. QED BY <1>5, <1>7 DEF RwInv

(* The node is started, streams and dies.                                   *)
LEMMA RwRuns ==
  ASSUME RwInv, RW!Start \/ RW!Stream \/ RW!Dies
  PROVE  RwInv'
  <1>1. /\ RwTypeOK /\ local \in RwLocals /\ rw \in RwStates /\ leader' = leader /\ leader.wal \in RwWals
        /\ local.wal \in RwWals /\ local.faults + 1 \in Nat
    BY RwFacts DEF RwInv, RwTypeOK, RW!Start, RW!Stream, RW!Dies
  <1>2. CASE RW!Start
    <2>1. PICK p, c : /\ local' = [local EXCEPT !.proc = p, !.control = c] /\ p \in {"up", "down"}
                      /\ c \in {"in archive recovery", local.control}
      BY <1>2 DEF RW!Start
    <2>2. local' \in RwLocals /\ local'.wal = local.wal /\ local'.control = c
      BY <1>1, <2>1 DEF RwLocals
    <2>3. /\ rw' \in RwStates /\ rw'.state = rw.state /\ rw'.source = rw.source /\ rw'.task = "none"
          /\ rw'.recovering = rw.recovering /\ rw.task = "start"
      BY <1>1, <1>2 DEF RW!Start, RwStates
    <2>4. RwTypeOK' /\ RwAsked' /\ RwPublished'
      BY <1>1, <2>2, <2>3 DEF RwInv, RwTypeOK, RwAsked, RwPublished
    <2>5. RwRewound'
      BY <1>1, <2>1, <2>2, <2>3 DEF RwInv, RwRewound
    <2>6. QED BY <2>4, <2>5 DEF RwInv
  <1>3. CASE RW!Stream
    <2> DEFINE w == SubSeq(leader.wal, 1, Len(local.wal) + 1)
    <2>1. w \in RwWals /\ RW!IsPrefix(w, leader.wal)
      <3>1. Len(local.wal) <= Len(leader.wal) /\ SubSeq(local.wal, 1, Len(local.wal)) = SubSeq(leader.wal, 1, Len(local.wal))
            /\ local.wal # leader.wal
        BY <1>3 DEF RW!Stream, RW!IsPrefix
      <3>2. local.wal \in Seq(Nat) /\ leader.wal \in Seq(Nat)
        BY <1>1 DEF RwWals
      <3>3. Len(local.wal) # Len(leader.wal)
        <4>1. ASSUME Len(local.wal) = Len(leader.wal) PROVE FALSE
          <5>1. SubSeq(local.wal, 1, Len(local.wal)) = local.wal /\ SubSeq(leader.wal, 1, Len(leader.wal)) = leader.wal
            BY <3>2
          <5>2. QED BY <3>1, <4>1, <5>1
        <4>2. QED BY <4>1
      <3>4. Len(local.wal) + 1 \in 1..Len(leader.wal)
        BY <3>1, <3>2, <3>3
      <3>5. QED BY <1>1, <3>4, RwTimeline, RwPrefix
    <2>2. local' = [local EXCEPT !.wal = w] /\ rw' = rw
      BY <1>3 DEF RW!Stream
    <2> HIDE DEF w
    <2>3. local' \in RwLocals /\ local'.wal = w /\ local'.control = local.control /\ local'.proc = local.proc
      BY <1>1, <2>1, <2>2 DEF RwLocals
    <2>4. RwTypeOK' /\ RwAsked' /\ RwPublished'
      BY <1>1, <2>2, <2>3 DEF RwInv, RwTypeOK, RwAsked, RwPublished
    <2>5. RwRewound'
      BY <1>1, <2>1, <2>2, <2>3 DEF RwInv, RwRewound
    <2>6. QED BY <2>4, <2>5 DEF RwInv
  <1>4. CASE RW!Dies
    <2>1. local' = [local EXCEPT !.proc = "down", !.faults = local.faults + 1] /\ rw' = rw
      BY <1>4 DEF RW!Dies
    <2>2. /\ local' \in RwLocals /\ local'.wal = local.wal /\ local'.control = local.control /\ local'.proc = "down"
      BY <1>1, <2>1 DEF RwLocals
    <2>3. RwTypeOK' /\ RwAsked' /\ RwPublished'
      BY <1>1, <2>1, <2>2 DEF RwInv, RwTypeOK, RwAsked, RwPublished
    <2>4. RwRewound'
      BY <1>1, <2>1, <2>2 DEF RwInv, RwRewound
    <2>5. QED BY <2>3, <2>4 DEF RwInv
  <1>5. QED BY <1>2, <1>3, <1>4


(* The WALs of the first states.                                            *)
LEMMA RwShort ==
  /\ <<1>> \in RwWals /\ <<1, 1>> \in RwWals
  /\ \A s \in 1..2 : [i \in 1..s |-> 1] \in RwWals
  <1>1. ASSUME NEW s \in 1..2 PROVE [i \in 1..s |-> 1] \in RwWals
    <2> DEFINE w == [i \in 1..s |-> 1]
    <2>1. w \in [1..s -> Nat] /\ s \in Nat
      OBVIOUS
    <2>2. w \in Seq(Nat)
      BY <2>1, SMT
    <2>3. Len(w) = s
      BY <2>1, SMT
    <2> HIDE DEF w
    <2>4. w # <<>>
      BY <2>2, <2>3
    <2>5. w \in RwWals
      BY <2>2, <2>4 DEF RwWals
    <2>6. QED BY <2>5 DEF w
  <1>2. [i \in 1..1 |-> 1] = <<1>>
    OBVIOUS
  <1>3. [i \in 1..2 |-> 1] = <<1, 1>>
    OBVIOUS
  <1>4. QED BY <1>1, <1>2, <1>3

LEMMA RwStart ==
  ASSUME RW!RwInit
  PROVE  RwInv
  <1>0. \A n \in Nat : 0 <= n
    OBVIOUS
  <1>1. PICK wal \in {<<1>>, <<1, 1>>}, s \in 1..2, a \in RW!Allowed,
             c \in {"production", "shut down", "shut down in recovery", "in archive recovery"} :
          /\ local = [wal |-> wal, proc |-> "down", control |-> c, data |-> "ok", conf |-> 0,
                      allowed |-> a, timeline |-> 0, faults |-> 0]
          /\ leader = RW!NewLeader_([i \in 1..s |-> 1], 1, FALSE)
    BY DEF RW!RwInit
  <1> DEFINE w == [i \in 1..s |-> 1]
  <1>2. w \in RwWals /\ wal \in RwWals
    BY <1>1, RwShort
  <1>3. RW!Timeline(w) \in Nat
    BY <1>2, RwTimeline
  <1>4. leader = RW!NewLeader_(w, 1, FALSE)
    BY <1>1
  <1> HIDE DEF w
  <1>5. leader \in RwLeaders /\ ~leader.promoted /\ leader.shows = "replica" /\ leader.wal = w
    BY <1>2, <1>3, <1>4 DEF RW!NewLeader_, RwLeaders
  <1>6. local \in RwLocals
    BY <1>1, <1>2 DEF RwLocals
  <1>7. rw = [state |-> "INITIAL", crash |-> FALSE, recovering |-> FALSE, task |-> "none", source |-> 0]
    BY DEF RW!RwInit
  <1>8. RwTypeOK
    BY <1>5, <1>6, <1>7 DEF RwTypeOK, RwStates
  <1>9. rw.source = 0 /\ rw.task = "none" /\ rw.state = "INITIAL"
    BY <1>7
  <1>10. rw.source <= RW!Timeline(leader.wal)
    <2>1. RW!Timeline(leader.wal) \in Nat
      BY <1>3, <1>5
    <2>2. 0 <= RW!Timeline(leader.wal)
      BY <1>0, <2>1, Zenon
    <2>3. QED BY <1>9, <2>2, Zenon
  <1>11. QED BY <1>5, <1>8, <1>9, <1>10 DEF RwInv, RwPublished, RwAsked, RwRewound

LEMMA RwStep ==
  ASSUME RwInv, [RW!RwNext]_(RW!rwVars)
  PROVE  RwInv'
  <1>1. CASE RW!RwNext
    BY <1>1, RwLeaderStep, RwElected, RwRecover, RwFollow, RwTasks, RwSucceeds, RwRuns
    DEF RW!RwNext, RW!RwLeader, RW!RwNode
  <1>2. CASE UNCHANGED RW!rwVars
    <2>1. local' = local /\ leader' = leader /\ rw' = rw
      BY <1>2 DEF RW!rwVars
    <2>2. QED BY <2>1 DEF RwInv, RwTypeOK, RwPublished, RwAsked, RwRewound
  <1>3. QED BY <1>1, <1>2

(* A node on which pg_rewind has succeeded has nothing that the leader it   *)
(* was rewound to has not: pg_rewind never runs against a leader whose      *)
(* pg_control still has the old timeline, and nothing is written before     *)
(* the node is started; whatever leaders come and go, over any number of    *)
(* promotions, records and failures.                                        *)
THEOREM RewindFollows == Spec => []RewoundFollows
  <1> DEFINE Here == part = "rewind"
  <1>1. Init /\ Here => RwInv
    BY RwStart DEF Init
  <1>2. Here /\ [Next]_vars => Here' /\ [RW!RwNext]_(RW!rwVars)
    BY DEF Next, vars, rwVars, RW!rwVars
  <1>3. ~Here /\ [Next]_vars => ~Here'
    BY DEF Next, vars
  <1>4. RwInv /\ [RW!RwNext]_(RW!rwVars) => RwInv'
    BY RwStep
  <1>5. (Here => RwInv) => RewoundFollows
    BY DEF RewoundFollows, RW!RewoundFollows, RwInv, RwRewound
  <1> HIDE DEF Here
  <1>6. QED BY <1>1, <1>2, <1>3, <1>4, <1>5, PTL DEF Spec

=============================================================================
