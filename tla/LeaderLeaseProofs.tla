--------------------------- MODULE LeaderLeaseProofs ---------------------------
(***************************************************************************)
(* LeaderLease for any set of nodes and any timing that SafeTiming allows: *)
(* PostgreSQL accepts commits only on the node that holds the leader key.  *)
(*                                                                         *)
(* The invariant of interest is not inductive: a step that promotes relies *)
(* on what an earlier step of the loop established.  IInv adds where each  *)
(* loop stands after it has written the key (WriterOwns), that it does not *)
(* enforce anything while a task runs (NotBusy), and that the device of a  *)
(* process that feeds it has time left (ArmedTicks).  The last two do not  *)
(* depend on the timing and are proved first.                              *)
(***************************************************************************)
EXTENDS LeaderLease, TLAPS

-----------------------------------------------------------------------------
(* Type correctness *)

(* The state of Ha.__init__() with no key and no device has the types. *)
LEMMA TypeInit == Init => TypeOK
  BY LeaseAssumption DEF Init, TypeOK, Steps, Postgres

(* Every action keeps the types: no watchdog is set to more than its        *)
(* timeout, and no key lives longer than ttl.                               *)
LEMMA TypeStep == TypeOK /\ [Next]_vars => TypeOK'
  <1> SUFFICES ASSUME TypeOK, [Next]_vars PROVE TypeOK'
    OBVIOUS
  <1> USE LeaseAssumption DEF TypeOK, Steps, Postgres
  <1>1. ASSUME NEW n \in Nodes, Loop(n) \/ Task(n) \/ Crash(n) \/ Start(n) \/ Shutdown(n)
        PROVE  TypeOK'
    <2>1. CASE LoadCluster(n)
      BY <2>1 DEF LoadCluster
    <2>2. CASE LoadClusterFails(n)
      BY <2>2 DEF LoadClusterFails, HandleDcsError, DemoteIfPrimary, Demote, Goto,
          Accepts
    <2>3. CASE UpdateLock(n)
      BY <2>3 DEF UpdateLock, Renewable, WriteKey, Goto
    <2>4. CASE UpdateLockError(n)
      BY <2>4 DEF UpdateLockError, Renewable, MaybeWriteKey, WriteKey,
          HandleDcsError, DemoteIfPrimary, Demote, Goto, Accepts
    <2>5. CASE Keepalive(n)
      BY <2>5 DEF Keepalive, Ping, Goto
    <2>6. CASE Switchover(n)
      BY <2>6 DEF Switchover, Ping, Goto
    <2>7. CASE LostLock(n)
      BY <2>7 DEF LostLock, DemoteIfPrimary, Demote, Goto, Accepts
    <2>8. CASE AcquireLock(n)
      BY <2>8 DEF AcquireLock, WriteKey, Goto
    <2>9. CASE AcquireLockError(n)
      BY <2>9 DEF AcquireLockError, MaybeWriteKey, WriteKey, HandleDcsError,
          DemoteIfPrimary, Demote, Goto, Accepts
    <2>10. CASE Follow(n)
      BY <2>10 DEF Follow, DemoteIfPrimary, Demote, Goto, Accepts
    <2>11. CASE LongAction(n)
      BY <2>11 DEF LongAction, Demote, Goto
    <2>12. CASE Activate(n)
      BY <2>12 DEF Activate
    <2>13. CASE ActivateFails(n)
      BY <2>13 DEF ActivateFails, Demote, DeleteKey, Goto
    <2>14. CASE SchedulePromote(n)
      BY <2>14 DEF SchedulePromote, Guarded, Goto
    <2>15. CASE ReleaseAfterFailure(n)
      BY <2>15 DEF ReleaseAfterFailure, DeleteKey, Goto
    <2>16. CASE EnforceDone(n)
      BY <2>16 DEF EnforceDone, Goto
    <2>17. CASE EnforceError(n)
      BY <2>17 DEF EnforceError, HandleDcsError, DemoteIfPrimary, Demote, Goto,
          Accepts
    <2>18. CASE PrePromote(n)
      BY <2>18 DEF PrePromote
    <2>19. CASE Promote(n)
      BY <2>19 DEF Promote
    <2>20. CASE Stopped(n)
      BY <2>20 DEF Stopped
    <2>21. CASE Release(n)
      BY <2>21 DEF Release, DeleteKey, Goto
    <2>22. CASE Crash(n)
      BY <2>22 DEF Crash, Goto
    <2>23. CASE Start(n)
      BY <2>23 DEF Start, Goto
    <2>24. CASE Shutdown(n)
      BY <2>24 DEF Shutdown, Demote, Goto
    <2>25. QED
      BY <1>1, <2>1, <2>2, <2>3, <2>4, <2>5, <2>6, <2>7, <2>8, <2>9, <2>10, <2>11,
          <2>12, <2>13, <2>14, <2>15, <2>16, <2>17, <2>18, <2>19, <2>20, <2>21, <2>22,
          <2>23, <2>24 DEF Loop, Task
  <1>2. CASE Tick
    <2>1. left' \in 0..TTL /\ owner' \in Nodes \cup {None}
      BY <1>2 DEF Tick
    <2>2. dog' \in [Nodes -> 0..Timeout]
      BY <1>2 DEF Tick
    <2>3. /\ pc' \in [Nodes -> Steps] /\ view' \in [Nodes -> Nodes \cup {None}]
          /\ pg' \in [Nodes -> Postgres]
          /\ how' \in [Nodes -> {"nolock", "release", "graceful"}]
          /\ armed' \in [Nodes -> BOOLEAN]
      BY <1>2 DEF Tick
    <2>4. QED BY <2>1, <2>2, <2>3
  <1>3. CASE UNCHANGED vars
    BY <1>3 DEF vars
  <1>4. QED
    BY <1>1, <1>2, <1>3 DEF Next

(* The types of the variables, for every set of nodes and every timing. *)
THEOREM TypeCorrect == Spec => []TypeOK
  BY TypeInit, TypeStep, PTL DEF Spec

-----------------------------------------------------------------------------
(* The two parts of the invariant that hold whatever the timing *)

(* While the loop is past update_lock() in a cycle that found the executor  *)
(* free, and in enforce_primary_role(), no task starts.                     *)
LEMMA NotBusyStep == TypeOK /\ NotBusy /\ [Next]_vars => NotBusy'
  <1> SUFFICES ASSUME TypeOK, NotBusy, [Next]_vars PROVE NotBusy'
    OBVIOUS
  <1> USE DEF TypeOK, NotBusy, Busy
  <1>1. ASSUME NEW n \in Nodes, Loop(n) \/ Task(n) \/ Crash(n) \/ Start(n) \/ Shutdown(n)
        PROVE  NotBusy'
    <2>1. CASE LoadCluster(n)
      BY <2>1 DEF LoadCluster
    <2>2. CASE LoadClusterFails(n)
      BY <2>2 DEF LoadClusterFails, HandleDcsError, DemoteIfPrimary, Demote, Goto,
          Accepts
    <2>3. CASE UpdateLock(n)
      BY <2>3 DEF UpdateLock, Renewable, WriteKey, Goto
    <2>4. CASE UpdateLockError(n)
      BY <2>4 DEF UpdateLockError, Renewable, MaybeWriteKey, WriteKey,
          HandleDcsError, DemoteIfPrimary, Demote, Goto, Accepts
    <2>5. CASE Keepalive(n)
      BY <2>5 DEF Keepalive, Ping, Goto
    <2>6. CASE Switchover(n)
      BY <2>6 DEF Switchover, Ping, Goto
    <2>7. CASE LostLock(n)
      BY <2>7 DEF LostLock, DemoteIfPrimary, Demote, Goto, Accepts
    <2>8. CASE AcquireLock(n)
      BY <2>8 DEF AcquireLock, WriteKey, Goto
    <2>9. CASE AcquireLockError(n)
      BY <2>9 DEF AcquireLockError, MaybeWriteKey, WriteKey, HandleDcsError,
          DemoteIfPrimary, Demote, Goto, Accepts
    <2>10. CASE Follow(n)
      BY <2>10 DEF Follow, DemoteIfPrimary, Demote, Goto, Accepts
    <2>11. CASE LongAction(n)
      BY <2>11 DEF LongAction, Demote, Goto
    <2>12. CASE Activate(n)
      BY <2>12 DEF Activate
    <2>13. CASE ActivateFails(n)
      BY <2>13 DEF ActivateFails, Demote, DeleteKey, Goto
    <2>14. CASE SchedulePromote(n)
      BY <2>14 DEF SchedulePromote, Guarded, Goto
    <2>15. CASE ReleaseAfterFailure(n)
      BY <2>15 DEF ReleaseAfterFailure, DeleteKey, Goto
    <2>16. CASE EnforceDone(n)
      BY <2>16 DEF EnforceDone, Goto
    <2>17. CASE EnforceError(n)
      BY <2>17 DEF EnforceError, HandleDcsError, DemoteIfPrimary, Demote, Goto,
          Accepts
    <2>18. CASE PrePromote(n)
      BY <2>18 DEF PrePromote
    <2>19. CASE Promote(n)
      BY <2>19 DEF Promote
    <2>20. CASE Stopped(n)
      BY <2>20 DEF Stopped
    <2>21. CASE Release(n)
      BY <2>21 DEF Release, DeleteKey, Goto
    <2>22. CASE Crash(n)
      BY <2>22 DEF Crash, Goto
    <2>23. CASE Start(n)
      BY <2>23 DEF Start, Goto
    <2>24. CASE Shutdown(n)
      BY <2>24 DEF Shutdown, Demote, Goto
    <2>25. QED
      BY <1>1, <2>1, <2>2, <2>3, <2>4, <2>5, <2>6, <2>7, <2>8, <2>9, <2>10, <2>11,
          <2>12, <2>13, <2>14, <2>15, <2>16, <2>17, <2>18, <2>19, <2>20, <2>21, <2>22,
          <2>23, <2>24 DEF Loop, Task
  <1>2. CASE Tick
    BY <1>2 DEF Tick
  <1>3. CASE UNCHANGED vars
    BY <1>3 DEF vars
  <1>4. QED
    BY <1>1, <1>2, <1>3 DEF Next

(* The watchdog of a live process that opened it is running: only the       *)
(* reset, the crash and disable() end it, and they end is_running too.      *)
LEMMA ArmedTicksStep == TypeOK /\ ArmedTicks /\ [Next]_vars => ArmedTicks'
  <1> SUFFICES ASSUME TypeOK, ArmedTicks, [Next]_vars PROVE ArmedTicks'
    OBVIOUS
  <1> USE LeaseAssumption DEF TypeOK, ArmedTicks
  <1>1. ASSUME NEW n \in Nodes, Loop(n) \/ Task(n) \/ Crash(n) \/ Start(n) \/ Shutdown(n)
        PROVE  ArmedTicks'
    <2>1. CASE LoadCluster(n)
      BY <2>1 DEF LoadCluster
    <2>2. CASE LoadClusterFails(n)
      BY <2>2 DEF LoadClusterFails, HandleDcsError, DemoteIfPrimary, Demote, Goto,
          Accepts
    <2>3. CASE UpdateLock(n)
      BY <2>3 DEF UpdateLock, Renewable, WriteKey, Goto
    <2>4. CASE UpdateLockError(n)
      BY <2>4 DEF UpdateLockError, Renewable, MaybeWriteKey, WriteKey,
          HandleDcsError, DemoteIfPrimary, Demote, Goto, Accepts
    <2>5. CASE Keepalive(n)
      BY <2>5 DEF Keepalive, Ping, Goto
    <2>6. CASE Switchover(n)
      BY <2>6 DEF Switchover, Ping, Goto
    <2>7. CASE LostLock(n)
      BY <2>7 DEF LostLock, DemoteIfPrimary, Demote, Goto, Accepts
    <2>8. CASE AcquireLock(n)
      BY <2>8 DEF AcquireLock, WriteKey, Goto
    <2>9. CASE AcquireLockError(n)
      BY <2>9 DEF AcquireLockError, MaybeWriteKey, WriteKey, HandleDcsError,
          DemoteIfPrimary, Demote, Goto, Accepts
    <2>10. CASE Follow(n)
      BY <2>10 DEF Follow, DemoteIfPrimary, Demote, Goto, Accepts
    <2>11. CASE LongAction(n)
      BY <2>11 DEF LongAction, Demote, Goto
    <2>12. CASE Activate(n)
      BY <2>12 DEF Activate
    <2>13. CASE ActivateFails(n)
      BY <2>13 DEF ActivateFails, Demote, DeleteKey, Goto
    <2>14. CASE SchedulePromote(n)
      BY <2>14 DEF SchedulePromote, Guarded, Goto
    <2>15. CASE ReleaseAfterFailure(n)
      BY <2>15 DEF ReleaseAfterFailure, DeleteKey, Goto
    <2>16. CASE EnforceDone(n)
      BY <2>16 DEF EnforceDone, Goto
    <2>17. CASE EnforceError(n)
      BY <2>17 DEF EnforceError, HandleDcsError, DemoteIfPrimary, Demote, Goto,
          Accepts
    <2>18. CASE PrePromote(n)
      BY <2>18 DEF PrePromote
    <2>19. CASE Promote(n)
      BY <2>19 DEF Promote
    <2>20. CASE Stopped(n)
      BY <2>20 DEF Stopped
    <2>21. CASE Release(n)
      BY <2>21 DEF Release, DeleteKey, Goto
    <2>22. CASE Crash(n)
      BY <2>22 DEF Crash, Goto
    <2>23. CASE Start(n)
      BY <2>23 DEF Start, Goto
    <2>24. CASE Shutdown(n)
      BY <2>24 DEF Shutdown, Demote, Goto
    <2>25. QED
      BY <1>1, <2>1, <2>2, <2>3, <2>4, <2>5, <2>6, <2>7, <2>8, <2>9, <2>10, <2>11,
          <2>12, <2>13, <2>14, <2>15, <2>16, <2>17, <2>18, <2>19, <2>20, <2>21, <2>22,
          <2>23, <2>24 DEF Loop, Task
  <1>2. CASE Tick
    BY <1>2 DEF Tick, Fires
  <1>3. CASE UNCHANGED vars
    BY <1>3 DEF vars
  <1>4. QED
    BY <1>1, <1>2, <1>3 DEF Next

-----------------------------------------------------------------------------
(* The key and the watchdog *)

(* At the start no node is about to promote and no loop has written a key. *)
LEMMA InvInit == Init => IInv
  <1> SUFFICES ASSUME Init PROVE KeyOutlivesWatchdog /\ WriterOwns /\ NotBusy /\ ArmedTicks
    BY TypeInit DEF IInv
  <1> QED
    BY DEF Init, KeyOutlivesWatchdog, AtRisk, WriterOwns, AwaitsActivation, AwaitsKeepalive,
           NotBusy, Busy, ArmedTicks

(* When a keepalive is sent, the key still lives for a whole timeout of the *)
(* device: this is the one place where the timing decides.                  *)
LEMMA KeepaliveInTime ==
  ASSUME SafeTiming, IInv, NEW n \in Nodes, AwaitsKeepalive(n)
  PROVE  owner = n /\ Timeout <= left
  BY LeaseAssumption DEF SafeTiming, IInv, TypeOK, WriterOwns, AwaitsKeepalive, ArmedTicks

(* The same for the activation of a watchdog that was not running. *)
LEMMA ActivationInTime ==
  ASSUME SafeTiming, IInv, NEW n \in Nodes, AwaitsActivation(n)
  PROVE  owner = n /\ Timeout <= left
  BY LeaseAssumption DEF SafeTiming, IInv, TypeOK, WriterOwns, AwaitsActivation

(* One step of any node or of time keeps the key alive longer than the      *)
(* watchdog of its holder.                                                  *)
LEMMA InvStep == ASSUME SafeTiming PROVE IInv /\ [Next]_vars => IInv'
  <1> SUFFICES ASSUME IInv, [Next]_vars PROVE KeyOutlivesWatchdog' /\ WriterOwns'
    BY TypeStep, NotBusyStep, ArmedTicksStep DEF IInv
  <1> USE LeaseAssumption DEF IInv, TypeOK
  <1>1. ASSUME NEW n \in Nodes, Loop(n) \/ Task(n) \/ Crash(n) \/ Start(n) \/ Shutdown(n)
        PROVE  KeyOutlivesWatchdog' /\ WriterOwns'
    <2>1. CASE LoadCluster(n)
      <3>1. KeyOutlivesWatchdog'
        BY <2>1 DEF LoadCluster, KeyOutlivesWatchdog, AtRisk
      <3>2. WriterOwns'
        BY <2>1 DEF LoadCluster, WriterOwns, AwaitsActivation, AwaitsKeepalive
      <3>3. QED BY <3>1, <3>2
    <2>2. CASE LoadClusterFails(n)
      <3>1. KeyOutlivesWatchdog'
        BY <2>2 DEF LoadClusterFails, HandleDcsError, DemoteIfPrimary, Demote,
            Goto, Accepts, KeyOutlivesWatchdog, AtRisk
      <3>2. WriterOwns'
        BY <2>2 DEF LoadClusterFails, HandleDcsError, DemoteIfPrimary, Demote,
            Goto, Accepts, WriterOwns, AwaitsActivation, AwaitsKeepalive
      <3>3. QED BY <3>1, <3>2
    <2>3. CASE UpdateLock(n)
      <3>1. KeyOutlivesWatchdog'
        BY <2>3 DEF UpdateLock, Renewable, WriteKey, Goto, KeyOutlivesWatchdog, AtRisk
      <3>2. WriterOwns'
        BY <2>3 DEF UpdateLock, Renewable, WriteKey, Goto, WriterOwns,
            AwaitsActivation, AwaitsKeepalive
      <3>3. QED BY <3>1, <3>2
    <2>4. CASE UpdateLockError(n)
      <3>1. KeyOutlivesWatchdog'
        BY <2>4 DEF UpdateLockError, Renewable, MaybeWriteKey, WriteKey,
            HandleDcsError, DemoteIfPrimary, Demote, Goto, Accepts,
            KeyOutlivesWatchdog, AtRisk
      <3>2. WriterOwns'
        BY <2>4 DEF UpdateLockError, Renewable, MaybeWriteKey, WriteKey,
            HandleDcsError, DemoteIfPrimary, Demote, Goto, Accepts, WriterOwns,
            AwaitsActivation, AwaitsKeepalive
      <3>3. QED BY <3>1, <3>2
    <2>5. CASE Keepalive(n)
      <3>1. KeyOutlivesWatchdog'
        BY KeepaliveInTime, <2>5 DEF Keepalive, Ping, Goto, KeyOutlivesWatchdog,
            AtRisk, AwaitsKeepalive
      <3>2. WriterOwns'
        BY KeepaliveInTime, <2>5 DEF Keepalive, Ping, Goto, WriterOwns,
            AwaitsActivation, AwaitsKeepalive
      <3>3. QED BY <3>1, <3>2
    <2>6. CASE Switchover(n)
      <3>1. KeyOutlivesWatchdog'
        BY KeepaliveInTime, <2>6 DEF Switchover, Ping, Goto, KeyOutlivesWatchdog,
            AtRisk, AwaitsKeepalive
      <3>2. WriterOwns'
        BY <2>6 DEF Switchover, Ping, Goto, WriterOwns, AwaitsActivation,
            AwaitsKeepalive
      <3>3. QED BY <3>1, <3>2
    <2>7. CASE LostLock(n)
      <3>1. KeyOutlivesWatchdog'
        BY <2>7 DEF LostLock, DemoteIfPrimary, Demote, Goto, Accepts,
            KeyOutlivesWatchdog, AtRisk
      <3>2. WriterOwns'
        BY <2>7 DEF LostLock, DemoteIfPrimary, Demote, Goto, Accepts, WriterOwns,
            AwaitsActivation, AwaitsKeepalive
      <3>3. QED BY <3>1, <3>2
    <2>8. CASE AcquireLock(n)
      <3>1. KeyOutlivesWatchdog'
        BY <2>8 DEF AcquireLock, WriteKey, Goto, KeyOutlivesWatchdog, AtRisk
      <3>2. WriterOwns'
        BY <2>8 DEF AcquireLock, WriteKey, Goto, WriterOwns, AwaitsActivation,
            AwaitsKeepalive
      <3>3. QED BY <3>1, <3>2
    <2>9. CASE AcquireLockError(n)
      <3>1. KeyOutlivesWatchdog'
        BY <2>9 DEF AcquireLockError, MaybeWriteKey, WriteKey, HandleDcsError,
            DemoteIfPrimary, Demote, Goto, Accepts, KeyOutlivesWatchdog, AtRisk
      <3>2. WriterOwns'
        BY <2>9 DEF AcquireLockError, MaybeWriteKey, WriteKey, HandleDcsError,
            DemoteIfPrimary, Demote, Goto, Accepts, WriterOwns, AwaitsActivation,
            AwaitsKeepalive
      <3>3. QED BY <3>1, <3>2
    <2>10. CASE Follow(n)
      <3>1. KeyOutlivesWatchdog'
        BY <2>10 DEF Follow, DemoteIfPrimary, Demote, Goto, Accepts,
            KeyOutlivesWatchdog, AtRisk
      <3>2. WriterOwns'
        BY <2>10 DEF Follow, DemoteIfPrimary, Demote, Goto, Accepts, WriterOwns,
            AwaitsActivation, AwaitsKeepalive
      <3>3. QED BY <3>1, <3>2
    <2>11. CASE LongAction(n)
      <3>1. KeyOutlivesWatchdog'
        BY <2>11 DEF LongAction, Demote, Goto, KeyOutlivesWatchdog, AtRisk
      <3>2. WriterOwns'
        BY <2>11 DEF LongAction, Demote, Goto, WriterOwns, AwaitsActivation,
            AwaitsKeepalive
      <3>3. QED BY <3>1, <3>2
    <2>12. CASE Activate(n)
      <3>1. KeyOutlivesWatchdog'
        BY ActivationInTime, <2>12 DEF Activate, KeyOutlivesWatchdog, AtRisk,
            AwaitsActivation
      <3>2. WriterOwns'
        BY ActivationInTime, <2>12 DEF Activate, WriterOwns, AwaitsActivation,
            AwaitsKeepalive
      <3>3. QED BY <3>1, <3>2
    <2>13. CASE ActivateFails(n)
      <3>1. KeyOutlivesWatchdog'
        BY <2>13 DEF ActivateFails, Demote, DeleteKey, Goto, KeyOutlivesWatchdog,
            AtRisk, NotBusy, Busy
      <3>2. WriterOwns'
        BY <2>13 DEF ActivateFails, Demote, DeleteKey, Goto, WriterOwns,
            AwaitsActivation, AwaitsKeepalive
      <3>3. QED BY <3>1, <3>2
    <2>14. CASE SchedulePromote(n)
      <3>1. KeyOutlivesWatchdog'
        BY <2>14 DEF SchedulePromote, Guarded, Goto, KeyOutlivesWatchdog, AtRisk,
            SafeTiming, WriterOwns, ArmedTicks
      <3>2. WriterOwns'
        BY <2>14 DEF SchedulePromote, Guarded, Goto, WriterOwns, AwaitsActivation,
            AwaitsKeepalive
      <3>3. QED BY <3>1, <3>2
    <2>15. CASE ReleaseAfterFailure(n)
      <3>1. KeyOutlivesWatchdog'
        BY <2>15 DEF ReleaseAfterFailure, DeleteKey, Goto, KeyOutlivesWatchdog, AtRisk
      <3>2. WriterOwns'
        BY <2>15 DEF ReleaseAfterFailure, DeleteKey, Goto, WriterOwns,
            AwaitsActivation, AwaitsKeepalive
      <3>3. QED BY <3>1, <3>2
    <2>16. CASE EnforceDone(n)
      <3>1. KeyOutlivesWatchdog'
        BY <2>16 DEF EnforceDone, Goto, KeyOutlivesWatchdog, AtRisk
      <3>2. WriterOwns'
        BY <2>16 DEF EnforceDone, Goto, WriterOwns, AwaitsActivation, AwaitsKeepalive
      <3>3. QED BY <3>1, <3>2
    <2>17. CASE EnforceError(n)
      <3>1. KeyOutlivesWatchdog'
        BY <2>17 DEF EnforceError, HandleDcsError, DemoteIfPrimary, Demote, Goto,
            Accepts, KeyOutlivesWatchdog, AtRisk
      <3>2. WriterOwns'
        BY <2>17 DEF EnforceError, HandleDcsError, DemoteIfPrimary, Demote, Goto,
            Accepts, WriterOwns, AwaitsActivation, AwaitsKeepalive
      <3>3. QED BY <3>1, <3>2
    <2>18. CASE PrePromote(n)
      <3>1. KeyOutlivesWatchdog'
        BY <2>18 DEF PrePromote, KeyOutlivesWatchdog, AtRisk
      <3>2. WriterOwns'
        BY <2>18 DEF PrePromote, WriterOwns, AwaitsActivation, AwaitsKeepalive
      <3>3. QED BY <3>1, <3>2
    <2>19. CASE Promote(n)
      <3>1. KeyOutlivesWatchdog'
        BY <2>19 DEF Promote, KeyOutlivesWatchdog, AtRisk
      <3>2. WriterOwns'
        BY <2>19 DEF Promote, WriterOwns, AwaitsActivation, AwaitsKeepalive
      <3>3. QED BY <3>1, <3>2
    <2>20. CASE Stopped(n)
      <3>1. KeyOutlivesWatchdog'
        BY <2>20 DEF Stopped, KeyOutlivesWatchdog, AtRisk
      <3>2. WriterOwns'
        BY <2>20 DEF Stopped, WriterOwns, AwaitsActivation, AwaitsKeepalive,
            NotBusy, Busy
      <3>3. QED BY <3>1, <3>2
    <2>21. CASE Release(n)
      <3>1. KeyOutlivesWatchdog'
        BY <2>21 DEF Release, DeleteKey, Goto, KeyOutlivesWatchdog, AtRisk
      <3>2. WriterOwns'
        BY <2>21 DEF Release, DeleteKey, Goto, WriterOwns, AwaitsActivation,
            AwaitsKeepalive
      <3>3. QED BY <3>1, <3>2
    <2>22. CASE Crash(n)
      <3>1. KeyOutlivesWatchdog'
        BY <2>22 DEF Crash, Goto, KeyOutlivesWatchdog, AtRisk
      <3>2. WriterOwns'
        BY <2>22 DEF Crash, Goto, WriterOwns, AwaitsActivation, AwaitsKeepalive
      <3>3. QED BY <3>1, <3>2
    <2>23. CASE Start(n)
      <3>1. KeyOutlivesWatchdog'
        BY <2>23 DEF Start, Goto, KeyOutlivesWatchdog, AtRisk
      <3>2. WriterOwns'
        BY <2>23 DEF Start, Goto, WriterOwns, AwaitsActivation, AwaitsKeepalive
      <3>3. QED BY <3>1, <3>2
    <2>24. CASE Shutdown(n)
      <3>1. KeyOutlivesWatchdog'
        BY <2>24 DEF Shutdown, Demote, Goto, KeyOutlivesWatchdog, AtRisk
      <3>2. WriterOwns'
        BY <2>24 DEF Shutdown, Demote, Goto, WriterOwns, AwaitsActivation,
            AwaitsKeepalive
      <3>3. QED BY <3>1, <3>2
    <2>25. QED
      BY <1>1, <2>1, <2>2, <2>3, <2>4, <2>5, <2>6, <2>7, <2>8, <2>9, <2>10, <2>11,
          <2>12, <2>13, <2>14, <2>15, <2>16, <2>17, <2>18, <2>19, <2>20, <2>21, <2>22,
          <2>23, <2>24 DEF Loop, Task
  <1>2. CASE Tick
    <2>1. KeyOutlivesWatchdog'
      BY <1>2 DEF Tick, Fires, KeyOutlivesWatchdog, AtRisk
    <2>2. WriterOwns'
      BY <1>2 DEF Tick, Fires, Prompt, SafeTiming, WriterOwns, AwaitsActivation,
                  AwaitsKeepalive, ArmedTicks
    <2>3. QED BY <2>1, <2>2
  <1>3. CASE UNCHANGED vars
    BY <1>3 DEF vars, KeyOutlivesWatchdog, AtRisk, WriterOwns, AwaitsActivation,
                AwaitsKeepalive
  <1>4. QED
    BY <1>1, <1>2, <1>3 DEF Next

-----------------------------------------------------------------------------
(* From the decision to promote until PostgreSQL has stopped, the watchdog  *)
(* of the node fires before its leader key expires.                         *)
THEOREM WatchdogCovers == ASSUME SafeTiming PROVE Spec => []IInv
  BY InvInit, InvStep, PTL DEF Spec

(* docs/watchdog.rst: PostgreSQL accepts no commit once the key of its node *)
(* has expired, wherever a process is suspended, within the two delays that *)
(* SafeTiming bounds.                                                       *)
THEOREM Fencing == ASSUME SafeTiming PROVE Spec => []PrimaryHoldsKey
  <1>1. IInv => PrimaryHoldsKey
    BY DEF IInv, KeyOutlivesWatchdog, AtRisk, PrimaryHoldsKey, Accepts
  <1>2. QED
    BY <1>1, WatchdogCovers, PTL

(* Hence no split brain: enforce_primary_role() promotes a node only when   *)
(* every other one has stopped.                                             *)
THEOREM NoSplitBrain == ASSUME SafeTiming PROVE Spec => []OnePrimary
  <1>1. PrimaryHoldsKey => OnePrimary
    BY DEF PrimaryHoldsKey, OnePrimary
  <1>2. QED
    BY <1>1, Fencing, PTL
================================================================================
