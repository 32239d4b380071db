------------------------ MODULE RequestHandlerProofs ------------------------
(***************************************************************************)
(* Proofs about RequestHandler, for every number of threads, sessions,      *)
(* requests and clock ticks; for both modes, but for the section on the     *)
(* single-threaded mode.                                                    *)
(***************************************************************************)
EXTENDS RequestHandler, TLAPS

(***************************************************************************)
(* Every disjunct of Next, one hypothesis each: the proofs below case-split *)
(* on them.                                                                 *)
(***************************************************************************)
Step(t) ==
  \/ Receive(t) \/ Restore(t) \/ AttachSession(t) \/ CrashOnReleasedSession(t)
  \/ RestorationFailed(t) \/ AutocreateSession(t) \/ AutocreateFailed(t)
  \/ NoAutocreate(t) \/ RequireSession(t) \/ LockSession(t)
  \/ HandlerCreatesSession(t) \/ HandlerTerminatesSession(t)
  \/ HandlerReturns(t) \/ HandlerRaises(t) \/ SaveSession(t)
  \/ StoreSession(t) \/ StoreInfo(t) \/ UnlockSession(t) \/ SleepSession(t)
  \/ Finish(t)

\* A step is one of a thread, of the timer, a refusal or a tick.
LEMMA NextSteps ==
  ASSUME Next
  PROVE  \/ \E t \in Threads : Step(t)
         \/ PerformExpirationCheck
         \/ CheckTermination
         \/ RefuseNewSessions
         \/ PassTime
  BY Zenon DEF Next, HandleRequest, Step, Timer

-----------------------------------------------------------------------------
(* Type correctness *)

\* The initial state is well typed.
LEMMA TypeInit == Init => TypeOK
<1> SUFFICES ASSUME Init PROVE TypeOK
  OBVIOUS
<1>1. StoreTypeOK
  BY TimeAssumption DEF Init, StoreInit, StoreTypeOK, TimerStates, NoDate
<1>2. /\ pc \in [Threads -> PC]
      /\ autocreate \in [Threads -> BOOLEAN]
      /\ \A t \in Threads : pc[t] \notin Saving
      /\ timer # "removeSession"
  BY DEF Init, StoreInit, PC, Saving
<1>3. refuses \in BOOLEAN /\ appTerminating \in BOOLEAN
  BY Zenon DEF Init
<1>4. /\ requests \in 0..MaxRequests
      /\ contextID \in [Threads -> 0..MaxRequests]
      /\ snContext \in [Sessions -> 0..MaxRequests]
  BY CountAssumption DEF Init, NoContext
<1> QED
  BY <1>1, <1>2, <1>3, <1>4 DEF Init, TypeOK

\* Every part of handleRequest: keeps the types.
LEMMA TypeThread ==
  ASSUME TypeOK, NEW t \in Threads, Step(t)
  PROVE  TypeOK'
<1> USE NoSessionAssumption, NoThreadAssumption, TimeAssumption,
        CountAssumption
    DEF TypeOK, StoreTypeOK, PC, Saving, TimerStates, Goto, storeVars,
        timerVars, threadVars, sessionVars, appVars, NoContext
<1>1. CASE Receive(t)
  BY <1>1 DEF Receive
<1>2. CASE Restore(t)
  BY <1>2 DEF Restore, restorable
<1>3. CASE AttachSession(t)
  BY <1>3 DEF AttachSession, AwakeWithContext
<1>4. CASE CrashOnReleasedSession(t)
  BY <1>4 DEF CrashOnReleasedSession
<1>5. CASE RestorationFailed(t)
  BY <1>5 DEF RestorationFailed
<1>6. CASE AutocreateSession(t)
  BY <1>6 DEF AutocreateSession, InitializeSession, AwakeWithContext
<1>7. CASE AutocreateFailed(t)
  BY <1>7 DEF AutocreateFailed
<1>8. CASE NoAutocreate(t)
  BY <1>8 DEF NoAutocreate
<1>9. CASE RequireSession(t)
  BY <1>9 DEF RequireSession
<1>10. CASE LockSession(t)
  BY <1>10 DEF LockSession
<1>11. CASE HandlerCreatesSession(t)
  BY <1>11 DEF HandlerCreatesSession, InitializeSession, AwakeWithContext
<1>12. CASE HandlerTerminatesSession(t)
  BY <1>12 DEF HandlerTerminatesSession
<1>13. CASE HandlerReturns(t)
  BY <1>13 DEF HandlerReturns
<1>14. CASE HandlerRaises(t)
  BY <1>14 DEF HandlerRaises
<1>15. CASE SaveSession(t)
  BY <1>15 DEF SaveSession, SleepWithContext
<1>16. CASE StoreSession(t)
  BY <1>16 DEF StoreSession, InsertSession, RemoveSession
<1>17. CASE StoreInfo(t)
  BY <1>17 DEF StoreInfo, InsertInfo, RemoveInfo, infoTimeoutDate, NoDate,
               DistantFuture
<1>18. CASE UnlockSession(t)
  BY <1>18 DEF UnlockSession
<1>19. CASE SleepSession(t)
  BY <1>19 DEF SleepSession, SleepWithContext
<1>20. CASE Finish(t)
  BY <1>20 DEF Finish, TooFewSessions
<1> QED
  BY <1>1, <1>2, <1>3, <1>4, <1>5, <1>6, <1>7, <1>8, <1>9, <1>10, <1>11,
     <1>12, <1>13, <1>14, <1>15, <1>16, <1>17, <1>18, <1>19, <1>20, Zenon
  DEF Step

\* The expiration check and the clock keep the types.
LEMMA TypeTimer ==
  ASSUME TypeOK,
         \/ PerformExpirationCheck
         \/ CheckTermination
         \/ RefuseNewSessions
         \/ PassTime
  PROVE  TypeOK'
<1> USE NoSessionAssumption, TimeAssumption, CountAssumption
    DEF TypeOK, StoreTypeOK, TimerStates, storeVars, timerVars, threadVars,
        sessionVars, appVars, requestVars
<1>1. CASE PerformExpirationCheck
  <2>1. CASE ScanExpired(\E t \in Threads : Storing(t))
    BY <1>1, <2>1 DEF PerformExpirationCheck, ScanExpired
  <2>2. CASE RemoveExpiredInfo
    BY <1>1, <2>2 DEF PerformExpirationCheck, RemoveExpiredInfo, RemoveInfo,
                      NoDate
  <2>3. CASE RemoveExpiredSession
    BY <1>1, <2>3 DEF PerformExpirationCheck, RemoveExpiredSession,
                      RemoveSession
  <2> QED
    BY <1>1, <2>1, <2>2, <2>3 DEF PerformExpirationCheck
<1>2. CASE CheckTermination
  BY <1>2 DEF CheckTermination
<1>3. CASE RefuseNewSessions
  BY <1>3 DEF RefuseNewSessions
<1>4. CASE PassTime
  BY <1>4 DEF PassTime, Tick
<1> QED
  BY <1>1, <1>2, <1>3, <1>4

\* Every step keeps the types.
LEMMA TypeStep == TypeOK /\ [Next]_vars => TypeOK'
<1> SUFFICES ASSUME TypeOK, [Next]_vars PROVE TypeOK'
  OBVIOUS
<1>1. CASE Next
  BY <1>1, NextSteps, TypeThread, TypeTimer
<1>2. CASE UNCHANGED vars
  BY <1>2 DEF vars, TypeOK, StoreTypeOK, storeVars, timerVars, threadVars,
              sessionVars, appVars
<1> QED
  BY <1>1, <1>2

\* Type correctness of the request handling: in particular only a request
\* that has a session ever saves one.
THEOREM TypeCorrect == Spec => []TypeOK
  BY TypeInit, TypeStep, PTL DEF Spec

-----------------------------------------------------------------------------
(***************************************************************************)
(* The inductive invariant.  AppLockInv says who holds the application's    *)
(* lock, StoreInv what the tables hold while a save or the timer is half    *)
(* way, TerminationInv where an announced session may still be found, and   *)
(* FlowInv and PrivateInv which sessions a thread can have in its hands.    *)
(***************************************************************************)
Locked == {"attach", "storeSession", "storeInfo", "dropInfo"}

\* the application's lock is held throughout the synchronized parts
AppLockInv == \A t \in Threads : pc[t] \in Locked => appLock = t

\* a terminating save has taken its session out of the first table
StoreInv ==
  /\ RestorableIsSupervised
  /\ \A t \in Threads : pc[t] = "dropInfo" => session[t] \notin idToSession

\* an announced session terminates, and is restorable only until its save
\* reaches the store
TerminationInv ==
  \A s \in Sessions :
    didTerminate[s] > 0 =>
      /\ s \in isTerminating
      /\ s \in idToSession =>
           \E t \in Threads : pc[t] = "storeSession" /\ session[t] = s

InductiveInv ==
  /\ TypeOK
  /\ AppLockInv
  /\ StoreInv
  /\ TerminationInv
  /\ NeverRestoredAfterTermination

\* The invariant of locks, store and terminations holds initially.
LEMMA InductiveInit == Init => InductiveInv
<1> SUFFICES ASSUME Init PROVE InductiveInv
  OBVIOUS
<1>1. TypeOK
  BY TypeInit
<1>2. AppLockInv /\ StoreInv /\ TerminationInv /\ NeverRestoredAfterTermination
  BY NoThreadAssumption
  DEF Init, StoreInit, AppLockInv, Locked, StoreInv, RestorableIsSupervised,
      TerminationInv, NeverRestoredAfterTermination
<1> QED
  BY <1>1, <1>2 DEF InductiveInv

\* Every part of handleRequest: keeps it.
LEMMA InductiveThread ==
  ASSUME InductiveInv, NEW t \in Threads, Step(t)
  PROVE  InductiveInv'
<1>1. TypeOK /\ TypeOK'
  BY TypeThread DEF InductiveInv
<1> USE <1>1, NoSessionAssumption, NoThreadAssumption
    DEF InductiveInv, TypeOK, StoreTypeOK, AppLockInv, Locked, StoreInv,
        RestorableIsSupervised, TerminationInv, Crashed, HasInfo,
        NeverRestoredAfterTermination, Goto, storeVars, timerVars, threadVars,
        sessionVars, appVars, PC, Saving
<1>0. infoTimeoutDate # NoDate
  BY TimeAssumption DEF infoTimeoutDate, NoDate, DistantFuture
<1>2. CASE Receive(t)
  BY <1>2 DEF Receive
<1>3. CASE Restore(t)
  <2> USE <1>3 DEF Restore, restorable
  <2>1. AppLockInv'
    OBVIOUS
  <2>2. StoreInv'
    OBVIOUS
  <2>3. TerminationInv'
    OBVIOUS
  <2>4. NeverRestoredAfterTermination'
    OBVIOUS
  <2> QED
    BY <2>1, <2>2, <2>3, <2>4
<1>4. CASE AttachSession(t)
  BY <1>4 DEF AttachSession, AwakeWithContext
<1>5. CASE CrashOnReleasedSession(t)
  <2> USE <1>5 DEF CrashOnReleasedSession
  <2>1. AppLockInv'
    OBVIOUS
  <2>2. StoreInv'
    OBVIOUS
  <2>3. TerminationInv'
    OBVIOUS
  <2>4. NeverRestoredAfterTermination'
    OBVIOUS
  <2> QED
    BY <2>1, <2>2, <2>3, <2>4
<1>6. CASE RestorationFailed(t)
  BY <1>6 DEF RestorationFailed
<1>7. CASE AutocreateSession(t)
  BY <1>7 DEF AutocreateSession, InitializeSession, AwakeWithContext
<1>8. CASE AutocreateFailed(t)
  BY <1>8 DEF AutocreateFailed
<1>9. CASE NoAutocreate(t)
  BY <1>9 DEF NoAutocreate
<1>10. CASE RequireSession(t)
  BY <1>10 DEF RequireSession
<1>11. CASE LockSession(t)
  BY <1>11 DEF LockSession
<1>12. CASE HandlerCreatesSession(t)
  BY <1>12 DEF HandlerCreatesSession, InitializeSession, AwakeWithContext
<1>13. CASE HandlerTerminatesSession(t)
  BY <1>13 DEF HandlerTerminatesSession
<1>14. CASE HandlerReturns(t)
  BY <1>14 DEF HandlerReturns
<1>15. CASE HandlerRaises(t)
  BY <1>15 DEF HandlerRaises
<1>16. CASE SaveSession(t)
  <2> USE <1>16 DEF SaveSession, SleepWithContext
  <2>1. AppLockInv'
    OBVIOUS
  <2>2. StoreInv'
    OBVIOUS
  <2>3. TerminationInv'
    OBVIOUS
  <2>4. NeverRestoredAfterTermination'
    OBVIOUS
  <2> QED
    BY <2>1, <2>2, <2>3, <2>4
<1>17. CASE StoreSession(t)
  <2> USE <1>17 DEF StoreSession, InsertSession, RemoveSession
  <2>1. AppLockInv'
    OBVIOUS
  <2>2. StoreInv'
    OBVIOUS
  <2>3. TerminationInv'
    OBVIOUS
  <2>4. NeverRestoredAfterTermination'
    OBVIOUS
  <2> QED
    BY <2>1, <2>2, <2>3, <2>4
<1>18. CASE StoreInfo(t)
  <2> USE <1>0, <1>18 DEF StoreInfo, InsertInfo, RemoveInfo
  <2>1. AppLockInv'
    OBVIOUS
  <2>2. StoreInv'
    OBVIOUS
  <2>3. TerminationInv'
    OBVIOUS
  <2>4. NeverRestoredAfterTermination'
    OBVIOUS
  <2> QED
    BY <2>1, <2>2, <2>3, <2>4
<1>19. CASE UnlockSession(t)
  BY <1>19 DEF UnlockSession
<1>20. CASE SleepSession(t)
  BY <1>20 DEF SleepSession, SleepWithContext
<1>21. CASE Finish(t)
  BY <1>21 DEF Finish
<1> QED
  BY <1>2, <1>3, <1>4, <1>5, <1>6, <1>7, <1>8, <1>9, <1>10, <1>11, <1>12,
     <1>13, <1>14, <1>15, <1>16, <1>17, <1>18, <1>19, <1>20, <1>21, Zenon
  DEF Step

\* The unlocked expiration check keeps it.
LEMMA InductiveTimer ==
  ASSUME InductiveInv,
         \/ PerformExpirationCheck
         \/ CheckTermination
         \/ RefuseNewSessions
         \/ PassTime
  PROVE  InductiveInv'
<1>1. TypeOK /\ TypeOK'
  BY TypeTimer DEF InductiveInv
<1> USE <1>1 DEF InductiveInv, TypeOK, StoreTypeOK, AppLockInv, StoreInv,
        RestorableIsSupervised, TerminationInv, HasInfo,
        NeverRestoredAfterTermination, storeVars, timerVars, threadVars,
        sessionVars, appVars, requestVars
<1>2. CASE PerformExpirationCheck
  <2>1. CASE ScanExpired(\E t \in Threads : Storing(t))
    BY <1>2, <2>1 DEF PerformExpirationCheck, ScanExpired
  <2>2. CASE RemoveExpiredInfo
    BY <1>2, <2>2 DEF PerformExpirationCheck, RemoveExpiredInfo, RemoveInfo
  <2>3. CASE RemoveExpiredSession
    BY <1>2, <2>3 DEF PerformExpirationCheck, RemoveExpiredSession,
                      RemoveSession
  <2> QED
    BY <1>2, <2>1, <2>2, <2>3 DEF PerformExpirationCheck
<1>3. CASE CheckTermination
  BY <1>3 DEF CheckTermination
<1>4. CASE RefuseNewSessions
  BY <1>4 DEF RefuseNewSessions
<1>5. CASE PassTime
  BY <1>5 DEF PassTime, Tick
<1> QED
  BY <1>2, <1>3, <1>4, <1>5

\* So does a step that changes nothing.
LEMMA InductiveStutter ==
  ASSUME InductiveInv, UNCHANGED vars
  PROVE  InductiveInv'
<1>1. TypeOK'
  BY TypeStep DEF InductiveInv
<1> QED
  BY <1>1 DEF InductiveInv, vars, AppLockInv, StoreInv,
     RestorableIsSupervised, TerminationInv, HasInfo,
     NeverRestoredAfterTermination, storeVars, threadVars, sessionVars,
     appVars

\* The invariant holds in every behaviour.
LEMMA Inductive == Spec => []InductiveInv
<1>1. InductiveInv /\ [Next]_vars => InductiveInv'
  BY NextSteps, InductiveThread, InductiveTimer, InductiveStutter
<1> QED
  BY <1>1, InductiveInit, PTL DEF Spec

\* No session can escape expiration: whatever order the saves of any number
\* of threads and the unlocked expiration check take, a restorable session
\* keeps the info that lets the timer expire it.
THEOREM SupervisedCorrect == Spec => []RestorableIsSupervised
<1>1. InductiveInv => RestorableIsSupervised
  BY DEF InductiveInv, StoreInv
<1> QED
  BY <1>1, Inductive, PTL

\* Once its termination was announced a session is in the store only until the
\* terminating save, which holds the application's lock, has taken it out, and
\* no request restores it.  A request that restored it before the announcement
\* keeps it, and may still run its handler on it.
THEOREM TerminationCorrect == Spec => [](NeverRestoredAfterTermination /\ TerminationInv)
<1>1. InductiveInv => NeverRestoredAfterTermination /\ TerminationInv
  BY DEF InductiveInv
<1> QED
  BY <1>1, Inductive, PTL

-----------------------------------------------------------------------------
(***************************************************************************)
(* Exclusive use of a session.  A thread that found its session before the  *)
(* handler ran holds the session's lock; one whose handler created it holds *)
(* nothing, but nobody else can have heard of that session yet.             *)
(***************************************************************************)
FlowInv ==
  /\ idToSession \subseteq created
  /\ \A t \in Threads :
       /\ session[t] \in created \cup {NoSession}
       /\ ctxSession[t] \in created \cup {NoSession}
       /\ pc[t] \in {"idle", "restore", "create", "require"} =>
            session[t] = NoSession /\ ctxSession[t] = NoSession
       /\ pc[t] = "attach" => ctxSession[t] = NoSession
       /\ pc[t] = "lock" => session[t] = ctxSession[t]
       /\ pc[t] = "handle" /\ session[t] # NoSession =>
            /\ ctxSession[t] = session[t]
            /\ WORunMultithreaded => snLock[session[t]] = t

PrivateInv ==
  \A t \in Threads :
    pc[t] = "handle" /\ session[t] = NoSession /\ ctxSession[t] # NoSession =>
      /\ ctxSession[t] \notin idToSession
      /\ \A u \in Threads \ {t} :
           session[u] # ctxSession[t] /\ ctxSession[u] # ctxSession[t]

ExclusiveInv == TypeOK /\ FlowInv /\ PrivateInv

\* The invariant of sessions in use holds initially.
LEMMA ExclusiveInit == Init => ExclusiveInv
  BY TypeInit DEF Init, StoreInit, ExclusiveInv, FlowInv, PrivateInv

\* Every part of handleRequest: keeps it.
LEMMA ExclusiveThread ==
  ASSUME ExclusiveInv, NEW t \in Threads, Step(t)
  PROVE  ExclusiveInv'
<1>1. TypeOK /\ TypeOK'
  BY TypeThread DEF ExclusiveInv
<1> USE <1>1, NoSessionAssumption, NoThreadAssumption
    DEF ExclusiveInv, TypeOK, StoreTypeOK, FlowInv, PrivateInv, Goto, Saving,
        storeVars, timerVars, threadVars, sessionVars, appVars
<1>2. CASE Receive(t)
  BY <1>2 DEF Receive
<1>3. CASE Restore(t)
  BY <1>3 DEF Restore, restorable
<1>4. CASE AttachSession(t)
  BY <1>4 DEF AttachSession, AwakeWithContext
<1>5. CASE CrashOnReleasedSession(t)
  BY <1>5 DEF CrashOnReleasedSession
<1>6. CASE RestorationFailed(t)
  BY <1>6 DEF RestorationFailed
<1>7. CASE AutocreateSession(t)
  BY <1>7 DEF AutocreateSession, InitializeSession, AwakeWithContext
<1>8. CASE AutocreateFailed(t)
  BY <1>8 DEF AutocreateFailed
<1>9. CASE NoAutocreate(t)
  BY <1>9 DEF NoAutocreate
<1>10. CASE RequireSession(t)
  BY <1>10 DEF RequireSession
<1>11. CASE LockSession(t)
  BY <1>11 DEF LockSession
<1>12. CASE HandlerCreatesSession(t)
  BY <1>12 DEF HandlerCreatesSession, InitializeSession, AwakeWithContext
<1>13. CASE HandlerTerminatesSession(t)
  BY <1>13 DEF HandlerTerminatesSession
<1>14. CASE HandlerReturns(t)
  BY <1>14 DEF HandlerReturns
<1>15. CASE HandlerRaises(t)
  BY <1>15 DEF HandlerRaises
<1>16. CASE SaveSession(t)
  BY <1>16 DEF SaveSession, SleepWithContext
<1>17. CASE StoreSession(t)
  BY <1>17 DEF StoreSession, InsertSession, RemoveSession
<1>18. CASE StoreInfo(t)
  BY <1>18 DEF StoreInfo, InsertInfo, RemoveInfo
<1>19. CASE UnlockSession(t)
  BY <1>19 DEF UnlockSession
<1>20. CASE SleepSession(t)
  BY <1>20 DEF SleepSession, SleepWithContext
<1>21. CASE Finish(t)
  BY <1>21 DEF Finish
<1> QED
  BY <1>2, <1>3, <1>4, <1>5, <1>6, <1>7, <1>8, <1>9, <1>10, <1>11, <1>12,
     <1>13, <1>14, <1>15, <1>16, <1>17, <1>18, <1>19, <1>20, <1>21, Zenon
  DEF Step

\* The expiration check, which takes no session, keeps it.
LEMMA ExclusiveTimer ==
  ASSUME ExclusiveInv,
         \/ PerformExpirationCheck
         \/ CheckTermination
         \/ RefuseNewSessions
         \/ PassTime
  PROVE  ExclusiveInv'
<1>1. TypeOK'
  BY TypeTimer DEF ExclusiveInv
<1>2. /\ idToSession' \subseteq idToSession
      /\ UNCHANGED <<pc, threadVars, created, snLock>>
  BY DEF PerformExpirationCheck, ScanExpired, RemoveExpiredInfo,
         RemoveExpiredSession, RemoveSession, CheckTermination,
         RefuseNewSessions, PassTime, Tick, storeVars, requestVars,
         sessionVars
<1> QED
  BY <1>1, <1>2 DEF ExclusiveInv, FlowInv, PrivateInv, threadVars

\* So does a step that changes nothing.
LEMMA ExclusiveStutter ==
  ASSUME ExclusiveInv, UNCHANGED vars
  PROVE  ExclusiveInv'
<1>1. TypeOK'
  BY TypeStep DEF ExclusiveInv
<1> QED
  BY <1>1 DEF ExclusiveInv, FlowInv, PrivateInv, vars, storeVars, threadVars,
              sessionVars

\* A session runs in the handler of one request at a time, also when the
\* handler created it and no lock is held.
THEOREM ExclusiveCorrect == Spec => []HandlerExclusive
<1>1. ExclusiveInv /\ [Next]_vars => ExclusiveInv'
  BY NextSteps, ExclusiveThread, ExclusiveTimer, ExclusiveStutter
<1>2. ExclusiveInv => HandlerExclusive
  BY ModeAssumption DEF ExclusiveInv, FlowInv, PrivateInv, HandlerExclusive
<1> QED
  BY <1>1, <1>2, ExclusiveInit, PTL DEF Spec

-----------------------------------------------------------------------------
(* The request handling implements the session registry. *)

\* An empty store is an empty registry.
LEMMA RegistryInit == Init => Registry!Init
  BY DEF Init, StoreInit, Registry!Init, Ended

\* A step that leaves the store's first table and the announcements alone is
\* a stuttering step of the registry.
LEMMA RegistryStutter ==
  ASSUME UNCHANGED <<idToSession, didTerminate>>
  PROVE  UNCHANGED <<idToSession, Ended>>
  BY DEF Ended

\* What a thread does to the store is a registry step or a stutter.
LEMMA RegistryThread ==
  ASSUME InductiveInv, NEW t \in Threads, Step(t)
  PROVE  [Registry!Next]_<<idToSession, Ended>>
<1>1. CASE SaveSession(t)
  <2>1. PICK s \in Sessions : s = session[t]
    BY <1>1 DEF InductiveInv, TypeOK, SaveSession, Saving
  <2>2. CASE s \in isTerminating
    <3>1. CASE s \in idToSession
      BY <1>1, <2>1, <2>2, <3>1
      DEF SaveSession, Ended, InductiveInv, TypeOK, storeVars
    <3>2. CASE s \notin idToSession
      <4>1. Registry!End(s)
        BY <1>1, <2>1, <2>2, <3>2
        DEF SaveSession, Ended, InductiveInv, TypeOK, storeVars, Registry!End
      <4> QED
        BY <4>1 DEF Registry!Next
    <3> QED
      BY <3>1, <3>2
  <2>3. CASE s \notin isTerminating
    BY <1>1, <2>1, <2>3, RegistryStutter DEF SaveSession, storeVars
  <2> QED
    BY <2>2, <2>3
<1>2. CASE StoreSession(t)
  <2>1. PICK s \in Sessions : s = session[t]
    BY <1>2 DEF InductiveInv, TypeOK, StoreSession, Saving
  <2>2. CASE s \in isTerminating
    <3>1. CASE didTerminate[s] > 0
      <4>1. Registry!End(s)
        BY <1>2, <2>1, <2>2, <3>1
        DEF StoreSession, RemoveSession, Ended, Registry!End
      <4> QED
        BY <4>1 DEF Registry!Next
    <3>2. CASE ~(didTerminate[s] > 0)
      <4>1. Registry!Leave(s)
        BY <1>2, <2>1, <2>2, <3>2
        DEF StoreSession, RemoveSession, Ended, Registry!Leave
      <4> QED
        BY <4>1 DEF Registry!Next
    <3> QED
      BY <3>1, <3>2
  <2>3. CASE s \notin isTerminating
    <3>1. ~(didTerminate[s] > 0)
      BY <2>3 DEF InductiveInv, TerminationInv
    <3>2. Registry!Register(s)
      BY <1>2, <2>1, <2>3, <3>1
      DEF StoreSession, InsertSession, Ended, Registry!Register
    <3> QED
      BY <3>2 DEF Registry!Next
  <2> QED
    BY <2>2, <2>3
<1>3. CASE ~SaveSession(t) /\ ~StoreSession(t)
  <2>1. UNCHANGED <<idToSession, didTerminate>>
    BY <1>3
    DEF Step, Receive, Restore, AttachSession, CrashOnReleasedSession,
        RestorationFailed, AutocreateSession, AutocreateFailed, NoAutocreate,
        RequireSession, LockSession, HandlerCreatesSession,
        HandlerTerminatesSession, HandlerReturns, HandlerRaises, StoreInfo,
        UnlockSession, SleepSession, Finish, storeVars
  <2> QED
    BY <2>1, RegistryStutter
<1> QED
  BY <1>1, <1>2, <1>3

\* An expiration makes a session leave; the rest of the timer stutters.
LEMMA RegistryTimer ==
  ASSUME InductiveInv,
         \/ PerformExpirationCheck
         \/ CheckTermination
         \/ RefuseNewSessions
         \/ PassTime
  PROVE  [Registry!Next]_<<idToSession, Ended>>
<1>1. CASE PerformExpirationCheck /\ RemoveExpiredSession
  <2>1. PICK s \in Sessions : s = expiring
    BY <1>1 DEF InductiveInv, TypeOK, StoreTypeOK, RemoveExpiredSession
  <2>2. Registry!End(s) \/ Registry!Leave(s)
    BY <1>1, <2>1
    DEF PerformExpirationCheck, RemoveExpiredSession, RemoveSession, Ended,
        requestVars, Registry!End, Registry!Leave
  <2> QED
    BY <2>2 DEF Registry!Next
<1>2. CASE ~(PerformExpirationCheck /\ RemoveExpiredSession)
  <2>1. UNCHANGED <<idToSession, didTerminate>>
    BY <1>2
    DEF PerformExpirationCheck, ScanExpired, RemoveExpiredInfo,
        CheckTermination, RefuseNewSessions, PassTime, Tick, storeVars,
        requestVars
  <2> QED
    BY <2>1, RegistryStutter
<1> QED
  BY <1>1, <1>2

\* The request handling implements the session registry: an ended session is
\* never put back, for any number of threads.
THEOREM RegistryImplemented == Spec => ImplementsRegistry
<1>1. InductiveInv /\ [Next]_vars => [Registry!Next]_<<idToSession, Ended>>
  <2> SUFFICES ASSUME InductiveInv, [Next]_vars
               PROVE  [Registry!Next]_<<idToSession, Ended>>
    OBVIOUS
  <2>1. CASE Next
    BY <2>1, NextSteps, RegistryThread, RegistryTimer
  <2>2. CASE UNCHANGED vars
    BY <2>2, RegistryStutter DEF vars, storeVars
  <2> QED
    BY <2>1, <2>2
<1> QED
  BY <1>1, Inductive, RegistryInit, PTL
  DEF Spec, ImplementsRegistry, Registry!Spec
-----------------------------------------------------------------------------
(***************************************************************************)
(* The single-threaded mode.  One thread serves every request and the       *)
(* expiration check runs between requests, so what the two leave half done  *)
(* is never seen by the other.  SingleInv adds to the invariants above what *)
(* the tables, the time-outs, the awake flags and the announcements look    *)
(* like inside the one request, or the one check, under way.                *)
(***************************************************************************)
TimerAlone == timer # "idle" => AllIdle

\* the tables agree but for the session a save or the check is half through
HalfStored(s) == \E t \in Threads :
                   pc[t] \in {"storeInfo", "dropInfo"} /\ session[t] = s
HalfExpired(s) == timer = "removeSession" /\ expiring = s

TablesInv ==
  /\ \A s \in Sessions :
       /\ (s \in idToSession <=> HasInfo(s)) \/ HalfStored(s) \/ HalfExpired(s)
       /\ HasInfo(s) => s \in created
  /\ \A t \in Threads : pc[t] = "storeInfo" => session[t] \in idToSession
  /\ timer = "removeSession" => ~HasInfo(expiring)

\* a session that timed out was in the store once, and is in nobody's hands
TimedOutInv ==
  /\ TimedOutStaysGone
  /\ didTimeOut \subseteq created
  /\ timedOut \subseteq created
  /\ expiring \in created \cup {NoSession}
  /\ \A t \in Threads :
       session[t] \notin didTimeOut /\ ctxSession[t] \notin didTimeOut

\* a restored session is still in the store when the context retains it
RestoredInv ==
  \A t \in Threads :
    /\ pc[t] # "dead"
    /\ pc[t] = "attach" /\ session[t] # NoSession => session[t] \in idToSession

\* the parts of a request in which its session may be awake
Working == {"lock", "handle", "save", "storeSession", "storeInfo", "dropInfo",
            "unlock", "sleep"}
Asleep(s) == s \notin isAwake /\ snContext[s] = NoContext

AwakeInv ==
  /\ \A t \in Threads :
       pc[t] \in {"lock", "handle"} /\ ctxSession[t] # NoSession =>
         /\ ctxSession[t] \in isAwake
         /\ snContext[ctxSession[t]] = contextID[t]
  /\ \A s \in idToSession :
       Asleep(s) \/ \E t \in Threads : pc[t] \in Working /\ session[t] = s
  /\ \A s \in Sessions \ created : snContext[s] = NoContext

\* no request that can still announce a termination has an announced session
AnnouncedInv ==
  /\ TerminationAnnouncedOnce
  /\ \A s \in Sessions \ created : didTerminate[s] = 0
  /\ \A t \in Threads :
       /\ pc[t] \in {"lock", "handle"} /\ ctxSession[t] # NoSession =>
            didTerminate[ctxSession[t]] = 0
       /\ pc[t] = "save" => didTerminate[session[t]] = 0

SingleInv ==
  /\ InductiveInv
  /\ ExclusiveInv
  /\ TimerAlone
  /\ TablesInv
  /\ TimedOutInv
  /\ RestoredInv
  /\ AwakeInv
  /\ AnnouncedInv

\* The invariant of the single-threaded mode holds initially.
LEMMA SingleInit == Init => SingleInv
<1> SUFFICES ASSUME Init PROVE SingleInv
  OBVIOUS
<1>1. InductiveInv /\ ExclusiveInv
  BY InductiveInit, ExclusiveInit
<1>2. TimerAlone /\ TablesInv /\ TimedOutInv
  BY DEF Init, StoreInit, TimerAlone, TablesInv, HasInfo, TimedOutInv,
         TimedOutStaysGone
<1>3. RestoredInv /\ AwakeInv /\ AnnouncedInv
  BY DEF Init, StoreInit, RestoredInv, AwakeInv, AnnouncedInv,
         TerminationAnnouncedOnce
<1> QED
  BY <1>1, <1>2, <1>3 DEF SingleInv

\* Every part of handleRequest: keeps it, when no other thread runs.
LEMMA SingleThread ==
  ASSUME ~WORunMultithreaded, SingleInv, NEW t \in Threads, Step(t)
  PROVE  SingleInv'
<1>1. TypeOK /\ TypeOK' /\ FlowInv /\ PrivateInv
  BY TypeThread DEF SingleInv, ExclusiveInv
<1>2. InductiveInv' /\ ExclusiveInv'
  BY InductiveThread, ExclusiveThread DEF SingleInv
<1>3. \A u \in Threads : u = t
  BY ModeAssumption
<1>0. infoTimeoutDate # NoDate
  BY <1>1, TimeAssumption
  DEF infoTimeoutDate, NoDate, DistantFuture, TypeOK, StoreTypeOK
<1> SUFFICES /\ TimerAlone' /\ TablesInv' /\ TimedOutInv'
             /\ RestoredInv' /\ AwakeInv' /\ AnnouncedInv'
  BY <1>2, Zenon DEF SingleInv
<1> USE <1>1, <1>3, NoSessionAssumption
    DEF SingleInv, InductiveInv, TypeOK, StoreTypeOK, Saving, FlowInv,
        PrivateInv, TimerAlone, AllIdle, TablesInv, HalfStored, HalfExpired,
        HasInfo, TimedOutInv, TimedOutStaysGone, RestoredInv, AwakeInv,
        Asleep, Working, AnnouncedInv, TerminationAnnouncedOnce, Goto,
        storeVars, timerVars, threadVars, sessionVars, appVars
<1>4. CASE Receive(t)
  BY <1>4 DEF Receive
<1>5. CASE Restore(t)
  BY <1>5 DEF Restore, restorable, TerminationInv
<1>6. CASE AttachSession(t)
  BY <1>6 DEF AttachSession, AwakeWithContext, NeverRestoredAfterTermination
\* impossible: the store still retains the session
<1>7. CASE CrashOnReleasedSession(t)
  BY <1>7 DEF CrashOnReleasedSession, Retained
<1>8. CASE RestorationFailed(t)
  BY <1>8 DEF RestorationFailed
<1>9. CASE AutocreateSession(t)
  BY <1>9 DEF AutocreateSession, InitializeSession, AwakeWithContext
<1>10. CASE AutocreateFailed(t)
  BY <1>10 DEF AutocreateFailed
<1>11. CASE NoAutocreate(t)
  BY <1>11 DEF NoAutocreate
<1>12. CASE RequireSession(t)
  BY <1>12 DEF RequireSession
<1>13. CASE LockSession(t)
  BY <1>13 DEF LockSession
<1>14. CASE HandlerCreatesSession(t)
  BY <1>14 DEF HandlerCreatesSession, InitializeSession, AwakeWithContext
<1>15. CASE HandlerTerminatesSession(t)
  BY <1>15 DEF HandlerTerminatesSession
<1>16. CASE HandlerReturns(t)
  BY <1>16 DEF HandlerReturns
<1>17. CASE HandlerRaises(t)
  BY <1>17 DEF HandlerRaises
<1>18. CASE SaveSession(t)
  BY <1>18 DEF SaveSession, SleepWithContext
<1>19. CASE StoreSession(t)
  BY <1>19 DEF StoreSession, InsertSession, RemoveSession, StoreInv
<1>20. CASE StoreInfo(t)
  BY <1>0, <1>20 DEF StoreInfo, InsertInfo, RemoveInfo, StoreInv
<1>21. CASE UnlockSession(t)
  BY <1>21 DEF UnlockSession
<1>22. CASE SleepSession(t)
  BY <1>22 DEF SleepSession, SleepWithContext
<1>23. CASE Finish(t)
  BY <1>23 DEF Finish
<1> QED
  BY <1>4, <1>5, <1>6, <1>7, <1>8, <1>9, <1>10, <1>11, <1>12, <1>13, <1>14,
     <1>15, <1>16, <1>17, <1>18, <1>19, <1>20, <1>21, <1>22, <1>23, Zenon
  DEF Step

\* The expiration check, which runs between requests, keeps it.
LEMMA SingleTimer ==
  ASSUME ~WORunMultithreaded, SingleInv, Timer
  PROVE  SingleInv'
<1>1. TypeOK /\ TypeOK' /\ FlowInv
  BY TypeTimer DEF SingleInv, ExclusiveInv, Timer
<1>2. InductiveInv' /\ ExclusiveInv'
  BY InductiveTimer, ExclusiveTimer DEF SingleInv, Timer
<1>3. AllIdle
  BY DEF Timer
<1> SUFFICES /\ TimerAlone' /\ TablesInv' /\ TimedOutInv'
             /\ RestoredInv' /\ AwakeInv' /\ AnnouncedInv'
  BY <1>2, Zenon DEF SingleInv
<1> USE <1>1, <1>3, NoSessionAssumption
    DEF SingleInv, TypeOK, StoreTypeOK, FlowInv, TimerAlone, AllIdle,
        TablesInv, HalfStored, HalfExpired, HasInfo, TimedOutInv,
        TimedOutStaysGone, RestoredInv, AwakeInv, Asleep, AnnouncedInv,
        TerminationAnnouncedOnce, requestVars, threadVars, sessionVars
<1>4. CASE PerformExpirationCheck
  <2>1. CASE ScanExpired(\E t \in Threads : Storing(t))
    BY <1>4, <2>1 DEF PerformExpirationCheck, ScanExpired, Expired
  <2>2. CASE RemoveExpiredInfo
    BY <1>4, <2>2 DEF PerformExpirationCheck, RemoveExpiredInfo, RemoveInfo
  <2>3. CASE RemoveExpiredSession
    BY <1>4, <2>3 DEF PerformExpirationCheck, RemoveExpiredSession,
                      RemoveSession
  <2> QED
    BY <1>4, <2>1, <2>2, <2>3 DEF PerformExpirationCheck
<1>5. CASE CheckTermination
  BY <1>5 DEF CheckTermination
<1> QED
  BY <1>4, <1>5 DEF Timer

\* So do a refusal, a tick of the clock and a step that changes nothing.
LEMMA SingleRest ==
  ASSUME SingleInv,
         RefuseNewSessions \/ PassTime \/ UNCHANGED vars
  PROVE  SingleInv'
<1>1. InductiveInv' /\ ExclusiveInv'
  BY InductiveTimer, InductiveStutter, ExclusiveTimer, ExclusiveStutter
  DEF SingleInv
<1>2. UNCHANGED <<idToSession, activeSessions, timerVars, pc, threadVars,
                  sessionVars, didTerminate>>
  BY DEF RefuseNewSessions, PassTime, Tick, vars, storeVars, timerVars,
         requestVars
<1> QED
  BY <1>1, <1>2
  DEF SingleInv, TimerAlone, AllIdle, TablesInv, HalfStored, HalfExpired,
      HasInfo, TimedOutInv, TimedOutStaysGone, RestoredInv, AwakeInv, Asleep,
      AnnouncedInv, TerminationAnnouncedOnce, timerVars, threadVars,
      sessionVars

\* It holds in every behaviour of a single-threaded application.
LEMMA Single == ASSUME ~WORunMultithreaded PROVE Spec => []SingleInv
<1>1. SingleInv /\ [Next]_vars => SingleInv'
  <2> SUFFICES ASSUME SingleInv, [Next]_vars PROVE SingleInv'
    OBVIOUS
  <2>1. CASE \E t \in Threads : Step(t)
    BY <2>1, SingleThread
  <2>2. CASE Timer
    BY <2>2, SingleTimer
  <2>3. CASE RefuseNewSessions \/ PassTime \/ UNCHANGED vars
    BY <2>3, SingleRest
  <2> QED
    BY <2>1, <2>2, <2>3, Zenon DEF Next, HandleRequest, Step
<1> QED
  BY <1>1, SingleInit, PTL DEF Spec

\* The store's two tables name the same sessions between two operations of a
\* single-threaded application, for any sessions, requests and time-outs.
THEOREM TablesCorrect ==
  ASSUME ~WORunMultithreaded PROVE Spec => []TablesAgree
<1>1. SingleInv => TablesAgree
  BY DEF SingleInv, TablesInv, HalfStored, HalfExpired, TablesAgree, AllIdle
<1> QED
  BY <1>1, Single, PTL

\* A session announced as timed out never comes back into the store.
THEOREM TimedOutCorrect ==
  ASSUME ~WORunMultithreaded PROVE Spec => []TimedOutStaysGone
<1>1. SingleInv => TimedOutStaysGone
  BY DEF SingleInv, TimedOutInv
<1> QED
  BY <1>1, Single, PTL

\* A session is awake exactly for its request, also after requests whose
\* handler raised or terminated it.
THEOREM AwakeCorrect ==
  ASSUME ~WORunMultithreaded PROVE Spec => []AwakeForItsRequest
<1>1. SingleInv => AwakeForItsRequest
  BY DEF SingleInv, AwakeInv, AwakeForItsRequest, AllIdle, Asleep, Working
<1> QED
  BY <1>1, Single, PTL

\* A session's termination is announced at most once.
THEOREM AnnouncedOnceCorrect ==
  ASSUME ~WORunMultithreaded PROVE Spec => []TerminationAnnouncedOnce
<1>1. SingleInv => TerminationAnnouncedOnce
  BY DEF SingleInv, AnnouncedInv
<1> QED
  BY <1>1, Single, PTL

\* A single-threaded application never uses a session the timer released.
THEOREM NeverCrashes == ASSUME ~WORunMultithreaded PROVE Spec => []~Crashed
<1>1. SingleInv => ~Crashed
  BY DEF SingleInv, RestoredInv, Crashed
<1> QED
  BY <1>1, Single, PTL

-----------------------------------------------------------------------------
(***************************************************************************)
(* No request waits for ever.  LockInv is the converse of AppLockInv: only  *)
(* a thread inside a synchronized part holds the application's lock, and    *)
(* only a thread between the lock and the unlock of its session holds the   *)
(* session's.  A request therefore waits for one that can go on, at most    *)
(* two locks away.                                                          *)
(***************************************************************************)
Holding == {"handle", "save", "storeSession", "storeInfo", "dropInfo",
            "unlock"}

LockInv ==
  ~Crashed =>
    \A t \in Threads :
      /\ appLock = t => pc[t] \in Locked
      /\ \A s \in Sessions :
           snLock[s] = t =>
             WORunMultithreaded /\ session[t] = s /\ pc[t] \in Holding

LocksInv == ExclusiveInv /\ LockInv

\* Nothing is locked initially.
LEMMA LocksInit == Init => LocksInv
  BY ExclusiveInit, NoThreadAssumption DEF Init, LocksInv, LockInv

\* Every part of handleRequest: keeps the invariant of the lock holders.
LEMMA LocksThread ==
  ASSUME LocksInv, NEW t \in Threads, Step(t)
  PROVE  LocksInv'
<1>1. TypeOK /\ TypeOK' /\ FlowInv
  BY TypeThread DEF LocksInv, ExclusiveInv
<1>2. ExclusiveInv'
  BY ExclusiveThread DEF LocksInv
<1> SUFFICES LockInv'
  BY <1>2 DEF LocksInv
<1> USE <1>1, NoSessionAssumption, NoThreadAssumption
    DEF LocksInv, TypeOK, FlowInv, LockInv, Locked, Holding, Crashed, Goto,
        Saving, threadVars
<1>3. CASE Receive(t)
  BY <1>3 DEF Receive
<1>4. CASE Restore(t)
  BY <1>4 DEF Restore
<1>5. CASE AttachSession(t)
  BY <1>5 DEF AttachSession
<1>6. CASE CrashOnReleasedSession(t)
  BY <1>6 DEF CrashOnReleasedSession
<1>7. CASE RestorationFailed(t)
  BY <1>7 DEF RestorationFailed
<1>8. CASE AutocreateSession(t)
  BY <1>8 DEF AutocreateSession
<1>9. CASE AutocreateFailed(t)
  BY <1>9 DEF AutocreateFailed
<1>10. CASE NoAutocreate(t)
  BY <1>10 DEF NoAutocreate
<1>11. CASE RequireSession(t)
  BY <1>11 DEF RequireSession
<1>12. CASE LockSession(t)
  BY <1>12 DEF LockSession
<1>13. CASE HandlerCreatesSession(t)
  BY <1>13 DEF HandlerCreatesSession
<1>14. CASE HandlerTerminatesSession(t)
  BY <1>14 DEF HandlerTerminatesSession
<1>15. CASE HandlerReturns(t)
  BY <1>15 DEF HandlerReturns
<1>16. CASE HandlerRaises(t)
  BY <1>16 DEF HandlerRaises
<1>17. CASE SaveSession(t)
  BY <1>17 DEF SaveSession
<1>18. CASE StoreSession(t)
  BY <1>18 DEF StoreSession
<1>19. CASE StoreInfo(t)
  BY <1>19 DEF StoreInfo
<1>20. CASE UnlockSession(t)
  BY <1>20 DEF UnlockSession
<1>21. CASE SleepSession(t)
  BY <1>21 DEF SleepSession
<1>22. CASE Finish(t)
  BY <1>22 DEF Finish
<1> QED
  BY <1>3, <1>4, <1>5, <1>6, <1>7, <1>8, <1>9, <1>10, <1>11, <1>12, <1>13,
     <1>14, <1>15, <1>16, <1>17, <1>18, <1>19, <1>20, <1>21, <1>22, Zenon
  DEF Step

\* The expiration check, a refusal and the clock take no lock.
LEMMA LocksTimer ==
  ASSUME LocksInv,
         \/ PerformExpirationCheck
         \/ CheckTermination
         \/ RefuseNewSessions
         \/ PassTime
         \/ UNCHANGED vars
  PROVE  LocksInv'
<1>1. ExclusiveInv'
  BY ExclusiveTimer, ExclusiveStutter DEF LocksInv
<1>2. UNCHANGED <<pc, threadVars, snLock, appLock>>
  BY DEF PerformExpirationCheck, CheckTermination, RefuseNewSessions, PassTime,
         vars, requestVars
<1> QED
  BY <1>1, <1>2 DEF LocksInv, LockInv, Crashed, threadVars

\* Whoever a request waits for can go on, or waits for one that can.
LEMMA HoldersRun == LocksInv => SomeRequestRuns
<1> SUFFICES ASSUME LocksInv, ~AllIdle, ~Crashed
             PROVE  \E t \in Threads : Runnable(t)
  BY DEF SomeRequestRuns
<1>1. TypeOK /\ LockInv
  BY DEF LocksInv, ExclusiveInv
<1>2. ASSUME appLock # NoThread PROVE \E t \in Threads : Runnable(t)
  <2>1. appLock \in Threads /\ pc[appLock] \in Locked
    BY <1>1, <1>2 DEF TypeOK, LockInv
  <2> QED
    BY <2>1 DEF Runnable, Locked
<1>3. ASSUME NEW t \in Threads, pc[t] \in Holding, appLock = NoThread
      PROVE  Runnable(t)
  BY <1>3 DEF Runnable, Holding
<1>4. PICK t \in Threads : pc[t] \notin {"idle", "dead"}
  BY DEF AllIdle, Crashed
<1>5. CASE pc[t] = "lock" /\ session[t] # NoSession
           /\ snLock[session[t]] # NoThread
  <2>1. PICK u \in Threads : u = snLock[session[t]]
    BY <1>1, <1>5 DEF TypeOK
  <2>2. pc[u] \in Holding
    BY <1>1, <1>5, <2>1 DEF TypeOK, LockInv
  <2> QED
    BY <1>2, <1>3, <2>2
<1>6. CASE ~(pc[t] = "lock" /\ session[t] # NoSession
             /\ snLock[session[t]] # NoThread)
  BY <1>2, <1>4, <1>6 DEF Runnable
<1> QED
  BY <1>5, <1>6

\* The invariant of the lock holders holds in every behaviour.
LEMMA Locks == Spec => []LocksInv
<1>1. LocksInv /\ [Next]_vars => LocksInv'
  BY NextSteps, LocksThread, LocksTimer
<1> QED
  BY <1>1, LocksInit, PTL DEF Spec

\* Whatever paths the requests of any number of threads take, one of those
\* under way can run its next part: there is no deadlock, and no lock is left
\* behind by a request that raised, terminated its session or failed to
\* restore it.
THEOREM NeverStuckCorrect == Spec => []SomeRequestRuns
  BY Locks, HoldersRun, PTL
-----------------------------------------------------------------------------
(***************************************************************************)
(* A request has finitely many parts: the handler's code may still create   *)
(* its session and terminate it, and everything else happens at most once.  *)
(***************************************************************************)
\* what the handler of thread t can still do to its session
handlerParts(t) ==
  IF ctxSession[t] = NoSession THEN 2
  ELSE IF ctxSession[t] \in isTerminating THEN 0 ELSE 1

\* the parts a request of thread t has at most ahead of it
partsLeft(t) ==
  IF pc[t] = "restore" THEN 14
  ELSE IF pc[t] = "attach" THEN 13
  ELSE IF pc[t] = "create" THEN 12
  ELSE IF pc[t] = "require" THEN 11
  ELSE IF pc[t] = "lock" THEN 10
  ELSE IF pc[t] = "handle" THEN 7 + handlerParts(t)
  ELSE IF pc[t] = "save" THEN 6
  ELSE IF pc[t] = "storeSession" THEN 5
  ELSE IF pc[t] \in {"storeInfo", "dropInfo"} THEN 4
  ELSE IF pc[t] = "unlock" THEN 3
  ELSE IF pc[t] = "sleep" THEN 2
  ELSE IF pc[t] = "finish" THEN 1
  ELSE 0

\* every part of a request but its arrival brings the thread nearer to its
\* end, and no step of anybody else takes the thread further from it
RequestsShrink ==
  \A t \in Threads :
    \/ Receive(t)
    \/ partsLeft(t)' < partsLeft(t)
    \/ partsLeft(t)' = partsLeft(t) /\ ~Step(t)

\* A part of the request of thread t leaves fewer of them.
LEMMA OwnPartsShrink ==
  ASSUME TypeOK, NEW t \in Threads, Step(t), ~Receive(t)
  PROVE  partsLeft(t)' < partsLeft(t)
<1> USE NoSessionAssumption
    DEF TypeOK, Goto, partsLeft, handlerParts, threadVars, sessionVars
<1>1. CASE Restore(t)
  BY <1>1 DEF Restore
<1>2. CASE AttachSession(t)
  BY <1>2 DEF AttachSession
<1>3. CASE CrashOnReleasedSession(t)
  BY <1>3 DEF CrashOnReleasedSession
<1>4. CASE RestorationFailed(t)
  BY <1>4 DEF RestorationFailed
<1>5. CASE AutocreateSession(t)
  BY <1>5 DEF AutocreateSession, InitializeSession
<1>6. CASE AutocreateFailed(t)
  BY <1>6 DEF AutocreateFailed
<1>7. CASE NoAutocreate(t)
  BY <1>7 DEF NoAutocreate
<1>8. CASE RequireSession(t)
  BY <1>8 DEF RequireSession
<1>9. CASE LockSession(t)
  BY <1>9 DEF LockSession
<1>10. CASE HandlerCreatesSession(t)
  BY <1>10 DEF HandlerCreatesSession, InitializeSession
<1>11. CASE HandlerTerminatesSession(t)
  BY <1>11 DEF HandlerTerminatesSession
<1>12. CASE HandlerReturns(t)
  BY <1>12 DEF HandlerReturns
<1>13. CASE HandlerRaises(t)
  BY <1>13 DEF HandlerRaises
<1>14. CASE SaveSession(t)
  BY <1>14 DEF SaveSession
<1>15. CASE StoreSession(t)
  BY <1>15 DEF StoreSession
<1>16. CASE StoreInfo(t)
  BY <1>16 DEF StoreInfo
<1>17. CASE UnlockSession(t)
  BY <1>17 DEF UnlockSession
<1>18. CASE SleepSession(t)
  BY <1>18 DEF SleepSession
<1>19. CASE Finish(t)
  BY <1>19 DEF Finish
<1> QED
  BY <1>1, <1>2, <1>3, <1>4, <1>5, <1>6, <1>7, <1>8, <1>9, <1>10,
     <1>11, <1>12, <1>13, <1>14, <1>15, <1>16, <1>17, <1>18, <1>19,
     Zenon DEF Step

\* It leaves no more of those of another thread.
LEMMA OtherPartsKept ==
  ASSUME TypeOK, NEW t \in Threads, Step(t), NEW u \in Threads, u # t
  PROVE  partsLeft(u)' < partsLeft(u) \/ partsLeft(u)' = partsLeft(u)
<1> USE NoSessionAssumption
    DEF TypeOK, Goto, partsLeft, handlerParts, threadVars, sessionVars
<1>1. CASE Receive(t)
  BY <1>1 DEF Receive
<1>2. CASE Restore(t)
  BY <1>2 DEF Restore
<1>3. CASE AttachSession(t)
  BY <1>3 DEF AttachSession
<1>4. CASE CrashOnReleasedSession(t)
  <2>1. pc'[u] = "dead"
    BY <1>4, Zenon DEF CrashOnReleasedSession
  <2>2. partsLeft(u)' = 0
    BY <2>1
  <2>3. partsLeft(u) \in Nat
    OBVIOUS
  <2>4. \A m, n \in Nat : n = 0 => n < m \/ n = m
    OBVIOUS
  <2> HIDE DEF partsLeft
  <2> QED
    BY <2>2, <2>3, <2>4
<1>5. CASE RestorationFailed(t)
  BY <1>5 DEF RestorationFailed
<1>6. CASE AutocreateSession(t)
  BY <1>6 DEF AutocreateSession, InitializeSession
<1>7. CASE AutocreateFailed(t)
  BY <1>7 DEF AutocreateFailed
<1>8. CASE NoAutocreate(t)
  BY <1>8 DEF NoAutocreate
<1>9. CASE RequireSession(t)
  BY <1>9 DEF RequireSession
<1>10. CASE LockSession(t)
  BY <1>10 DEF LockSession
<1>11. CASE HandlerCreatesSession(t)
  BY <1>11 DEF HandlerCreatesSession, InitializeSession
<1>12. CASE HandlerTerminatesSession(t)
  <2>1. /\ pc' = pc
        /\ ctxSession' = ctxSession
        /\ isTerminating \subseteq isTerminating'
    BY <1>12 DEF HandlerTerminatesSession
  <2> QED
    BY <2>1
<1>13. CASE HandlerReturns(t)
  BY <1>13 DEF HandlerReturns
<1>14. CASE HandlerRaises(t)
  BY <1>14 DEF HandlerRaises
<1>15. CASE SaveSession(t)
  BY <1>15 DEF SaveSession
<1>16. CASE StoreSession(t)
  BY <1>16 DEF StoreSession
<1>17. CASE StoreInfo(t)
  BY <1>17 DEF StoreInfo
<1>18. CASE UnlockSession(t)
  BY <1>18 DEF UnlockSession
<1>19. CASE SleepSession(t)
  BY <1>19 DEF SleepSession
<1>20. CASE Finish(t)
  BY <1>20 DEF Finish
<1> QED
  BY <1>1, <1>2, <1>3, <1>4, <1>5, <1>6, <1>7, <1>8, <1>9, <1>10,
     <1>11, <1>12, <1>13, <1>14, <1>15, <1>16, <1>17, <1>18, <1>19, <1>20,
     Zenon DEF Step

\* Nobody but the threads changes what they still have to do.
LEMMA TimerKeepsParts ==
  ASSUME \/ PerformExpirationCheck
         \/ CheckTermination
         \/ RefuseNewSessions
         \/ PassTime,
         NEW u \in Threads
  PROVE  partsLeft(u)' = partsLeft(u)
  BY DEF PerformExpirationCheck, CheckTermination, RefuseNewSessions, PassTime,
         requestVars, threadVars, sessionVars, partsLeft, handlerParts

\* A request runs through at most fourteen parts, whatever the other threads
\* and the timer do meanwhile: together with NeverStuckCorrect this is the
\* safety half of the claim that every request finishes.
THEOREM RequestsHaveFinitelyManyParts == Spec => [][RequestsShrink]_vars
<1>1. ASSUME TypeOK, Next, NEW u \in Threads
      PROVE  \/ Receive(u)
             \/ partsLeft(u)' < partsLeft(u)
             \/ partsLeft(u)' = partsLeft(u) /\ ~Step(u)
  <2>1. CASE Step(u)
    BY <1>1, <2>1, OwnPartsShrink
  <2>2. CASE ~Step(u)
    BY <1>1, <2>2, NextSteps, OtherPartsKept, TimerKeepsParts
  <2> QED
    BY <2>1, <2>2
<1>2. TypeOK /\ [Next]_vars => [RequestsShrink]_vars
  BY <1>1 DEF RequestsShrink
<1> QED
  BY <1>2, TypeCorrect, PTL DEF Spec
=============================================================================
