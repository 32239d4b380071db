--------------------------- MODULE WatchDogProofs ---------------------------
(***************************************************************************)
(* What the watchdog keeps for every set of pids, every fail limit and     *)
(* every number of signals.  The invariants rest on one picture of the     *)
(* loop: whoever is alive or a zombie is the process that fork() returned  *)
(* last, and "child" names it except between fork() and the assignment.    *)
(***************************************************************************)
EXTENDS WatchDog, FiniteSetTheorems, TLAPS

\* Nobody but the child forked last exists, none while the loop is at its top.
LastForked ==
    /\ alive \cup zombies \subseteq {newChild} \ {NoPid}
    /\ alive \cap zombies = {}
    /\ mainPc = "top" => newChild = NoPid

\* After the assignment child names the forked process, or a handler has
\* seen it die.
ChildKnown ==
    /\ mainPc \in {"assigned", "waiting"} => child = newChild \/ (child = NoPid /\ alive = {})
    /\ mainPc = "forked" /\ handler = "TERM" => orphaned

\* The counter the code keeps is never behind the failures seen in a row.
FailuresCounted == rapidFails <= failExitCount

Inductive ==
    /\ TypeOK /\ LastForked /\ ChildKnown /\ FailuresCounted
    /\ ExitCleansUp /\ RapidFailuresStop

\* The watchdog starts in the inductive invariant.
LEMMA WatchDogInit == Init => Inductive
<1> SUFFICES ASSUME Init
             PROVE  Inductive
  OBVIOUS
<1>1. TypeOK
  <2>1. failExitCount \in 0..(FailLimit + 2) /\ rapidFails \in 0..(FailLimit + 2)
    BY LimitAssumption DEF Init
  <2>2. signals \in 0..MaxSignals
    BY SignalsAssumption DEF Init
  <2> QED
    BY <2>1, <2>2, Zenon DEF Init, TypeOK, MainPcs
<1>2. LastForked
  BY DEF Init, LastForked
<1>3. ChildKnown /\ ExitCleansUp
  BY DEF Init, ChildKnown, ExitCleansUp
<1>4. FailuresCounted /\ RapidFailuresStop
  BY LimitAssumption DEF Init, FailuresCounted, RapidFailuresStop
<1> QED
  BY <1>1, <1>2, <1>3, <1>4 DEF Inductive

\* The bookkeeping after a death keeps the counters typed and in order, and
\* clears repeat when the last tolerated failure repeats.
LEMMA DeathCounted ==
  ASSUME failExitCount \in 0..(FailLimit + 2), rapidFails \in 0..(FailLimit + 2),
         repeat \in BOOLEAN, FailuresCounted,
         NEW st \in Deaths, AfterDeath(st)
  PROVE  /\ failExitCount' \in 0..(FailLimit + 2)
         /\ rapidFails' \in 0..(FailLimit + 2)
         /\ repeat' \in BOOLEAN
         /\ FailuresCounted'
         /\ rapidFails' > FailLimit + 1 => ~repeat'
<1>1. /\ failExitCount' \in 0..(FailLimit + 2)
      /\ rapidFails' \in 0..(FailLimit + 2)
      /\ FailuresCounted'
  BY LimitAssumption DEF AfterDeath, counted, FailuresCounted, Deaths
<1>2. repeat' \in BOOLEAN
  BY DEF AfterDeath
<1>3. ASSUME rapidFails' > FailLimit + 1
      PROVE  ~repeat'
  <2>1. st = "rapid" /\ rapidFails > FailLimit
    BY <1>3, LimitAssumption DEF AfterDeath, counted
  <2>2. failExitCount > FailLimit
    BY <2>1, LimitAssumption DEF FailuresCounted
  <2> QED
    BY <2>1, <2>2 DEF AfterDeath
<1> QED
  BY <1>1, <1>2, <1>3

\* Every step of the loop, of a handler and of the application keeps it.
LEMMA WatchDogStep == Inductive /\ [Next]_vars => Inductive'
<1> SUFFICES ASSUME Inductive, [Next]_vars
             PROVE  Inductive'
  OBVIOUS
<1> USE LimitAssumption, SignalsAssumption, PidAssumption
<1> USE DEF Inductive, TypeOK, LastForked, ChildKnown, FailuresCounted,
            ExitCleansUp, RapidFailuresStop, MainPcs, running
<1>1. CASE Fork
  BY <1>1 DEF Fork
<1>2. CASE ForkFails
  BY <1>2 DEF ForkFails, loopVars, kernelVars
<1>3. CASE AssignChild
  BY <1>3 DEF AssignChild, kernelVars
<1>4. CASE EnterWait
  BY <1>4 DEF EnterWait, kernelVars
<1>5. CASE WaitReaps
  <2>1. PICK st \in Deaths : AfterDeath(st)
    BY <1>5 DEF WaitReaps
  <2>2. /\ failExitCount' \in 0..(FailLimit + 2)
        /\ rapidFails' \in 0..(FailLimit + 2)
        /\ repeat' \in BOOLEAN
        /\ FailuresCounted'
        /\ rapidFails' > FailLimit + 1 => ~repeat'
    BY <2>1, DeathCounted
  <2>3. alive' = {} /\ zombies' = {}
    BY <1>5 DEF WaitReaps, awaited
  <2> QED
    BY <1>5, <2>2, <2>3 DEF WaitReaps, LeaveWait
<1>6. CASE WaitFails
  <2>1. alive = {} /\ zombies = {}
    BY <1>6 DEF WaitFails, awaited
  <2> QED
    BY <1>6, <2>1 DEF WaitFails, LeaveWait, kernelVars
<1>7. CASE LoopEnds
  BY <1>7 DEF LoopEnds, Exit, KilledChild
<1>8. CASE HandlerExits
  <2>1. alive' = {} \/ orphaned'
    BY <1>8 DEF HandlerExits, KilledChild
  <2> QED
    BY <1>8, <2>1 DEF HandlerExits, Exit, KilledChild
<1>9. CASE HandlerReturns
  BY <1>9 DEF HandlerReturns, KilledChild, loopVars
<1>10. CASE HandleSIGCHLD
  <2>1. /\ chldPending' \in BOOLEAN /\ zombies' = {}
        /\ UNCHANGED <<loopVars, handler, child, killedChild, alive, pidFile,
                       signals, orphaned>>
    BY <1>10 DEF HandleSIGCHLD
  <2> QED
    BY <2>1 DEF loopVars
<1>11. CASE ChildDies
  BY <1>11 DEF ChildDies, Die, loopVars
<1>12. CASE ChildTerminates
  BY <1>12 DEF ChildTerminates, Die, loopVars
<1>13. ASSUME NEW sig \in {"HUP", "TERM"}, ReceiveSignal(sig)
       PROVE  Inductive'
  <2>1. /\ orphaned' \in BOOLEAN
        /\ orphaned => orphaned'
        /\ sig = "TERM" /\ mainPc = "forked" => orphaned'
    BY <1>13, Zenon DEF ReceiveSignal
  <2>2. /\ handler' \in {handler, sig} /\ (handler' = "TERM" => "TERM" \in {handler, sig})
        /\ signals' \in 0..MaxSignals
        /\ UNCHANGED <<loopVars, child, killedChild, kernelVars, pidFile>>
        /\ mainPc # "exited"
    BY <1>13 DEF ReceiveSignal
  <2>3. ChildKnown'
    BY <2>1, <2>2 DEF loopVars, kernelVars
  <2>4. TypeOK' /\ ExitCleansUp'
    BY <2>1, <2>2 DEF loopVars, kernelVars
  <2> QED
    BY <2>2, <2>3, <2>4 DEF loopVars, kernelVars
<1>14. CASE UNCHANGED vars
  BY <1>14 DEF vars
<1> QED
  BY <1>1, <1>2, <1>3, <1>4, <1>5, <1>6, <1>7, <1>8, <1>9, <1>10, <1>11, <1>12,
     <1>13, <1>14 DEF Next, Main, Handlers, Done

\* What holds of every behaviour of the watchdog.
LEMMA WatchDogInductive == Spec => []Inductive
  BY WatchDogInit, WatchDogStep, PTL DEF Spec

\* The watchdog's variables keep their types and waitpid() never waits for a
\* process other than the one forked last.
THEOREM WatchDogTypeCorrect == Spec => []TypeOK
<1>1. Inductive => TypeOK
  BY DEF Inductive
<1> QED
  BY <1>1, WatchDogInductive, PTL

\* One application at a time: the loop forks only when nobody is left.
THEOREM OneChildCorrect == Spec => []AtMostOneChild
<1>1. Inductive => AtMostOneChild
  <2> SUFFICES ASSUME Inductive
               PROVE  Cardinality(alive) <= 1
    BY DEF AtMostOneChild
  <2>1. alive = {} \/ alive = {newChild}
    BY DEF Inductive, LastForked
  <2>2. Cardinality({}) = 0 /\ Cardinality({newChild}) = 1
    BY FS_EmptySet, FS_Singleton
  <2> QED
    BY <2>1, <2>2
<1> QED
  BY <1>1, WatchDogInductive, PTL

\* A watchdog that is gone has removed its pid file and its child, but for
\* the window between fork() and the assignment of its result.
THEOREM CleanExitCorrect == Spec => []ExitCleansUp
<1>1. Inductive => ExitCleansUp
  BY DEF Inductive
<1> QED
  BY <1>1, WatchDogInductive, PTL

\* The loop gives up after FailLimit + 2 rapid failures in a row.
THEOREM RapidFailuresCorrect == Spec => []RapidFailuresStop
<1>1. Inductive => RapidFailuresStop
  BY DEF Inductive
<1> QED
  BY <1>1, WatchDogInductive, PTL

-----------------------------------------------------------------------------
(* The way back to a running application: the safety half of               *)
(* ApplicationComesBack.                                                   *)

stepsToTop ==
    IF mainPc = "forked" THEN 3
    ELSE IF mainPc = "assigned" THEN 2
    ELSE IF mainPc = "waiting" THEN 1
    ELSE 0

\* What can still delay the next fork() of a watchdog whose child is gone: the
\* signals that may come and the handler each of them runs, the handler that is
\* running, a SIGCHLD, and the rest of the loop's round.
restartDistance ==
    2 * (MaxSignals - signals) + (IF handler = "none" THEN 0 ELSE 1)
        + (IF chldPending THEN 1 ELSE 0) + stepsToTop

gone == alive = {} /\ mainPc # "exited"

\* The step brings the next fork() nearer, or is a fork() that fails.
ComesNearer ==
    /\ restartDistance \in Nat /\ restartDistance' \in Nat
    /\ \/ restartDistance' < restartDistance
       \/ ForkFails /\ restartDistance' = restartDistance

LEMMA SignalsLeft == \A n \in 0..MaxSignals : n \in Nat /\ MaxSignals - n \in Nat
  BY SignalsAssumption

LEMMA StepComesNearer ==
    ASSUME Inductive, Inductive', Next, gone, gone'
    PROVE  ComesNearer
<1>1. TypeOK /\ TypeOK'
  BY DEF Inductive
<1>2. /\ restartDistance \in Nat /\ restartDistance' \in Nat
      /\ signals \in Nat /\ signals' \in Nat /\ MaxSignals \in Nat
      /\ stepsToTop \in Nat /\ stepsToTop' \in Nat
  <2>1. /\ MaxSignals - signals \in Nat /\ MaxSignals - signals' \in Nat
        /\ signals \in Nat /\ signals' \in Nat
    <3>1. signals \in 0..MaxSignals /\ signals' \in 0..MaxSignals
      BY <1>1 DEF TypeOK
    <3> QED
      BY <3>1, SignalsLeft, Zenon
  <2>2. stepsToTop \in Nat /\ stepsToTop' \in Nat
    BY DEF stepsToTop
  <2>3. restartDistance \in Nat
    BY <2>1, <2>2 DEF restartDistance
  <2>4. restartDistance' \in Nat
    BY <2>1, <2>2 DEF restartDistance
  <2> QED
    BY <2>1, <2>2, <2>3, <2>4, SignalsAssumption
<1> DEFINE h == IF handler = "none" THEN 0 ELSE 1
           c == IF chldPending THEN 1 ELSE 0
<1>3. /\ restartDistance = 2 * (MaxSignals - signals) + h + c + stepsToTop
      /\ restartDistance' = 2 * (MaxSignals - signals') + h' + c' + stepsToTop'
  BY DEF restartDistance
<1>4. CASE AssignChild \/ EnterWait \/ WaitReaps \/ WaitFails
  <2>1. UNCHANGED <<signals, handler, chldPending>>
    BY <1>4 DEF AssignChild, EnterWait, WaitReaps, WaitFails, kernelVars
  <2>2. stepsToTop' < stepsToTop
    BY <1>4 DEF AssignChild, EnterWait, WaitReaps, WaitFails, LeaveWait, stepsToTop
  <2>3. h' = h /\ c' = c /\ h \in Nat /\ c \in Nat
    BY <2>1
  <2> HIDE DEF h, c
  <2>4. PICK r \in Int : r = 2 * (MaxSignals - signals) + h + c
    BY <1>2, <2>3
  <2>5. restartDistance = r + stepsToTop /\ restartDistance' = r + stepsToTop'
    BY <1>3, <2>1, <2>3, <2>4
  <2>6. restartDistance' < restartDistance
    BY <1>2, <2>2, <2>4, <2>5
  <2> QED
    BY <1>2, <2>6 DEF ComesNearer
<1>5. CASE ForkFails
  <2>1. UNCHANGED <<signals, handler, chldPending, mainPc>>
    BY <1>5 DEF ForkFails, loopVars, kernelVars
  <2>2. stepsToTop' = stepsToTop /\ h' = h /\ c' = c
    BY <2>1 DEF stepsToTop
  <2>3. restartDistance' = restartDistance
    <3> HIDE DEF h, c
    <3> QED
      BY <1>3, <2>1, <2>2
  <2> QED
    BY <1>2, <1>5, <2>3 DEF ComesNearer
<1>6. CASE HandlerReturns
  <2>1. UNCHANGED <<signals, chldPending, mainPc>> /\ handler # "none" /\ handler' = "none"
    BY <1>6 DEF HandlerReturns, loopVars
  <2>2. stepsToTop' = stepsToTop /\ c' = c /\ c \in Nat /\ h = 1 /\ h' = 0
    BY <2>1 DEF stepsToTop
  <2> HIDE DEF h, c
  <2> QED
    BY <1>2, <1>3, <2>1, <2>2 DEF ComesNearer
<1>7. CASE HandleSIGCHLD
  <2>1. UNCHANGED <<signals, handler, mainPc>> /\ chldPending /\ ~chldPending'
    BY <1>7 DEF HandleSIGCHLD, loopVars
  <2>2. stepsToTop' = stepsToTop /\ h' = h /\ h \in Nat /\ c = 1 /\ c' = 0
    BY <2>1 DEF stepsToTop
  <2> HIDE DEF h, c
  <2> QED
    BY <1>2, <1>3, <2>1, <2>2 DEF ComesNearer
<1>8. ASSUME NEW sig \in {"HUP", "TERM"}, ReceiveSignal(sig) PROVE ComesNearer
  <2>1. UNCHANGED <<chldPending, mainPc>> /\ signals' = signals + 1
    BY <1>8 DEF ReceiveSignal, loopVars, kernelVars
  <2>2. stepsToTop' = stepsToTop /\ c' = c /\ c \in Nat /\ h \in Nat /\ h' \in 0..1
    BY <2>1 DEF stepsToTop
  <2> HIDE DEF h, c
  <2>3. PICK q \in Int : q = 2 * (MaxSignals - signals)
    BY <1>2
  <2>4. 2 * (MaxSignals - signals') = q - 2
    BY <1>2, <2>1, <2>3
  <2>5. restartDistance = q + h + c + stepsToTop
    BY <1>3, <2>3
  <2>6. restartDistance' = (q - 2) + h' + c + stepsToTop
    BY <1>3, <2>2, <2>4
  <2>7. restartDistance' < restartDistance
    <3>1. \A x \in Int, y \in 0..1, z, u, v \in Nat : (x - 2) + y + u + v < x + z + u + v
      OBVIOUS
    <3>2. (q - 2) + h' + c + stepsToTop < q + h + c + stepsToTop
      BY <1>2, <2>2, <3>1, Zenon
    <3> QED
      BY <2>5, <2>6, <3>2, Zenon
  <2> QED
    BY <1>2, <2>7 DEF ComesNearer
<1>9. ~(Fork \/ LoopEnds \/ HandlerExits \/ ChildDies \/ ChildTerminates \/ Done)
  BY PidAssumption
  DEF gone, Fork, LoopEnds, HandlerExits, Exit, ChildDies, ChildTerminates, Done
<1> QED
  BY <1>4, <1>5, <1>6, <1>7, <1>8, <1>9 DEF Next, Main, Handlers

\* As long as the application is gone, every step of the loop, of a handler or
\* of the kernel brings the next fork() or the watchdog's end nearer, whatever
\* the order in which SIGCHLD, SIGHUP and waitpid() come to know of the death;
\* only a fork() that fails leaves the distance as it is.
THEOREM RestartComesNearer == Spec => [][gone /\ gone' => ComesNearer]_vars
<1>1. Inductive /\ Inductive' /\ [Next]_vars => [gone /\ gone' => ComesNearer]_vars
  BY StepComesNearer
<1> QED
  BY <1>1, WatchDogInductive, PTL DEF Spec
=============================================================================
