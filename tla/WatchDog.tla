------------------------------ MODULE WatchDog ------------------------------
(***************************************************************************)
(* The watchdog process (NGObjWeb/WOWatchDogApplicationMain.m): a loop      *)
(* forks the application, waits for it and forks it again, while signal     *)
(* handlers interrupt the loop between any two steps and kill or reap the   *)
(* child behind its back.  signal() restarts interrupted system calls, so   *)
(* the loop's waitpid() goes on when a handler returns.                     *)
(***************************************************************************)
EXTENDS Integers, FiniteSets

CONSTANTS
    Pids,               \* process ids the kernel hands out
    NoPid,              \* the -1 of the static variable "child"
    FailLimit,          \* 20 in the code
    MaxSignals          \* bound: SIGHUP, SIGTERM and SIGINT sent to the watchdog

ASSUME LimitAssumption == FailLimit \in Nat
ASSUME SignalsAssumption == MaxSignals \in Nat
ASSUME PidAssumption == NoPid \notin Pids

VARIABLES
    mainPc,             \* where the loop is
    handler,            \* handler that is in killChild(): "none", "HUP", "TERM"
    newChild,           \* pid fork() returned, not yet assigned to child
    child, killedChild, repeat, failExitCount,  \* the program's variables
    waitFor,            \* argument of the loop's waitpid()
    alive, zombies,     \* children running, and dead but not waited for
    chldPending,        \* a SIGCHLD waits for delivery
    pidFile,            \* the pid file exists
    signals,            \* signals sent so far
    rapidFails,         \* rapid failures the loop saw in a row
    orphaned            \* a SIGTERM came between fork() and the assignment

vars == <<mainPc, handler, newChild, child, killedChild, repeat, failExitCount,
          waitFor, alive, zombies, chldPending, pidFile, signals, rapidFails,
          orphaned>>
kernelVars == <<alive, zombies, chldPending>>
loopVars == <<mainPc, newChild, repeat, failExitCount, waitFor, rapidFails>>

\* "fail": non-zero exit after three seconds and more, "rapid": sooner,
\* "rapidLate": sooner, but more than 120 seconds after the last failure.
Deaths == {"ok", "signal", "fail", "rapid", "rapidLate", "123"}
MainPcs == {"top", "forked", "assigned", "waiting", "exited"}

Init ==
    /\ mainPc = "top" /\ handler = "none" /\ newChild = NoPid
    /\ child = NoPid /\ killedChild = FALSE /\ repeat = TRUE
    /\ failExitCount = 0
    /\ waitFor = NoPid
    /\ alive = {} /\ zombies = {} /\ chldPending = FALSE
    /\ pidFile = TRUE
    /\ signals = 0 /\ rapidFails = 0 /\ orphaned = FALSE

running == handler = "none" /\ mainPc # "exited"

-----------------------------------------------------------------------------
(* The loop                                                                *)

Fork ==
    /\ running /\ mainPc = "top" /\ repeat
    /\ killedChild' = FALSE
    /\ \E p \in Pids \ (alive \cup zombies) :
        /\ alive' = alive \cup {p}
        /\ newChild' = p
    /\ mainPc' = "forked"
    /\ UNCHANGED <<handler, child, repeat, failExitCount, waitFor, zombies,
                   chldPending, pidFile, signals, rapidFails, orphaned>>

\* fork() fails: the loop sleeps a second, later a minute, and tries again.
ForkFails ==
    /\ running /\ mainPc = "top" /\ repeat
    /\ killedChild' = FALSE
    /\ child' = NoPid
    /\ UNCHANGED <<handler, loopVars, kernelVars, pidFile, signals, orphaned>>

\* Mutant: a child that is set already is kept.
AssignChildOnce ==
    /\ running /\ mainPc = "forked"
    /\ child' = IF child = NoPid THEN newChild ELSE child
    /\ mainPc' = "assigned"
    /\ UNCHANGED <<handler, newChild, killedChild, repeat, failExitCount, waitFor,
                   kernelVars, pidFile, signals, rapidFails, orphaned>>

AssignChild ==
    /\ running /\ mainPc = "forked"
    /\ child' = newChild
    /\ mainPc' = "assigned"
    /\ UNCHANGED <<handler, newChild, killedChild, repeat, failExitCount, waitFor,
                   kernelVars, pidFile, signals, rapidFails, orphaned>>

\* waitpid(child, &status, 0) with the value child has now; -1 waits for any.
EnterWait ==
    /\ running /\ mainPc = "assigned"
    /\ waitFor' = child
    /\ mainPc' = "waiting"
    /\ UNCHANGED <<handler, newChild, child, killedChild, repeat, failExitCount,
                   kernelVars, pidFile, signals, rapidFails, orphaned>>

awaited == {p \in Pids : waitFor \in {p, NoPid}}

\* Only "> FailLimit" is asked of the counter: it saturates beyond.
counted(n) == IF n > FailLimit + 1 THEN n ELSE n + 1

\* Mutant: failures are not counted.
AfterDeathUncounted(st) ==
    /\ failExitCount' = failExitCount
    /\ rapidFails' = IF st = "rapid" THEN counted(rapidFails) ELSE 0
    /\ repeat' = (repeat /\ st # "123")

\* What the loop does with the status of a dead child.
AfterDeath(st) ==
    /\ failExitCount' =
         CASE st = "ok"                                     -> failExitCount
           [] st = "rapidLate" /\ failExitCount > 0         -> 1
           [] OTHER                                         -> counted(failExitCount)
    /\ rapidFails' = IF st = "rapid" THEN counted(rapidFails) ELSE 0
    /\ repeat' = /\ repeat
                 /\ st # "123"
                 /\ ~(st = "rapid" /\ failExitCount > FailLimit)

LeaveWait == mainPc' = "top" /\ newChild' = NoPid /\ waitFor' = NoPid

\* How the child died is decided here: nobody looked at its status before.
WaitReaps ==
    /\ running /\ mainPc = "waiting"
    /\ \E p \in awaited \cap zombies : zombies' = zombies \ {p}
    /\ \E st \in Deaths : AfterDeath(st)
    /\ LeaveWait
    /\ UNCHANGED <<handler, child, killedChild, alive, chldPending, pidFile,
                   signals, orphaned>>

\* Mutant: killedChild decides before waitpid() did.
WaitFailsWhenKilled ==
    /\ running /\ mainPc = "waiting"
    /\ killedChild \/ awaited \cap (alive \cup zombies) = {}
    /\ killedChild' = FALSE
    /\ LeaveWait
    /\ UNCHANGED <<handler, child, repeat, failExitCount, kernelVars,
                   pidFile, signals, rapidFails, orphaned>>

\* Mutant: only a child killed by a handler is replaced after ECHILD.
WaitFailsOnlyKilled ==
    /\ running /\ mainPc = "waiting"
    /\ killedChild /\ awaited \cap (alive \cup zombies) = {}
    /\ killedChild' = FALSE
    /\ LeaveWait
    /\ UNCHANGED <<handler, child, repeat, failExitCount, kernelVars,
                   pidFile, signals, rapidFails, orphaned>>

\* A handler took the status: waitpid() fails, the loop goes on uncounted.
WaitFails ==
    /\ running /\ mainPc = "waiting"
    /\ awaited \cap (alive \cup zombies) = {}
    /\ killedChild' = FALSE
    /\ LeaveWait
    /\ UNCHANGED <<handler, child, repeat, failExitCount, kernelVars,
                   pidFile, signals, rapidFails, orphaned>>

\* killChild() waited for the child; kill() and waitpid() on a pid that was
\* reaped before fail and end up the same way.
KilledChild ==
    /\ child \notin alive
    /\ zombies' = zombies \ {child}
    /\ child' = NoPid

\* exit(): exitWatchdog() removes the pid file (its killChild() comes with
\* the actions that exit).
Exit ==
    /\ mainPc' = "exited"
    /\ handler' = "none"
    /\ pidFile' = FALSE

LoopEnds ==
    /\ running /\ mainPc = "top" /\ ~repeat
    /\ KilledChild
    /\ killedChild' = (killedChild \/ child # NoPid)
    /\ Exit
    /\ UNCHANGED <<newChild, repeat, failExitCount, waitFor, alive, chldPending,
                   signals, rapidFails, orphaned>>

-----------------------------------------------------------------------------
(* The signal handler                                                      *)

\* SIGHUP, or SIGTERM and SIGINT (as one), enter killChild(), which sends
\* SIGTERM to the process named by child.
ReceiveSignal(sig) ==
    /\ mainPc # "exited" /\ signals < MaxSignals
    /\ signals' = signals + 1
    /\ handler' = IF handler = "TERM" THEN "TERM" ELSE sig
    /\ orphaned' = (orphaned \/ (sig = "TERM" /\ mainPc = "forked"))
    /\ UNCHANGED <<loopVars, child, killedChild, kernelVars, pidFile>>

\* Mutant: SIGTERM ends the watchdog at once.
HandlerExitsWithoutKill ==
    /\ handler = "TERM"
    /\ Exit
    /\ killedChild' = (killedChild \/ child # NoPid)
    /\ UNCHANGED <<child, zombies, newChild, repeat, failExitCount, waitFor, alive,
                   chldPending, signals, rapidFails, orphaned>>

HandlerExits ==
    /\ handler = "TERM"
    /\ KilledChild
    /\ killedChild' = (killedChild \/ child # NoPid)
    /\ Exit
    /\ UNCHANGED <<newChild, repeat, failExitCount, waitFor, alive,
                   chldPending, signals, rapidFails, orphaned>>

HandlerReturns ==
    /\ handler = "HUP"
    /\ KilledChild
    /\ killedChild' = TRUE
    /\ handler' = "none"
    /\ UNCHANGED <<loopVars, alive, chldPending, pidFile, signals,
                   orphaned>>

\* SIGCHLD: reap whatever is dead.  A waitpid() that is under way is served
\* by the kernel first.
HandleSIGCHLD ==
    /\ mainPc # "exited" /\ chldPending
    /\ ~(mainPc = "waiting" /\ handler = "none" /\ awaited \cap zombies # {})
    /\ chldPending' = FALSE
    /\ zombies' = {}
    /\ UNCHANGED <<loopVars, handler, child, killedChild, alive, pidFile,
                   signals, orphaned>>

-----------------------------------------------------------------------------
(* The application                                                         *)

Die(p) ==
    /\ alive' = alive \ {p}
    /\ zombies' = zombies \cup {p}
    /\ chldPending' = TRUE
    /\ UNCHANGED <<loopVars, handler, child, killedChild, pidFile, signals, orphaned>>

\* The application ends or crashes by itself.
ChildDies ==
    /\ mainPc # "exited"
    /\ \E p \in alive : Die(p)

\* It follows the SIGTERM of killChild().
ChildTerminates ==
    /\ handler # "none" /\ child \in alive
    /\ Die(child)

Main == Fork \/ ForkFails \/ AssignChild \/ EnterWait \/ WaitReaps \/ WaitFails
            \/ LoopEnds
Handlers == HandlerExits \/ HandlerReturns \/ HandleSIGCHLD

Done == mainPc = "exited" /\ UNCHANGED vars

Next ==
    \/ Main \/ Handlers \/ ChildDies \/ ChildTerminates
    \/ \E sig \in {"HUP", "TERM"} : ReceiveSignal(sig)
    \/ Done

Spec == Init /\ [][Next]_vars

\* The kernel schedules the watchdog, lets fork() succeed after a while,
\* delivers pending signals, and the application obeys SIGTERM
\* (WOCoreApplication handles it).
FairSpec ==
    /\ Spec
    /\ WF_vars(Fork) /\ WF_vars(AssignChild) /\ WF_vars(EnterWait)
    /\ WF_vars(WaitReaps \/ WaitFails) /\ WF_vars(LoopEnds)
    /\ WF_vars(ChildTerminates)
    /\ WF_vars(HandlerExits) /\ WF_vars(HandlerReturns) /\ WF_vars(HandleSIGCHLD)

-----------------------------------------------------------------------------
(* Properties                                                              *)

\* Every variable keeps its type, and waitpid() waits for the child that the
\* loop forked last or for any.
TypeOK ==
    /\ mainPc \in MainPcs /\ handler \in {"none", "HUP", "TERM"}
    /\ newChild \in Pids \cup {NoPid} /\ child \in Pids \cup {NoPid}
    /\ waitFor \in Pids \cup {NoPid}
    /\ killedChild \in BOOLEAN /\ repeat \in BOOLEAN /\ pidFile \in BOOLEAN
    /\ chldPending \in BOOLEAN /\ orphaned \in BOOLEAN
    /\ failExitCount \in 0..(FailLimit + 2) /\ rapidFails \in 0..(FailLimit + 2)
    /\ alive \subseteq Pids /\ zombies \subseteq Pids
    /\ signals \in 0..MaxSignals
    /\ mainPc = "waiting" => waitFor \in {newChild, NoPid}

\* Two applications never run (and bind the port) at the same time, whichever
\* signals interrupt the loop and whoever reaps the child.
AtMostOneChild == Cardinality(alive) <= 1

\* When the watchdog is gone so are its pid file and its child, unless the
\* SIGTERM hit the few instructions between fork() and "child = ...".
ExitCleansUp ==
    mainPc = "exited" => ~pidFile /\ (alive = {} \/ orphaned)

\* "already failed ... times ..., stopping watchdog" (384-388): the loop does
\* not go on after FailLimit + 2 rapid failures in a row that it has seen.
RapidFailuresStop ==
    rapidFails > FailLimit + 1 => ~repeat \/ mainPc = "exited"

\* Whenever the application is gone, a new one is started or the watchdog
\* ends: no order of SIGCHLD, SIGHUP and child deaths leaves the loop waiting.
ApplicationComesBack ==
    (alive = {} /\ mainPc # "exited") ~> (alive # {} \/ mainPc = "exited")
=============================================================================
