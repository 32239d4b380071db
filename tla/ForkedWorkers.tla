--------------------------- MODULE ForkedWorkers ---------------------------
(***************************************************************************)
(* The preforking HTTP adaptor (NGObjWeb/WOHttpAdaptor/WOHttpAdaptor.m):   *)
(* the master forks its workers after listen(), remembers their pids in    *)
(* childPIDs, clears the slots of the dead ones when a SIGCHLD is notified *)
(* and kills the rest when the adaptor is torn down.  Every worker runs    *)
(* the same code on its own copy of the table.  The signal is delivered to *)
(* the run loop as libFoundation does it; UnixSignalHandler.tla is about   *)
(* the other Foundation libraries.                                         *)
(***************************************************************************)
EXTENDS Naturals, FiniteSets

CONSTANTS
    Pids,               \* process ids
    ForkCount,          \* WOHttpAdaptorForkCount
    MaxForkFailures,    \* bound: failing fork() calls
    Empty, Failed       \* the slot values 0 and -1

ASSUME CountAssumption == ForkCount \in Nat \ {0} /\ MaxForkFailures \in Nat
ASSUME SlotAssumption == Empty \notin Pids /\ Failed \notin Pids /\ Empty # Failed

VARIABLES
    childPIDs,      \* the master's table
    masterPc,       \* "forking", "loop", "checking" or "gone"
    i,              \* loop variable of the master
    copies,         \* [pid -> the worker's copy of the table]
    alive, zombies, \* workers running, and dead but not waited for
    foreign,        \* pids of processes that are not ours
    sigchld,        \* a SIGCHLD waits for the run loop
    tornDown,       \* the master went through unregisterForEvents
    strayKills,     \* what was killed and is not a worker of the killer
    failedForks     \* fork() calls that failed

vars == <<childPIDs, masterPc, i, copies, alive, zombies, foreign, sigchld,
          tornDown, strayKills, failedForks>>

Slots == 1..ForkCount
Table == [Slots -> Pids \cup {Empty, Failed}]
emptyTable == [s \in Slots |-> Empty]

Init ==
    /\ childPIDs = emptyTable
    /\ masterPc = "forking" /\ i = 1
    /\ copies = [p \in Pids |-> emptyTable]
    /\ alive = {} /\ zombies = {} /\ foreign = {}
    /\ sigchld = FALSE /\ tornDown = FALSE /\ strayKills = {}
    /\ failedForks = 0

-----------------------------------------------------------------------------
(* forkChildren                                                            *)

nextFork == i' = i + 1 /\ UNCHANGED masterPc

Fork ==
    /\ masterPc = "forking" /\ i <= ForkCount
    /\ \E p \in Pids \ (alive \cup zombies \cup foreign) :
        /\ childPIDs' = [childPIDs EXCEPT ![i] = p]
        /\ copies' = [copies EXCEPT ![p] = childPIDs]
        /\ alive' = alive \cup {p}
    /\ nextFork
    /\ UNCHANGED <<zombies, foreign, sigchld, tornDown, strayKills, failedForks>>

\* "failed to fork child %i.": the slot keeps the -1.
ForkFails ==
    /\ masterPc = "forking" /\ i <= ForkCount /\ failedForks < MaxForkFailures
    /\ failedForks' = failedForks + 1
    /\ childPIDs' = [childPIDs EXCEPT ![i] = Failed]
    /\ nextFork
    /\ UNCHANGED <<copies, alive, zombies, foreign, sigchld, tornDown, strayKills>>

ForkingDone ==
    /\ masterPc = "forking" /\ i > ForkCount
    /\ masterPc' = "loop" /\ i' = 1
    /\ UNCHANGED <<childPIDs, copies, alive, zombies, foreign, sigchld, tornDown,
                   strayKills, failedForks>>

-----------------------------------------------------------------------------
(* checkStatusOfChildren                                                   *)

HandleSIGCHLD ==
    /\ masterPc = "loop" /\ sigchld
    /\ sigchld' = FALSE
    /\ masterPc' = "checking" /\ i' = 1
    /\ UNCHANGED <<childPIDs, copies, alive, zombies, foreign, tornDown, strayKills,
                   failedForks>>

\* Whom waitpid(slot, &status, WNOHANG) can return; -1 stands for any child.
waitable(slot) == zombies \cap (IF slot = Failed THEN Pids ELSE {slot})

\* Mutant: a running child's slot is cleared too.
CheckSlotUnconditionally ==
    /\ childPIDs' = [childPIDs EXCEPT ![i] = Empty]
    /\ zombies' = zombies \ waitable(childPIDs[i])
    /\ i' = i + 1 /\ UNCHANGED masterPc

\* Mutant: the check ends at the first running child.
CheckSlotUntilRunning ==
    \/ \E p \in waitable(childPIDs[i]) :
        /\ zombies' = zombies \ {p}
        /\ childPIDs' = [childPIDs EXCEPT ![i] = Empty]
        /\ i' = i + 1 /\ UNCHANGED masterPc
    \/ /\ waitable(childPIDs[i]) = {}
       /\ IF childPIDs[i] \in alive
          THEN masterPc' = "loop" /\ i' = 1
          ELSE i' = i + 1 /\ UNCHANGED masterPc
       /\ UNCHANGED <<childPIDs, zombies>>

\* A terminated child is reaped and its slot cleared; a slot that is empty,
\* whose child runs or whose waitpid() fails stays as it is.
CheckSlot ==
    /\ \/ \E p \in waitable(childPIDs[i]) :
            /\ zombies' = zombies \ {p}
            /\ childPIDs' = [childPIDs EXCEPT ![i] = Empty]
       \/ waitable(childPIDs[i]) = {} /\ UNCHANGED <<childPIDs, zombies>>
    /\ i' = i + 1 /\ UNCHANGED masterPc

CheckStatusOfChildren ==
    /\ masterPc = "checking" /\ i <= ForkCount
    /\ CheckSlot
    /\ UNCHANGED <<copies, alive, foreign, sigchld, tornDown, strayKills, failedForks>>

CheckDone ==
    /\ masterPc = "checking" /\ i > ForkCount
    /\ masterPc' = "loop" /\ i' = 1
    /\ UNCHANGED <<childPIDs, copies, alive, zombies, foreign, sigchld, tornDown,
                   strayKills, failedForks>>

-----------------------------------------------------------------------------
(* killChildren, at the end of the master and of a worker                   *)

\* Mutant: the process does not ask whether it is the fork master.
killsAlways(isForkMaster, table) == {table[s] : s \in Slots} \ {Empty}

\* Mutant: the last slot is left out.
killsButLast(isForkMaster, table) ==
    IF isForkMaster THEN {table[s] : s \in Slots \ {ForkCount}} \ {Empty} ELSE {}

\* Arguments of the kill() calls.
kills(isForkMaster, table) ==
    IF isForkMaster THEN {table[s] : s \in Slots} \ {Empty} ELSE {}

\* kill(-1, SIGKILL) takes every process the user may signal.
victims(targets) == IF Failed \in targets THEN Pids ELSE targets

\* The dead workers of a master that is gone are init's.
MasterGone(dead) ==
    /\ masterPc' = "gone" /\ i' = 1
    /\ alive' = alive \ dead
    /\ zombies' = {} /\ sigchld' = FALSE
    /\ UNCHANGED <<childPIDs, copies, foreign, failedForks>>

\* unregisterForEvents, when the run loop has ended.
TearDown ==
    /\ masterPc = "loop"
    /\ LET targets == kills(TRUE, childPIDs) IN
        /\ MasterGone(victims(targets))
        /\ strayKills' = strayKills \cup (targets \ (alive \cup zombies))
    /\ tornDown' = TRUE

\* acceptConnection: calls exit(0) when the request it ran has terminated the
\* application; the run loop, and the teardown after it, are not reached.
AcceptExits ==
    /\ masterPc = "loop"
    /\ MasterGone({})
    /\ UNCHANGED <<tornDown, strayKills>>

\* A worker's own end: crash, or the same teardown on its copy of the table.
WorkerExits(p) ==
    /\ p \in alive
    /\ LET targets == kills(FALSE, copies[p]) IN
        /\ alive' = alive \ ({p} \cup victims(targets))
        /\ zombies' = IF masterPc = "gone" THEN {}
                      ELSE zombies \cup ({p} \cup (victims(targets) \cap alive))
        /\ strayKills' = strayKills \cup targets
    /\ sigchld' = (masterPc # "gone")
    /\ UNCHANGED <<childPIDs, masterPc, i, copies, foreign, tornDown, failedForks>>

\* Somebody else's process gets a pid that is free.
ReusePid(p) ==
    /\ p \notin alive \cup zombies \cup foreign
    /\ masterPc = "loop"
    /\ foreign' = foreign \cup {p}
    /\ UNCHANGED <<childPIDs, masterPc, i, copies, alive, zombies, sigchld, tornDown,
                   strayKills, failedForks>>

Done == masterPc = "gone" /\ alive = {} /\ UNCHANGED vars

Master ==
    Fork \/ ForkFails \/ ForkingDone \/ HandleSIGCHLD \/ CheckStatusOfChildren
        \/ CheckDone

Next ==
    \/ Master \/ TearDown \/ AcceptExits \/ Done
    \/ \E p \in Pids : WorkerExits(p) \/ ReusePid(p)

Spec == Init /\ [][Next]_vars

\* The master's run loop runs; nobody has to die or to terminate.
FairSpec == Spec /\ WF_vars(Master)

-----------------------------------------------------------------------------
(* Properties                                                              *)

\* Every variable keeps its type, and no worker is left out of the table of
\* a master that is still there.
TypeOK ==
    /\ childPIDs \in Table /\ copies \in [Pids -> Table]
    /\ masterPc \in {"forking", "loop", "checking", "gone"} /\ i \in 1..(ForkCount + 1)
    /\ alive \subseteq Pids /\ zombies \subseteq Pids /\ foreign \subseteq Pids
    /\ sigchld \in BOOLEAN /\ tornDown \in BOOLEAN
    /\ strayKills \subseteq Pids \cup {Failed} /\ failedForks \in 0..MaxForkFailures
    /\ masterPc # "gone" => alive \cup zombies \subseteq {childPIDs[s] : s \in Slots}

\* SIGKILL only reaches workers of the sender: no worker kills its siblings,
\* no pid is killed after its slot should have been cleared, and nobody else's
\* process is hit.  A failed fork() voids this: its slot holds -1, which kill()
\* takes for every process and waitpid() for any child, whose own slot then
\* keeps a pid that others may get.
KillsOnlyOwnChildren == failedForks = 0 => strayKills = {}

\* After an orderly teardown no worker is left behind on the listening socket.
TearDownKillsAll == tornDown => alive = {}

\* Signals coalesce, and workers die while the table is being checked: still
\* every dead worker is reaped as long as the master lives.
DeadWorkersReaped ==
    \A p \in Pids : (p \in zombies) ~> (p \notin zombies)
=============================================================================
