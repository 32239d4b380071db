------------------------ MODULE ForkedWorkersProofs ------------------------
(***************************************************************************)
(* Proofs about ForkedWorkers for any number of workers, pids and failing  *)
(* forks: no worker is left out of the master's table, the master kills    *)
(* only its own workers, and all of them, and no death goes unnoticed.     *)
(***************************************************************************)
EXTENDS ForkedWorkers, TLAPS

inTable == {childPIDs[s] : s \in Slots}

\* The slots the master has not come to are empty.
Ahead == masterPc = "forking" => \A s \in Slots : s >= i => childPIDs[s] = Empty

\* A process is running, or dead, or neither.
Apart == alive \cap zombies = {}

\* As long as no fork() failed, the table names each worker once, and nothing
\* else: also while slots are being cleared.
Exact ==
    failedForks = 0 /\ masterPc # "gone" =>
        /\ \A s \in Slots : childPIDs[s] \in alive \cup zombies \cup {Empty}
        /\ \A s, t \in Slots : childPIDs[s] = childPIDs[t] /\ childPIDs[s] # Empty => s = t

Ended == tornDown => masterPc = "gone" /\ alive = {}

IInv == TypeOK /\ Ahead /\ Apart /\ Exact /\ Ended /\ KillsOnlyOwnChildren

LEMMA InitInductive == Init => IInv
  <1> SUFFICES ASSUME Init PROVE IInv
      OBVIOUS
  <1>1. emptyTable \in Table
      BY DEF emptyTable, Table
  <1>2. sigchld \in BOOLEAN /\ tornDown \in BOOLEAN
      BY Zenon DEF Init
  <1>3. TypeOK
      BY <1>1, <1>2, CountAssumption DEF Init, TypeOK
  <1> QED BY <1>3 DEF IInv, Init, Ahead, Apart, Exact, Ended, KillsOnlyOwnChildren, emptyTable

\* The pid fork() returns is nobody's, so the table stays exact.
LEMMA ForkInductive == IInv /\ Fork => IInv'
  <1> SUFFICES ASSUME IInv, Fork PROVE IInv'
      OBVIOUS
  <1>1. PICK p \in Pids \ (alive \cup zombies \cup foreign) :
           /\ childPIDs' = [childPIDs EXCEPT ![i] = p]
           /\ copies' = [copies EXCEPT ![p] = childPIDs]
           /\ alive' = alive \cup {p}
      BY DEF Fork
  <1>2. /\ masterPc = "forking" /\ masterPc' = masterPc /\ i \in Slots /\ i' = i + 1
        /\ UNCHANGED <<zombies, foreign, sigchld, tornDown, strayKills, failedForks>>
      BY DEF Fork, nextFork, Slots, IInv, TypeOK
  <1>3. childPIDs \in Table /\ childPIDs' \in Table /\ copies' \in [Pids -> Table]
      BY <1>1, <1>2 DEF IInv, TypeOK, Table
  <1>4. childPIDs'[i] = p /\ \A s \in Slots \ {i} : childPIDs'[s] = childPIDs[s]
      BY <1>1, <1>2, <1>3 DEF Table
  <1>5. childPIDs[i] = Empty
      BY <1>2, CountAssumption DEF IInv, Ahead, Slots
  <1>6. alive' \cup zombies' \subseteq {childPIDs'[s] : s \in Slots}
      <2> SUFFICES ASSUME NEW q \in alive' \cup zombies' PROVE \E s \in Slots : childPIDs'[s] = q
          OBVIOUS
      <2>1. CASE q = p
          BY <2>1, <1>2, <1>4
      <2>2. CASE q # p
          <3>1. q \in alive \cup zombies
              BY <1>1, <1>2, <2>2
          <3>2. PICK s \in Slots : childPIDs[s] = q
              BY <1>2, <3>1 DEF IInv, TypeOK
          <3>3. s # i
              BY <1>5, <3>1, <3>2, SlotAssumption DEF IInv, TypeOK
          <3> QED BY <1>4, <3>2, <3>3
      <2> QED BY <2>1, <2>2
  <1>7. TypeOK'
      BY <1>1, <1>2, <1>3, <1>6, CountAssumption DEF IInv, TypeOK, Slots
  <1>8. Ahead'
      BY <1>2, <1>4, CountAssumption DEF IInv, Ahead, Slots
  <1>9. Exact'
      BY <1>1, <1>2, <1>4 DEF IInv, Exact
  <1> QED BY <1>1, <1>2, <1>7, <1>8, <1>9
          DEF IInv, Apart, Ended, KillsOnlyOwnChildren

LEMMA ForkFailsInductive == IInv /\ ForkFails => IInv'
  <1> SUFFICES ASSUME IInv, ForkFails PROVE IInv'
      OBVIOUS
  <1>1. /\ masterPc = "forking" /\ masterPc' = masterPc /\ i \in Slots /\ i' = i + 1
        /\ childPIDs' = [childPIDs EXCEPT ![i] = Failed]
        /\ failedForks' \in 0..MaxForkFailures /\ failedForks' # 0
        /\ UNCHANGED <<copies, alive, zombies, foreign, sigchld, tornDown, strayKills>>
      BY CountAssumption DEF ForkFails, nextFork, Slots, IInv, TypeOK
  <1>2. childPIDs' \in Table /\ childPIDs \in Table
      BY <1>1 DEF IInv, TypeOK, Table
  <1>3. childPIDs[i] = Empty /\ \A s \in Slots \ {i} : childPIDs'[s] = childPIDs[s]
      BY <1>1, <1>2, CountAssumption DEF IInv, Ahead, Slots, Table
  <1>4. alive' \cup zombies' \subseteq {childPIDs'[s] : s \in Slots}
      <2> SUFFICES ASSUME NEW q \in alive \cup zombies PROVE \E s \in Slots : childPIDs'[s] = q
          BY <1>1
      <2>1. PICK s \in Slots : childPIDs[s] = q
          BY <1>1 DEF IInv, TypeOK
      <2>2. s # i
          BY <1>3, <2>1, SlotAssumption DEF IInv, TypeOK
      <2> QED BY <1>3, <2>1, <2>2
  <1>5. TypeOK'
      BY <1>1, <1>2, <1>4, CountAssumption DEF IInv, TypeOK, Slots
  <1>6. Ahead'
      BY <1>1, <1>3, CountAssumption DEF IInv, Ahead, Slots
  <1> QED BY <1>1, <1>5, <1>6 DEF IInv, Apart, Exact, Ended, KillsOnlyOwnChildren

\* Reaping takes a worker out of the world and, unless a slot holds the -1 of
\* a failed fork(), out of the table.
LEMMA CheckInductive == IInv /\ CheckStatusOfChildren => IInv'
  <1> SUFFICES ASSUME IInv, CheckStatusOfChildren PROVE IInv'
      OBVIOUS
  <1>1. /\ masterPc = "checking" /\ masterPc' = masterPc /\ i \in Slots /\ i' = i + 1
        /\ UNCHANGED <<copies, alive, foreign, sigchld, tornDown, strayKills, failedForks>>
      BY DEF CheckStatusOfChildren, CheckSlot, Slots, IInv, TypeOK
  <1>2. i' \in 1..(ForkCount + 1) /\ childPIDs \in Table
      BY <1>1, CountAssumption DEF Slots, IInv, TypeOK
  <1>3. CASE UNCHANGED <<childPIDs, zombies>>
      BY <1>1, <1>2, <1>3
      DEF IInv, TypeOK, Ahead, Apart, Exact, Ended, KillsOnlyOwnChildren
  <1>4. ASSUME NEW p \in waitable(childPIDs[i]),
               zombies' = zombies \ {p},
               childPIDs' = [childPIDs EXCEPT ![i] = Empty]
        PROVE  IInv'
      <2>1. childPIDs[i] \in {p, Failed} /\ p \in zombies /\ p \notin alive
          BY <1>4 DEF waitable, IInv, Apart
      <2>2. childPIDs' \in Table /\ childPIDs'[i] = Empty
            /\ \A s \in Slots \ {i} : childPIDs'[s] = childPIDs[s]
          BY <1>1, <1>2, <1>4 DEF Table
      <2>3. alive' \cup zombies' \subseteq {childPIDs'[s] : s \in Slots}
          <3> SUFFICES ASSUME NEW q \in alive' \cup zombies'
                       PROVE  \E s \in Slots : childPIDs'[s] = q
              OBVIOUS
          <3>1. q \in alive \cup zombies /\ q # p
              BY <1>1, <1>4, <2>1
          <3>2. PICK s \in Slots : childPIDs[s] = q
              BY <1>1, <3>1 DEF IInv, TypeOK
          <3>3. s # i
              BY <2>1, <3>1, <3>2, SlotAssumption DEF IInv, TypeOK
          <3> QED BY <2>2, <3>2, <3>3
      <2>4. TypeOK'
          BY <1>1, <1>2, <1>4, <2>2, <2>3 DEF IInv, TypeOK
      <2>5. Exact'
          <3> SUFFICES ASSUME failedForks = 0
                       PROVE  /\ \A s \in Slots : childPIDs'[s] \in alive' \cup zombies' \cup {Empty}
                              /\ \A s, t \in Slots :
                                    childPIDs'[s] = childPIDs'[t] /\ childPIDs'[s] # Empty => s = t
              BY <1>1 DEF Exact
          <3>1. /\ \A s \in Slots : childPIDs[s] \in alive \cup zombies \cup {Empty}
                /\ \A s, t \in Slots :
                      childPIDs[s] = childPIDs[t] /\ childPIDs[s] # Empty => s = t
              BY <1>1 DEF IInv, Exact
          <3>2. childPIDs[i] = p /\ p # Empty
              BY <1>1, <2>1, <3>1, SlotAssumption DEF IInv, TypeOK
          <3>3. \A s \in Slots \ {i} : childPIDs[s] # p
              BY <1>1, <3>1, <3>2
          <3> QED BY <1>1, <1>4, <2>2, <3>1, <3>3
      <2> QED BY <1>1, <1>4, <2>4, <2>5
              DEF IInv, Ahead, Apart, Ended, KillsOnlyOwnChildren
  <1> QED BY <1>3, <1>4 DEF CheckStatusOfChildren, CheckSlot

\* The table names every worker, so the teardown leaves none; and it names
\* nobody else.
LEMMA TearDownInductive == IInv /\ TearDown => IInv'
  <1> SUFFICES ASSUME IInv, TearDown PROVE IInv'
      OBVIOUS
  <1> DEFINE targets == inTable \ {Empty}
  <1>1. kills(TRUE, childPIDs) = targets
      BY DEF kills, inTable
  <1>2. /\ masterPc = "loop" /\ masterPc' = "gone" /\ i' = 1
        /\ alive' = alive \ victims(targets)
        /\ zombies' = {} /\ sigchld' = FALSE /\ tornDown' = TRUE
        /\ strayKills' = strayKills \cup (targets \ (alive \cup zombies))
        /\ UNCHANGED <<childPIDs, copies, foreign, failedForks>>
      BY <1>1 DEF TearDown, MasterGone
  <1>3. alive \cup zombies \subseteq targets
      BY <1>2, SlotAssumption DEF IInv, TypeOK, inTable
  <1>4. alive' = {}
      BY <1>2, <1>3 DEF victims, IInv, TypeOK
  <1>5. targets \subseteq Pids \cup {Failed}
      BY DEF inTable, IInv, TypeOK, Table
  <1>6. failedForks = 0 => strayKills' = {}
      BY <1>2 DEF IInv, Exact, KillsOnlyOwnChildren, inTable
  <1>7. sigchld' \in BOOLEAN /\ tornDown' \in BOOLEAN
      BY <1>2, Zenon
  <1>8. TypeOK'
      BY <1>2, <1>4, <1>5, <1>7, CountAssumption DEF IInv, TypeOK
  <1> QED BY <1>2, <1>4, <1>6, <1>8
          DEF IInv, Ahead, Apart, Exact, Ended, KillsOnlyOwnChildren

\* A worker asks whether it is the fork master and kills nobody.
LEMMA WorkerExitsInductive ==
    ASSUME IInv, NEW p \in Pids, WorkerExits(p)
    PROVE  IInv'
  <1>1. kills(FALSE, copies[p]) = {} /\ victims({}) = {}
      BY DEF kills, victims
  <1>2. /\ p \in alive /\ alive' = alive \ {p}
        /\ zombies' = IF masterPc = "gone" THEN {} ELSE zombies \cup {p}
        /\ UNCHANGED <<strayKills, childPIDs, masterPc, i, copies, foreign, tornDown, failedForks>>
      BY <1>1 DEF WorkerExits
  <1>3. sigchld' \in BOOLEAN
      BY Zenon DEF WorkerExits
  <1>4. masterPc # "gone" => alive' \cup zombies' = alive \cup zombies
      BY <1>2
  <1>5. TypeOK'
      BY <1>2, <1>3, <1>4 DEF IInv, TypeOK
  <1>6. Exact' /\ Apart'
      BY <1>2, <1>4 DEF IInv, Exact, Apart
  <1> QED BY <1>2, <1>5, <1>6 DEF IInv, Ahead, Ended, KillsOnlyOwnChildren

LEMMA NextInductive == IInv /\ [Next]_vars => IInv'
  <1> SUFFICES ASSUME IInv, [Next]_vars PROVE IInv'
      OBVIOUS
  <1> USE DEF TypeOK, Ahead, Apart, Exact, Ended, KillsOnlyOwnChildren
  <1>1. CASE ForkingDone \/ CheckDone \/ HandleSIGCHLD
      <2>1. sigchld' \in BOOLEAN
          BY <1>1, Zenon DEF ForkingDone, CheckDone, HandleSIGCHLD, IInv
      <2> QED BY <1>1, <2>1, CountAssumption DEF IInv, ForkingDone, CheckDone, HandleSIGCHLD
  <1>2. CASE AcceptExits
      <2>1. sigchld' \in BOOLEAN
          BY <1>2, Zenon DEF AcceptExits, MasterGone
      <2> QED BY <1>2, <2>1, CountAssumption DEF IInv, AcceptExits, MasterGone
  <1>3. ASSUME NEW p \in Pids, ReusePid(p) PROVE IInv'
      BY <1>3 DEF IInv, ReusePid
  <1>4. CASE UNCHANGED vars
      BY <1>4 DEF IInv, vars
  <1> QED BY <1>1, <1>2, <1>3, <1>4, ForkInductive, ForkFailsInductive, CheckInductive,
             TearDownInductive, WorkerExitsInductive
          DEF Next, Master, Done

LEMMA WorkersInductive == Spec => []IInv
  BY InitInductive, NextInductive, PTL DEF Spec

\* Every variable keeps its type, and no worker is missing in the table of a
\* master that is still there, whatever dies or fails to fork.
THEOREM WorkersTypeCorrect == Spec => []TypeOK
  <1>1. IInv => TypeOK
      BY DEF IInv
  <1> QED BY <1>1, WorkersInductive, PTL

\* With no failed fork() nobody but the master's own workers is ever killed,
\* also when pids are reused.
THEOREM KillsOnlyOwnChildrenCorrect == Spec => []KillsOnlyOwnChildren
  <1>1. IInv => KillsOnlyOwnChildren
      BY DEF IInv
  <1> QED BY <1>1, WorkersInductive, PTL

\* After the teardown no worker is left, failed forks or not.
THEOREM TearDownKillsAllCorrect == Spec => []TearDownKillsAll
  <1>1. IInv => TearDownKillsAll
      BY DEF IInv, Ended, TearDownKillsAll
  <1> QED BY <1>1, WorkersInductive, PTL

-----------------------------------------------------------------------------
(* No dead worker is forgotten: the safety half of DeadWorkersReaped.      *)

\* Of every dead worker the master still has a notice to come: a SIGCHLD that
\* waits for the run loop, or a slot that the running check has yet to reach.
NoWorkerForgotten ==
    masterPc # "gone" =>
        \A p \in zombies :
            \/ sigchld
            \/ masterPc = "checking" /\ \E s \in Slots : s >= i /\ childPIDs[s] = p

\* A slot behind the check is only left with its worker gone from zombies, also
\* when an earlier slot's -1 has taken that worker.
LEMMA CheckForgetsNobody ==
    IInv /\ NoWorkerForgotten /\ CheckStatusOfChildren => NoWorkerForgotten'
  <1> SUFFICES ASSUME IInv, NoWorkerForgotten, CheckStatusOfChildren,
                      ~sigchld, NEW q \in zombies'
               PROVE  \E s \in Slots : s >= i' /\ childPIDs'[s] = q
      BY DEF NoWorkerForgotten, CheckStatusOfChildren, CheckSlot
  <1>1. masterPc = "checking" /\ i \in Slots /\ i' = i + 1 /\ childPIDs \in Table
      BY DEF CheckStatusOfChildren, CheckSlot, Slots, IInv, TypeOK
  <1>2. q \in zombies
      BY DEF CheckStatusOfChildren, CheckSlot
  <1>3. PICK s \in Slots : s >= i /\ childPIDs[s] = q
      BY <1>1, <1>2 DEF NoWorkerForgotten
  <1>4. q \in Pids /\ q # Failed
      BY <1>2, SlotAssumption DEF IInv, TypeOK
  <1>5. s # i
      <2> SUFFICES ASSUME s = i PROVE FALSE
          OBVIOUS
      <2>1. waitable(childPIDs[i]) = {q}
          BY <1>2, <1>3, <1>4 DEF waitable
      <2> QED BY <2>1 DEF CheckStatusOfChildren, CheckSlot
  <1>6. childPIDs'[s] = q
      BY <1>1, <1>3, <1>5 DEF CheckStatusOfChildren, CheckSlot, Table
  <1> QED BY <1>1, <1>3, <1>5, <1>6 DEF Slots

LEMMA NobodyForgottenInductive ==
    IInv /\ NoWorkerForgotten /\ [Next]_vars => NoWorkerForgotten'
  <1> SUFFICES ASSUME IInv, NoWorkerForgotten, [Next]_vars PROVE NoWorkerForgotten'
      OBVIOUS
  <1> USE DEF NoWorkerForgotten
  <1>1. CASE Fork \/ ForkFails
      BY <1>1 DEF Fork, ForkFails, nextFork
  <1>2. CASE ForkingDone
      BY <1>2 DEF ForkingDone
  <1>3. CASE HandleSIGCHLD
      <2>1. masterPc = "loop" /\ i' = 1 /\ masterPc' = "checking" /\ UNCHANGED <<childPIDs, zombies>>
          BY <1>3 DEF HandleSIGCHLD
      <2>2. ASSUME NEW p \in zombies PROVE \E s \in Slots : s >= 1 /\ childPIDs[s] = p
          BY <2>1 DEF IInv, TypeOK, Slots
      <2> QED BY <2>1, <2>2
  <1>4. CASE CheckDone
      BY <1>4, CountAssumption DEF CheckDone, Slots, IInv, TypeOK
  <1>5. CASE TearDown \/ AcceptExits
      BY <1>5 DEF TearDown, AcceptExits, MasterGone
  <1>6. ASSUME NEW p \in Pids, WorkerExits(p) PROVE NoWorkerForgotten'
      BY <1>6 DEF WorkerExits
  <1>7. ASSUME NEW p \in Pids, ReusePid(p) PROVE NoWorkerForgotten'
      BY <1>7 DEF ReusePid
  <1>8. CASE UNCHANGED vars
      BY <1>8 DEF vars
  <1> QED BY <1>1, <1>2, <1>3, <1>4, <1>5, <1>6, <1>7, <1>8, CheckForgetsNobody
          DEF Next, Master, Done

\* SIGCHLDs coalesce and workers die in the middle of a check, behind the slot
\* it has reached: no dead worker is ever without a notice that is still to be
\* acted on, failed forks or not.  What DeadWorkersReaped adds is only that the
\* run loop goes on.
THEOREM NoWorkerForgottenCorrect == Spec => []NoWorkerForgotten
  <1>1. Init => NoWorkerForgotten
      BY DEF Init, NoWorkerForgotten
  <1> QED BY <1>1, NobodyForgottenInductive, WorkersInductive, PTL DEF Spec

\* When a check of the table ends with no further SIGCHLD waiting, there is no
\* dead worker left.
THEOREM CheckReapsAll == Spec => [][CheckDone /\ ~sigchld => zombies = {}]_vars
  <1>1. IInv /\ NoWorkerForgotten /\ [Next]_vars
            => [CheckDone /\ ~sigchld => zombies = {}]_vars
      BY CountAssumption DEF CheckDone, NoWorkerForgotten, Slots, IInv, TypeOK
  <1> QED BY <1>1, NoWorkerForgottenCorrect, WorkersInductive, PTL DEF Spec
=============================================================================
