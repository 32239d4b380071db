------------------------ MODULE ChannelManagerProofs ------------------------
(***************************************************************************)
(* Proofs about the channel pool for any number of channels and databases  *)
(* and any expiration age, timer and connection limit; what an exception   *)
(* loses of it, and from which limit on none is raised.                    *)
(***************************************************************************)
EXTENDS ChannelManager, FiniteSetTheorems, TLAPS

\* An operation that acquires knows its URLs; an idle one holds nothing.
OperationOK ==
    /\ phase \in {"acquireStore", "acquireQuick"} => location \in URLs
    /\ phase = "acquireQuick" => quickLocation \in URLs
    /\ phase = "idle" => held = {}

\* What the clock and the timer guarantee: the timer is late by at most the
\* operation that runs, and a pooled channel was young enough at the last
\* collection.
TimerOK ==
    /\ lastCollect <= now
    /\ phase = "idle" => now <= lastCollect + ChannelCollectionTimer + MaxOperationTime
    /\ phase # "idle" => /\ started < lastCollect + ChannelCollectionTimer
                         /\ started <= now /\ now <= started + MaxOperationTime
    /\ \A ch \in availableChannels :
          lastCollect <= creationTime[ch] + ChannelExpireAge

IInv == TypeOK /\ OperationOK /\ PoolAccounted /\ TimerOK

\* The empty pool satisfies the invariant.
LEMMA PoolInit == Init => IInv
  BY AgeAssumption, TimerAssumption, TimeAssumption
  DEF Init, IInv, TypeOK, Phases, OperationOK, PoolAccounted, TimerOK

\* The wanted URL of an acquiring operation is a URL.
LEMMA WantedURL ==
    ASSUME OperationOK, phase \in {"acquireStore", "acquireQuick"}
    PROVE  wanted \in URLs
  BY DEF OperationOK, wanted

\* Every step keeps the types and what is known about the operation.
LEMMA StepTypes == TypeOK /\ OperationOK /\ PoolAccounted /\ [Next]_vars =>
                       TypeOK' /\ OperationOK'
  <1> SUFFICES ASSUME TypeOK, OperationOK, PoolAccounted, [Next]_vars
               PROVE  TypeOK' /\ OperationOK'
      OBVIOUS
  <1> USE DEF Phases, poolVars, timeVars
  <1>1. ASSUME NEW loc \in URLs, NEW qloc \in URLs \cup {NoURL},
               StartOperation(loc, qloc)
        PROVE  TypeOK' /\ OperationOK'
      BY <1>1 DEF StartOperation, TypeOK, OperationOK
  <1>2. CASE ReuseChannel
      <2>1. PICK ch \in findAvailChannelHandle(wanted) :
                /\ availableChannels' = availableChannels \ {ch}
                /\ Acquired(ch)
          BY <1>2 DEF ReuseChannel
      <2>2. ch \in availableChannels
          BY <2>1 DEF findAvailChannelHandle
      <2> QED
          BY <1>2, <2>1, <2>2, NoURLAssumption
          DEF ReuseChannel, Acquired, afterAcquire, TypeOK, OperationOK
  <1>3. CASE CreateChannel
      <2>1. PICK ch \in Channels \ (availableChannels \cup busyChannels) :
                /\ open' = open \cup {ch}
                /\ handleURL' = [handleURL EXCEPT ![ch] = wanted]
                /\ creationTime' = [creationTime EXCEPT ![ch] = now]
                /\ Acquired(ch)
          BY <1>3 DEF CreateChannel
      <2>2. wanted \in URLs
          BY <1>3, WantedURL DEF CreateChannel, needsNewChannel
      <2> QED
          BY <1>3, <2>1, <2>2, NoURLAssumption
          DEF CreateChannel, needsNewChannel, Acquired, afterAcquire, TypeOK,
              OperationOK
  <1>4. CASE OpenFails
      BY <1>4 DEF OpenFails, needsNewChannel, TypeOK, OperationOK
  <1>5. CASE NoMoreConnections
      BY <1>5 DEF NoMoreConnections, needsNewChannel, TypeOK, OperationOK
  <1>6. CASE CloseHeldChannel
      BY <1>6 DEF CloseHeldChannel, TypeOK, OperationOK
  <1>7. CASE OperationDone
      BY <1>7 DEF OperationDone, TypeOK, OperationOK
  <1>8. CASE ReleaseChannel
      BY <1>8 DEF ReleaseChannel, Deallocate, TypeOK, OperationOK, PoolAccounted
  <1>9. CASE OperationReturns
      BY <1>9 DEF OperationReturns, TypeOK, OperationOK
  <1>10. CASE GarbageCollect
      BY <1>10
      DEF GarbageCollect, Deallocate, toCollect, TypeOK, OperationOK, PoolAccounted
  <1>11. CASE Tick
      BY <1>11 DEF Tick, TypeOK, OperationOK
  <1>12. CASE UNCHANGED vars
      BY <1>12 DEF vars, TypeOK, OperationOK
  <1> QED
      BY <1>1, <1>2, <1>3, <1>4, <1>5, <1>6, <1>7, <1>8, <1>9, <1>10, <1>11, <1>12
      DEF Next

\* Every step keeps the books of the pool.
LEMMA StepAccounted == TypeOK /\ OperationOK /\ PoolAccounted /\ [Next]_vars =>
                           PoolAccounted'
  <1> SUFFICES ASSUME TypeOK, OperationOK, PoolAccounted, [Next]_vars
               PROVE  PoolAccounted'
      OBVIOUS
  <1> USE DEF PoolAccounted, poolVars, timeVars
  <1>1. ASSUME NEW loc \in URLs, NEW qloc \in URLs \cup {NoURL},
               StartOperation(loc, qloc)
        PROVE  PoolAccounted'
      BY <1>1 DEF StartOperation
  <1>2. CASE ReuseChannel
      BY <1>2 DEF ReuseChannel, Acquired, findAvailChannelHandle
  <1>3. CASE CreateChannel
      BY <1>3 DEF CreateChannel, Acquired
  <1>4. CASE OpenFails
      BY <1>4 DEF OpenFails
  <1>5. CASE NoMoreConnections
      BY <1>5 DEF NoMoreConnections
  <1>6. CASE CloseHeldChannel
      BY <1>6 DEF CloseHeldChannel
  <1>7. CASE OperationDone
      BY <1>7 DEF OperationDone
  <1>8. CASE ReleaseChannel
      BY <1>8 DEF ReleaseChannel, keepsChannel
  <1>9. CASE OperationReturns
      BY <1>9 DEF OperationReturns
  <1>10. CASE GarbageCollect
      BY <1>10 DEF GarbageCollect, toCollect
  <1>11. CASE Tick
      BY <1>11 DEF Tick
  <1>12. CASE UNCHANGED vars
      BY <1>12 DEF vars
  <1> QED
      BY <1>1, <1>2, <1>3, <1>4, <1>5, <1>6, <1>7, <1>8, <1>9, <1>10, <1>11, <1>12
      DEF Next

\* Every step keeps the bounds on the timer and on the age of the pool.
LEMMA StepTimer == IInv /\ [Next]_vars => TimerOK'
  <1> SUFFICES ASSUME TypeOK, OperationOK, PoolAccounted, TimerOK, [Next]_vars
               PROVE  TimerOK'
      BY DEF IInv
  <1> USE AgeAssumption, TimerAssumption, TimeAssumption DEF poolVars, timeVars
  <1>1. ASSUME NEW loc \in URLs, NEW qloc \in URLs \cup {NoURL},
               StartOperation(loc, qloc)
        PROVE  TimerOK'
      BY <1>1 DEF StartOperation, timerDue, TypeOK, TimerOK
  <1>2. CASE ReuseChannel
      BY <1>2 DEF ReuseChannel, Acquired, afterAcquire, TypeOK, TimerOK
  <1>3. CASE CreateChannel
      <2>1. PICK ch \in Channels \ (availableChannels \cup busyChannels) :
                /\ creationTime' = [creationTime EXCEPT ![ch] = now]
                /\ Acquired(ch)
          BY <1>3 DEF CreateChannel
      <2>2. \A k \in availableChannels : creationTime'[k] = creationTime[k]
          BY <2>1 DEF TypeOK
      <2> QED
          BY <1>3, <2>1, <2>2
          DEF CreateChannel, needsNewChannel, Acquired, afterAcquire, TypeOK, TimerOK
  <1>4. CASE OpenFails
      BY <1>4 DEF OpenFails, needsNewChannel, TypeOK, TimerOK
  <1>5. CASE NoMoreConnections
      BY <1>5 DEF NoMoreConnections, needsNewChannel, TypeOK, TimerOK
  <1>6. CASE CloseHeldChannel
      BY <1>6 DEF CloseHeldChannel, TypeOK, TimerOK
  <1>7. CASE OperationDone
      BY <1>7 DEF OperationDone, TypeOK, TimerOK
  <1>8. CASE ReleaseChannel
      <2>1. PICK ch \in held :
              \/ /\ keepsChannel(ch)
                 /\ availableChannels' = availableChannels \cup {ch}
                 /\ creationTime' = creationTime
              \/ /\ availableChannels' = availableChannels
                 /\ Deallocate({ch})
          BY <1>8 DEF ReleaseChannel
      <2>2. ch \in Channels /\ ch \notin availableChannels
          BY DEF TypeOK, PoolAccounted
      <2>3. keepsChannel(ch) => lastCollect <= creationTime[ch] + ChannelExpireAge
          BY <2>2 DEF keepsChannel, age, TypeOK, TimerOK
      <2>4. \A k \in availableChannels' :
                lastCollect <= creationTime'[k] + ChannelExpireAge
          BY <2>1, <2>2, <2>3 DEF Deallocate, TypeOK, TimerOK
      <2> QED BY <1>8, <2>4 DEF ReleaseChannel, TypeOK, TimerOK
  <1>9. CASE OperationReturns
      BY <1>9 DEF OperationReturns, TypeOK, TimerOK
  <1>10. CASE GarbageCollect
      <2>1. ASSUME NEW k \in availableChannels'
            PROVE  now <= creationTime'[k] + ChannelExpireAge
          <3>1. /\ k \in availableChannels /\ k \notin toCollect /\ k \in Channels
                /\ creationTime'[k] = creationTime[k]
              BY <1>10, <2>1 DEF GarbageCollect, Deallocate, TypeOK
          <3>2. ~(age(k) > ChannelExpireAge)
              BY <3>1 DEF toCollect
          <3> QED BY <3>1, <3>2 DEF age, TypeOK
      <2> QED BY <1>10, <2>1 DEF GarbageCollect, TypeOK, TimerOK
  <1>11. CASE Tick
      BY <1>11 DEF Tick, timerDue, TypeOK, TimerOK
  <1>12. CASE UNCHANGED vars
      BY <1>12 DEF vars, TimerOK
  <1> QED
      BY <1>1, <1>2, <1>3, <1>4, <1>5, <1>6, <1>7, <1>8, <1>9, <1>10, <1>11, <1>12
      DEF Next

\* The inductive invariant of the pool.
LEMMA PoolInvariant == Spec => []IInv
  <1>1. IInv /\ [Next]_vars => IInv'
      BY StepTypes, StepAccounted, StepTimer DEF IInv
  <1> QED BY PoolInit, <1>1, PTL DEF Spec

\* Every variable of the pool keeps its type and every handle has its URL.
THEOREM PoolTypeCorrect == Spec => []TypeOK
  <1>1. IInv => TypeOK
      BY DEF IInv
  <1> QED BY PoolInvariant, <1>1, PTL

\* No channel is lent twice, pooled channels are connected and no connection
\* is lost, whatever fails and whenever the timer fires.
THEOREM PoolAccountedCorrect == Spec => []PoolAccounted
  <1>1. IInv => PoolAccounted
      BY DEF IInv
  <1> QED BY PoolInvariant, <1>1, PTL

\* No channel stays in the pool for more than a collection period and an
\* operation beyond its expiration age.
THEOREM PoolAgeCorrect == Spec => []PoolAgeBounded
  <1>1. IInv => PoolAgeBounded
      <2> SUFFICES ASSUME IInv, NEW ch \in availableChannels
                   PROVE  age(ch) <= ChannelExpireAge + ChannelCollectionTimer
                                       + MaxOperationTime
          BY DEF PoolAgeBounded
      <2>1. /\ now \in Nat /\ lastCollect \in Nat /\ started \in Nat
            /\ creationTime[ch] \in Nat
          BY DEF IInv, TypeOK
      <2>2. now <= lastCollect + ChannelCollectionTimer + MaxOperationTime
          BY <2>1, TimerAssumption, TimeAssumption DEF IInv, TimerOK
      <2>3. lastCollect <= creationTime[ch] + ChannelExpireAge
          BY DEF IInv, TimerOK
      <2> QED
          BY <2>1, <2>2, <2>3, AgeAssumption, TimerAssumption, TimeAssumption DEF age
  <1> QED BY PoolInvariant, <1>1, PTL

\* What the comparison before the increment keeps: finitely many connections,
\* at most one more than the limit.
LimitOK == IsFiniteSet(open) /\ ConnectionsBounded

\* Closing connections keeps the limit.
LEMMA FewerConnections ==
    ASSUME LimitOK, open' \subseteq open
    PROVE  LimitOK'
  <1>1. /\ IsFiniteSet(open')
        /\ Cardinality(open') <= Cardinality(open)
      BY FS_Subset DEF LimitOK
  <1>2. Cardinality(open) \in Nat /\ Cardinality(open') \in Nat
      BY <1>1, FS_CardinalityType DEF LimitOK
  <1> QED
      BY <1>1, <1>2, CountAssumption
      DEF LimitOK, ConnectionsBounded, openConnectionCount

\* A connection is opened only below or at the limit.
LEMMA OneMoreConnection == LimitOK /\ CreateChannel => LimitOK'
  <1> SUFFICES ASSUME LimitOK, CreateChannel
               PROVE  LimitOK'
      OBVIOUS
  <1>1. PICK ch \in Channels : open' = open \cup {ch}
      BY DEF CreateChannel
  <1>2. Cardinality(open) <= MaxOpenConnectionCount
      BY FS_CardinalityType, CountAssumption
      DEF LimitOK, CreateChannel, mayOpenConnection, openConnectionCount
  <1>3. /\ IsFiniteSet(open')
        /\ Cardinality(open') = Cardinality(open) \/ Cardinality(open') = Cardinality(open) + 1
      BY <1>1, FS_AddElement DEF LimitOK
  <1> QED
      BY <1>2, <1>3, FS_CardinalityType, CountAssumption
      DEF LimitOK, ConnectionsBounded, openConnectionCount

\* Every step keeps the limit: only one action opens connections.
LEMMA StepLimit == LimitOK /\ [Next]_vars => LimitOK'
  <1> SUFFICES ASSUME LimitOK, [Next]_vars
               PROVE  LimitOK'
      OBVIOUS
  <1>1. CASE CreateChannel
      BY <1>1, OneMoreConnection
  <1>2. CASE ~CreateChannel
      <2>1. open' \subseteq open
          BY <1>2
          DEF Next, vars, poolVars, timeVars, StartOperation, ReuseChannel, OpenFails,
              NoMoreConnections, CloseHeldChannel, OperationDone, ReleaseChannel,
              OperationReturns, GarbageCollect, Tick
      <2> QED BY <2>1, FewerConnections
  <1> QED BY <1>1, <1>2

\* The process never has more than MaxOpenConnectionCount + 1 connections.
THEOREM ConnectionsCorrect == Spec => []ConnectionsBounded
  <1>1. Init => LimitOK
      BY FS_EmptySet, CountAssumption
      DEF Init, LimitOK, ConnectionsBounded, openConnectionCount
  <1>2. LimitOK => ConnectionsBounded
      BY DEF LimitOK
  <1> QED BY <1>1, <1>2, StepLimit, PTL DEF Spec

-----------------------------------------------------------------------------
(* Channels that stay lent: what NothingLentWhenIdle is about              *)

\* Channels that are lent and that no operation will release.
lost == busyChannels \ held

\* One step's account of the lost channels: the exception of the adaptor is
\* the only way to lose one, and a lost one is never released, lent again or
\* closed.
LossAccounted ==
    /\ lost' # lost => NoMoreConnections
    /\ lost \subseteq lost'
    /\ lost \cap open \subseteq open'

\* Every path of an operation but the one where the adaptor raises gives back
\* what it acquired; what that one leaves lent stays lent, with its connection,
\* for as long as the process runs.
THEOREM LostOnlyByException == Spec => [][LossAccounted]_vars
  <1>1. IInv /\ [Next]_vars => [LossAccounted]_vars
      <2> SUFFICES ASSUME IInv, Next PROVE LossAccounted
          BY DEF vars
      <2> USE DEF LossAccounted, lost, poolVars, timeVars, IInv, PoolAccounted
      <2>1. CASE ReuseChannel
          BY <2>1 DEF ReuseChannel, Acquired, findAvailChannelHandle
      <2>2. CASE CreateChannel
          BY <2>2 DEF CreateChannel, Acquired
      <2>3. CASE NoMoreConnections
          BY <2>3 DEF NoMoreConnections
      <2>4. CASE ReleaseChannel
          BY <2>4 DEF ReleaseChannel
      <2>5. CASE GarbageCollect
          BY <2>5 DEF GarbageCollect, toCollect
      <2>6. CASE CloseHeldChannel
          BY <2>6 DEF CloseHeldChannel
      <2>7. CASE UNCHANGED <<busyChannels, held, open>>
          BY <2>7
      <2> QED BY <2>1, <2>2, <2>3, <2>4, <2>5, <2>6, <2>7
              DEF Next, StartOperation, OpenFails, OperationDone, OperationReturns, Tick
  <1> QED BY <1>1, PoolInvariant, PTL DEF Spec

-----------------------------------------------------------------------------
(* How many connections are enough                                         *)

Databases == {Database[u] : u \in URLs}
handles == availableChannels \cup busyChannels
databaseOf(ch) == Database[handleURL[ch]]

\* Only the running operation has channels, and one at most when it asks for
\* its second one.
LentToOperation ==
    /\ busyChannels = held
    /\ phase \in {"idle", "acquireStore"} => held = {}
    /\ phase = "acquireQuick" => \A a, b \in held : a = b

\* A third channel to a database is not opened: an operation has at most one
\* when it looks for the second, and takes that from the pool if it can.
AtMostTwo ==
    \A a, b, c \in handles :
        databaseOf(a) = databaseOf(b) /\ databaseOf(b) = databaseOf(c)
            => a = b \/ b = c \/ a = c

TwoInv == LentToOperation /\ AtMostTwo

\* Two connections to every database, but one less as the wanted one has none
\* that is free.
EnoughConnections ==
    IsFiniteSet(Databases) /\ MaxOpenConnectionCount >= 2 * Cardinality(Databases) - 1

\* An operation that needs a new channel is allowed to open it: the open
\* channels fit into two places per database, and one of the wanted database's
\* is free.
LEMMA NewChannelAllowed ==
    ASSUME EnoughConnections, IInv, TwoInv, needsNewChannel
    PROVE  mayOpenConnection
  <1> DEFINE D == Database[wanted]
             Two == Databases \X {1, 2}
             S == Two \ {<<D, 2>>}
             first(d) == CHOOSE c \in handles : databaseOf(c) = d
             f == [c \in open |-> <<databaseOf(c), IF c = first(databaseOf(c)) THEN 1 ELSE 2>>]
  <1>1. wanted \in URLs /\ D \in Databases
      BY WantedURL DEF needsNewChannel, IInv, Databases
  <1>2. ASSUME NEW c \in open
        PROVE  c \in handles /\ databaseOf(c) \in Databases
      BY DEF IInv, PoolAccounted, TypeOK, handles, databaseOf, Databases
  <1>3. ASSUME NEW c \in open
        PROVE  first(databaseOf(c)) \in handles /\ databaseOf(first(databaseOf(c))) = databaseOf(c)
      BY <1>2
  <1> HIDE DEF first
  <1>4. ASSUME NEW a \in handles, NEW b \in handles, databaseOf(a) = D, databaseOf(b) = D
        PROVE  a = b
      <2>1. a \in busyChannels /\ b \in busyChannels
          BY <1>4 DEF handles, needsNewChannel, findAvailChannelHandle, canHandleURL, databaseOf
      <2> QED BY <2>1 DEF TwoInv, LentToOperation, needsNewChannel
  <1>5. f \in [open -> S]
      <2> SUFFICES ASSUME NEW c \in open
                   PROVE  <<databaseOf(c), IF c = first(databaseOf(c)) THEN 1 ELSE 2>> \in S
          OBVIOUS
      <2>1. databaseOf(c) = D => c = first(databaseOf(c))
          BY <1>2, <1>3, <1>4
      <2> QED BY <1>2, <2>1
  <1>6. \A a, b \in open : f[a] = f[b] => a = b
      <2> SUFFICES ASSUME NEW a \in open, NEW b \in open, f[a] = f[b] PROVE a = b
          OBVIOUS
      <2>1. databaseOf(a) = databaseOf(b)
            /\ (a = first(databaseOf(a)) <=> b = first(databaseOf(b)))
          OBVIOUS
      <2>2. AtMostTwo
          BY DEF TwoInv
      <2> QED BY <1>2, <1>3, <2>1, <2>2 DEF AtMostTwo
  <1> HIDE DEF f
  <1>7. f \in Injection(open, S)
      BY <1>5, <1>6 DEF Injection, IsInjective
  <1>8. /\ IsFiniteSet({1, 2}) /\ Cardinality({1, 2}) = 2
        /\ IsFiniteSet(Databases) /\ Cardinality(Databases) \in Nat
      <2>1. IsFiniteSet({1, 2}) /\ Cardinality({1, 2}) = 2
          <3>1. IsFiniteSet({1}) /\ Cardinality({1}) = 1
              BY FS_Singleton
          <3>2. IsFiniteSet({1} \cup {2}) /\ Cardinality({1} \cup {2}) = 2
              BY <3>1, FS_AddElement
          <3>3. {1} \cup {2} = {1, 2}
              OBVIOUS
          <3> QED BY <3>2, <3>3
      <2>2. IsFiniteSet(Databases)
          BY DEF EnoughConnections
      <2>3. Cardinality(Databases) \in Nat
          BY <2>2, FS_CardinalityType
      <2> QED BY <2>1, <2>2, <2>3
  <1>9. IsFiniteSet(Two) /\ Cardinality(Two) = 2 * Cardinality(Databases)
      <2>1. IsFiniteSet(Two) /\ Cardinality(Two) = Cardinality(Databases) * Cardinality({1, 2})
          BY <1>8, FS_Product
      <2> HIDE DEF Two
      <2> QED BY <1>8, <2>1
  <1>10. <<D, 2>> \in Two
      BY <1>1
  <1>11. IsFiniteSet(S) /\ Cardinality(S) = 2 * Cardinality(Databases) - 1
      <2> HIDE DEF Two, D
      <2> QED BY <1>9, <1>10, FS_RemoveElement
  <1> HIDE DEF S
  <1>12. Cardinality(open) <= Cardinality(S) /\ Cardinality(open) \in Nat
      BY <1>7, <1>11, FS_Injection, FS_CardinalityType
  <1> QED BY <1>8, <1>11, <1>12, CountAssumption
          DEF EnoughConnections, mayOpenConnection, openConnectionCount

\* The new channel is its database's first or second.
LEMMA CreateKeepsTwo ==
    ASSUME IInv, TwoInv, CreateChannel
    PROVE  TwoInv'
  <1>1. PICK ch \in Channels \ (availableChannels \cup busyChannels) :
            /\ handleURL' = [handleURL EXCEPT ![ch] = wanted]
            /\ Acquired(ch)
      BY DEF CreateChannel
  <1>2. /\ availableChannels' = availableChannels /\ busyChannels' = busyChannels \cup {ch}
        /\ held' = held \cup {ch} /\ phase' = afterAcquire
      BY <1>1 DEF CreateChannel, Acquired
  <1>3. \A c \in handles : databaseOf(c)' = databaseOf(c)
      BY <1>1 DEF handles, databaseOf, IInv, TypeOK
  <1>4. databaseOf(ch)' = Database[wanted]
      BY <1>1 DEF databaseOf, IInv, TypeOK
  <1>5. handles' = handles \cup {ch}
      BY <1>2 DEF handles
  <1>6. \A a, b \in handles :
            databaseOf(a) = Database[wanted] /\ databaseOf(b) = Database[wanted] => a = b
      <2> SUFFICES ASSUME NEW a \in handles, NEW b \in handles,
                          databaseOf(a) = Database[wanted], databaseOf(b) = Database[wanted]
                   PROVE  a = b
          OBVIOUS
      <2>1. a \in busyChannels /\ b \in busyChannels
          BY DEF handles, CreateChannel, needsNewChannel, findAvailChannelHandle, canHandleURL,
                 databaseOf
      <2> QED BY <2>1 DEF TwoInv, LentToOperation, CreateChannel, needsNewChannel
  <1>7. AtMostTwo'
      <2> SUFFICES ASSUME NEW a \in handles', NEW b \in handles', NEW c \in handles',
                          databaseOf(a)' = databaseOf(b)', databaseOf(b)' = databaseOf(c)'
                   PROVE  a = b \/ b = c \/ a = c
          BY DEF AtMostTwo
      <2>1. CASE a \in handles /\ b \in handles /\ c \in handles
          BY <1>3, <2>1 DEF TwoInv, AtMostTwo
      <2>2. CASE a = ch \/ b = ch \/ c = ch
          BY <1>3, <1>4, <1>5, <1>6, <2>2
      <2> QED BY <1>5, <2>1, <2>2
  <1>8. LentToOperation'
      BY <1>2 DEF TwoInv, LentToOperation, afterAcquire, CreateChannel, needsNewChannel
  <1> QED BY <1>7, <1>8 DEF TwoInv

LEMMA StepKeepsTwo ==
    ASSUME EnoughConnections, IInv, TwoInv, [Next]_vars
    PROVE  TwoInv'
  \* A step that opens no channel can only take handles away.
  <1>1. ASSUME handles' \subseteq handles, \A c \in handles' : handleURL'[c] = handleURL[c]
        PROVE  AtMostTwo'
      BY <1>1 DEF TwoInv, AtMostTwo, databaseOf
  <1>2. CASE NoMoreConnections
      BY <1>2, NewChannelAllowed DEF NoMoreConnections
  <1>3. CASE ReuseChannel
      <2>1. LentToOperation'
          BY <1>3 DEF ReuseChannel, Acquired, afterAcquire, TwoInv, LentToOperation
      <2>2. handles' = handles /\ handleURL' = handleURL
          BY <1>3 DEF ReuseChannel, Acquired, handles, findAvailChannelHandle
      <2> QED BY <1>1, <2>1, <2>2 DEF TwoInv
  <1>4. CASE ReleaseChannel
      <2>1. LentToOperation'
          BY <1>4 DEF ReleaseChannel, TwoInv, LentToOperation
      <2>2. PICK ch \in held :
              /\ busyChannels' = busyChannels \ {ch}
              /\ \/ availableChannels' = availableChannels \cup {ch} /\ handleURL' = handleURL
                 \/ availableChannels' = availableChannels /\ Deallocate({ch})
          BY <1>4 DEF ReleaseChannel
      <2>3. ch \in busyChannels /\ ch \notin availableChannels
          BY DEF IInv, PoolAccounted
      <2>4. handles' \subseteq handles /\ \A c \in handles' : handleURL'[c] = handleURL[c]
          BY <2>2, <2>3 DEF handles, Deallocate, IInv, TypeOK
      <2> QED BY <1>1, <2>1, <2>4 DEF TwoInv
  <1>5. CASE GarbageCollect
      <2>1. LentToOperation'
          BY <1>5 DEF GarbageCollect, TwoInv, LentToOperation
      <2>2. handles' \subseteq handles /\ \A c \in handles' : handleURL'[c] = handleURL[c]
          BY <1>5 DEF GarbageCollect, Deallocate, handles, toCollect, IInv, TypeOK, PoolAccounted
      <2> QED BY <1>1, <2>1, <2>2 DEF TwoInv
  <1>6. CASE UNCHANGED <<availableChannels, busyChannels, handleURL>>
             /\ (UNCHANGED <<phase, held>> \/ StartOperation(location', quickLocation')
                   \/ OpenFails \/ OperationDone \/ OperationReturns)
      <2>1. LentToOperation'
          BY <1>6 DEF StartOperation, OpenFails, OperationDone, OperationReturns, TwoInv,
                      LentToOperation
      <2> QED BY <1>1, <1>6, <2>1 DEF TwoInv, handles
  <1> QED BY <1>2, <1>3, <1>4, <1>5, <1>6, CreateKeepsTwo
          DEF Next, vars, poolVars, timeVars, StartOperation, OpenFails, OperationDone,
              OperationReturns, CloseHeldChannel, Tick

\* With a limit of two connections per database less one (the adaptor's default
\* of 50 serves 25 databases), whatever the pool ages, the timer and the failing
\* connections do, no operation is refused a channel and none is left lent
\* between operations.
THEOREM EnoughConnectionsNoLeak ==
    ASSUME EnoughConnections
    PROVE  Spec => [](NothingLentWhenIdle /\ (needsNewChannel => mayOpenConnection))
  <1>1. Init => TwoInv
      BY DEF Init, TwoInv, LentToOperation, AtMostTwo, handles
  <1>2. IInv /\ TwoInv /\ [Next]_vars => TwoInv'
      BY StepKeepsTwo
  <1>3. IInv /\ TwoInv => NothingLentWhenIdle /\ (needsNewChannel => mayOpenConnection)
      BY NewChannelAllowed DEF TwoInv, LentToOperation, NothingLentWhenIdle
  <1> QED BY <1>1, <1>2, <1>3, PoolInvariant, PTL DEF Spec
=============================================================================
