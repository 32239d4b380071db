--------------------------- MODULE ChannelManager ---------------------------
(***************************************************************************)
(* The pool of database channels (GDLContentStore/GCSChannelManager.m) as  *)
(* the operations of GCSFolder use it, over PostgreSQL channels, of which   *)
(* a process opens a limited number (PostgreSQL/PostgreSQL72Channel.m).     *)
(* The application is single-threaded: one operation at a time acquires a   *)
(* store channel and possibly a quick channel, runs, and releases them; the *)
(* collection timer fires in the run loop, between operations.  Arrays are  *)
(* sets here: which of several fitting handles is reused does not matter.   *)
(***************************************************************************)
EXTENDS Integers, FiniteSets

CONSTANTS
    URLs,               \* database URLs of folder locations
    Database,           \* [URLs -> host, port, user and database name]
    Channels,           \* channel objects
    NoURL,
    ChannelExpireAge, ChannelCollectionTimer,   \* defaults, in seconds
    MaxOpenConnectionCount,                     \* default of the adaptor
    MaxOperationTime,   \* longest run of an operation
    MaxTime             \* bound on the clock

ASSUME AgeAssumption == ChannelExpireAge \in Nat \ {0}
ASSUME TimerAssumption == ChannelCollectionTimer \in Nat \ {0}
ASSUME CountAssumption == MaxOpenConnectionCount \in Nat
ASSUME TimeAssumption == MaxOperationTime \in Nat /\ MaxTime \in Nat
ASSUME NoURLAssumption == NoURL \notin URLs

VARIABLES
    availableChannels, busyChannels,    \* the handles, by their channels
    handleURL, creationTime,            \* [Channels -> ...] of the handles
    open,           \* channels with a connection
    phase,          \* "idle", "acquireStore", "acquireQuick", "run", "release"
    location, quickLocation,            \* URLs of the operation's folder
    held,           \* channels the running operation acquired
    now, started, lastCollect

poolVars == <<availableChannels, busyChannels, handleURL, creationTime, open>>
timeVars == <<now, started, lastCollect>>
vars == <<availableChannels, busyChannels, handleURL, creationTime, open,
          phase, location, quickLocation, held, now, started, lastCollect>>

Phases == {"idle", "acquireStore", "acquireQuick", "run", "release"}

openConnectionCount == Cardinality(open)
age(ch) == now - creationTime[ch]
canHandleURL(ch, u) == Database[handleURL[ch]] = Database[u]
findAvailChannelHandle(u) == {ch \in availableChannels : canHandleURL(ch, u)}

Init ==
    /\ availableChannels = {} /\ busyChannels = {} /\ open = {}
    /\ handleURL = [ch \in Channels |-> NoURL]
    /\ creationTime = [ch \in Channels |-> 0]
    /\ phase = "idle" /\ held = {}
    /\ location = NoURL /\ quickLocation = NoURL
    /\ now = 0 /\ started = 0 /\ lastCollect = 0

-----------------------------------------------------------------------------
(* An operation of a folder                                                *)

\* The URL the running operation needs a channel for.
wanted == IF phase = "acquireStore" THEN location ELSE quickLocation

timerDue == now >= lastCollect + ChannelCollectionTimer

\* The run loop serves a due timer before the next request.  A folder whose
\* two URLs are equal has one table and acquires one channel (NoURL here).
StartOperation(loc, qloc) ==
    /\ phase = "idle" /\ ~timerDue
    /\ qloc # loc
    /\ phase' = "acquireStore"
    /\ location' = loc /\ quickLocation' = qloc
    /\ started' = now
    /\ UNCHANGED <<poolVars, held, now, lastCollect>>

afterAcquire ==
    IF phase = "acquireStore" /\ quickLocation # NoURL
    THEN "acquireQuick" ELSE "run"

Acquired(ch) ==
    /\ busyChannels' = busyChannels \cup {ch}
    /\ held' = held \cup {ch}
    /\ phase' = afterAcquire
    /\ UNCHANGED <<location, quickLocation, timeVars>>

\* -acquireOpenChannelForURL: with a cached handle.
ReuseChannel ==
    /\ phase \in {"acquireStore", "acquireQuick"}
    /\ \E ch \in findAvailChannelHandle(wanted) :
        /\ availableChannels' = availableChannels \ {ch}
        /\ Acquired(ch)
    /\ UNCHANGED <<handleURL, creationTime, open>>

needsNewChannel ==
    /\ phase \in {"acquireStore", "acquireQuick"}
    /\ findAvailChannelHandle(wanted) = {}

\* Mutant: the counter is not compared.
mayOpenAlways == TRUE

mayOpenConnection == ~(openConnectionCount > MaxOpenConnectionCount)

\* ... with a new channel, which -openChannel connects.
CreateChannel ==
    /\ needsNewChannel
    /\ mayOpenConnection
    /\ \E ch \in Channels \ (availableChannels \cup busyChannels) :
        /\ open' = open \cup {ch}
        /\ handleURL' = [handleURL EXCEPT ![ch] = wanted]
        /\ creationTime' = [creationTime EXCEPT ![ch] = now]
        /\ Acquired(ch)
    /\ UNCHANGED availableChannels

\* ... the database refuses the connection: nil, the operation gives up.
OpenFails ==
    /\ needsNewChannel
    /\ mayOpenConnection
    /\ phase' = "release"
    /\ UNCHANGED <<poolVars, location, quickLocation, held, timeVars>>

\* ... the adaptor raises "NoMoreConnections".  Nobody up to the request
\* loop catches it: the operation ends without releasing what it acquired.
NoMoreConnections ==
    /\ needsNewChannel
    /\ ~mayOpenConnection
    /\ phase' = "idle"
    /\ held' = {}
    /\ location' = NoURL /\ quickLocation' = NoURL
    /\ UNCHANGED <<poolVars, timeVars>>

\* A caller closes a channel it acquired (-closeChannel is public).
CloseHeldChannel ==
    /\ phase = "run"
    /\ \E ch \in held \cap open : open' = open \ {ch}
    /\ UNCHANGED <<availableChannels, busyChannels, handleURL, creationTime,
                   phase, location, quickLocation, held, timeVars>>

OperationDone ==
    /\ phase = "run"
    /\ phase' = "release"
    /\ UNCHANGED <<poolVars, location, quickLocation, held, timeVars>>

\* The handles of closed channels are deallocated.
Deallocate(chs) ==
    /\ handleURL' = [ch \in Channels |-> IF ch \in chs THEN NoURL ELSE handleURL[ch]]
    /\ creationTime' = [ch \in Channels |-> IF ch \in chs THEN 0 ELSE creationTime[ch]]

keepsChannel(ch) == ch \in open /\ age(ch) < ChannelExpireAge

\* Mutant: the handle that goes back to the pool is released once too often.
ReleaseChannelTwice ==
    /\ phase = "release"
    /\ \E ch \in held :
        /\ held' = held \ {ch}
        /\ busyChannels' = busyChannels \ {ch}
        /\ Deallocate({ch})
        /\ IF keepsChannel(ch)
           THEN /\ availableChannels' = availableChannels \cup {ch}
                /\ UNCHANGED open
           ELSE /\ open' = open \ {ch}
                /\ UNCHANGED availableChannels
    /\ UNCHANGED <<phase, location, quickLocation, timeVars>>

\* -releaseChannel:
ReleaseChannel ==
    /\ phase = "release"
    /\ \E ch \in held :
        /\ held' = held \ {ch}
        /\ busyChannels' = busyChannels \ {ch}
        /\ IF keepsChannel(ch)
           THEN /\ availableChannels' = availableChannels \cup {ch}
                /\ UNCHANGED <<open, handleURL, creationTime>>
           ELSE /\ open' = open \ {ch}
                /\ Deallocate({ch})
                /\ UNCHANGED availableChannels
    /\ UNCHANGED <<phase, location, quickLocation, timeVars>>

OperationReturns ==
    /\ phase = "release" /\ held = {}
    /\ phase' = "idle"
    /\ location' = NoURL /\ quickLocation' = NoURL
    /\ UNCHANGED <<poolVars, held, timeVars>>

-----------------------------------------------------------------------------
(* The collection timer and the clock                                      *)

\* Mutant: only closed channels are collected.
toCollectClosed == availableChannels \ open

toCollect == {ch \in availableChannels : ch \notin open \/ age(ch) > ChannelExpireAge}

\* Mutant: expired handles leave the pool with their connection open.
GarbageCollectWithoutClose ==
    /\ phase = "idle"
    /\ availableChannels' = availableChannels \ toCollect
    /\ lastCollect' = now
    /\ UNCHANGED <<busyChannels, open, handleURL, creationTime, phase, location,
                   quickLocation, held, now, started>>

\* -_garbageCollect:, once per ChannelCollectionTimer at the latest.
GarbageCollect ==
    /\ phase = "idle"
    /\ availableChannels' = availableChannels \ toCollect
    /\ open' = open \ toCollect
    /\ Deallocate(toCollect)
    /\ lastCollect' = now
    /\ UNCHANGED <<busyChannels, phase, location, quickLocation, held, now, started>>

\* Time passes until the timer is due, or while an operation runs.
Tick ==
    /\ now < MaxTime
    /\ phase = "idle" => ~timerDue
    /\ phase # "idle" => now < started + MaxOperationTime
    /\ now' = now + 1
    /\ UNCHANGED <<poolVars, phase, location, quickLocation, held, started,
                   lastCollect>>

Next ==
    \/ \E loc \in URLs, qloc \in URLs \cup {NoURL} : StartOperation(loc, qloc)
    \/ ReuseChannel \/ CreateChannel \/ OpenFails \/ NoMoreConnections
    \/ CloseHeldChannel \/ OperationDone \/ ReleaseChannel \/ OperationReturns
    \/ GarbageCollect \/ Tick

Spec == Init /\ [][Next]_vars

-----------------------------------------------------------------------------
(* Properties                                                              *)

\* Every variable keeps its type, and every handle knows its URL.
TypeOK ==
    /\ availableChannels \subseteq Channels
    /\ busyChannels \subseteq Channels
    /\ open \subseteq Channels
    /\ handleURL \in [Channels -> URLs \cup {NoURL}]
    /\ creationTime \in [Channels -> Nat]
    /\ phase \in Phases
    /\ location \in URLs \cup {NoURL} /\ quickLocation \in URLs \cup {NoURL}
    /\ held \subseteq Channels
    /\ \A ch \in availableChannels \cup busyChannels : handleURL[ch] \in URLs
    /\ now \in Nat /\ started \in Nat /\ lastCollect \in Nat

\* A channel is never lent twice nor offered while it is lent, a pooled
\* channel is connected ("acquireOpenChannelForURL"), and every connection of
\* the process is held by a handle: none is lost when an operation fails, a
\* caller closes its channel or a handle expires.
PoolAccounted ==
    /\ availableChannels \cap busyChannels = {}
    /\ held \subseteq busyChannels
    /\ availableChannels \subseteq open
    /\ open \subseteq availableChannels \cup busyChannels

\* "if that age in seconds is exceeded, a channel will be removed from the
\* pool ... each n-seconds the pool will be checked" (README:58-61): a channel
\* that can still be reused is at most one collection period, and the
\* operation that delayed the timer, older than ChannelExpireAge.
PoolAgeBounded ==
    \A ch \in availableChannels :
        age(ch) <= ChannelExpireAge + ChannelCollectionTimer + MaxOperationTime

\* Between operations no channel is lent: each path of an operation released
\* what it had acquired (GCSFolder.m:523-533, 598-599).
NothingLentWhenIdle == phase = "idle" => busyChannels = {}

\* "set the max number of open postgres connections" (PostgreSQL/ChangeLog:290):
\* the counter is compared before it is incremented, so the process opens up to
\* one connection more than the number set, and never more than that, however
\* many channels are lent, closed by their users or lost.
ConnectionsBounded == openConnectionCount <= MaxOpenConnectionCount + 1
=============================================================================
