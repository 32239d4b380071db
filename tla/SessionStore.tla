---------------------------- MODULE SessionStore ----------------------------
(***************************************************************************)
(* WOServerSessionStore: the in-memory session store of an NGObjWeb        *)
(* application (sope-appserver/NGObjWeb/WOServerSessionStore.m), with the   *)
(* clock and the expiration timer that drive it.                           *)
(*                                                                         *)
(* The store keeps two tables: idToSession, from which requests restore a   *)
(* session, and activeSessions, whose WOSessionInfo entries carry the date  *)
(* at which the expiration timer drops the session.  Saving writes both     *)
(* under the store's lock.  The expiration check writes both without taking *)
(* any lock, so each single table operation is a step of its own here.      *)
(*                                                                         *)
(* A session id names exactly one session object, so a table is indexed by  *)
(* the session itself.  A table operation is atomic.                        *)
(***************************************************************************)
EXTENDS Integers, FiniteSets

CONSTANTS
  Sessions,   \* the session objects the application can create
  TimeOut,    \* -timeOut of every session, in clock ticks (<= 0: never)
  MaxTime     \* bound on the clock

ASSUME TimeAssumption == TimeOut \in Int /\ MaxTime \in Nat

VARIABLES
  idToSession,     \* the sessions a request can restore
  activeSessions,  \* per session its timeoutDate, NoDate when it has no info
  now,             \* the clock
  timer,           \* where performExpirationCheck: stands
  timedOut,        \* infos the check collected and has still to expire
  expiring,        \* the session it is removing
  didTimeOut       \* sessions WOSessionDidTimeOutNotification was posted for

storeVars == <<idToSession, activeSessions, now, timer, timedOut, expiring,
               didTimeOut>>
timerVars == <<timer, timedOut, expiring, didTimeOut>>

NoDate        == -1
DistantFuture == MaxTime + 1
NoSession     == "no session"

ASSUME NoSessionAssumption == NoSession \notin Sessions

TimerStates == {"idle", "removeInfo", "removeSession", "countSessions"}

StoreTypeOK ==
  /\ idToSession \in SUBSET Sessions
  /\ activeSessions \in [Sessions -> Int]
  /\ now \in 0..MaxTime
  /\ timer \in TimerStates
  /\ timedOut \in SUBSET Sessions
  /\ expiring \in Sessions \cup {NoSession}
  /\ didTimeOut \in SUBSET Sessions

StoreInit ==
  /\ idToSession = {}
  /\ activeSessions = [s \in Sessions |-> NoDate]
  /\ now = 0
  /\ timer = "idle"
  /\ timedOut = {}
  /\ expiring = NoSession
  /\ didTimeOut = {}

-----------------------------------------------------------------------------
(* The store's own operations, one per table access. *)

activeSessionsCount == Cardinality(idToSession)

restorable(s) == s \in idToSession

\* -[WOSessionInfo initWithSession:]
infoTimeoutDate == IF TimeOut > 0 THEN now + TimeOut + 1 ELSE DistantFuture

InsertSession(s) == idToSession' = idToSession \cup {s}
RemoveSession(s) == idToSession' = idToSession \ {s}
InsertInfo(s)    == activeSessions' = [activeSessions EXCEPT ![s] = infoTimeoutDate]
RemoveInfo(s)    == activeSessions' = [activeSessions EXCEPT ![s] = NoDate]

HasInfo(s) == activeSessions[s] # NoDate

\* [now compare:timeOutDate] != NSOrderedAscending
Expired(s) == HasInfo(s) /\ now >= activeSessions[s]

-----------------------------------------------------------------------------
(***************************************************************************)
(* performExpirationCheck: a scan of activeSessions collects the expired    *)
(* infos; the loop below then removes each from both tables and posts the   *)
(* notification.  A scan that runs while another thread is changing the     *)
(* tables may miss entries: contended says whether one is.                  *)
(***************************************************************************)
ScanExpired(contended) ==
  /\ timer = "idle"
  /\ \E found \in SUBSET {s \in Sessions : Expired(s)} :
       /\ ~contended => found = {s \in Sessions : Expired(s)}
       /\ timedOut' = found
       /\ timer' = IF found = {} THEN "countSessions" ELSE "removeInfo"
  /\ UNCHANGED <<idToSession, activeSessions, now, expiring, didTimeOut>>

RemoveExpiredInfo ==
  /\ timer = "removeInfo"
  /\ \E s \in timedOut :
       /\ expiring' = s
       /\ timedOut' = timedOut \ {s}
       /\ RemoveInfo(s)
  /\ timer' = "removeSession"
  /\ UNCHANGED <<idToSession, now, didTimeOut>>

\* Mutant: the check forgets the second table.
RemoveExpiredSessionFromOneTable ==
  /\ timer = "removeSession"
  /\ didTimeOut' = didTimeOut \cup {expiring}
  /\ expiring' = NoSession
  /\ timer' = IF timedOut = {} THEN "countSessions" ELSE "removeInfo"
  /\ UNCHANGED <<idToSession, activeSessions, now, timedOut>>

RemoveExpiredSession ==
  /\ timer = "removeSession"
  /\ RemoveSession(expiring)
  /\ didTimeOut' = didTimeOut \cup {expiring}
  /\ expiring' = NoSession
  /\ timer' = IF timedOut = {} THEN "countSessions" ELSE "removeInfo"
  /\ UNCHANGED <<activeSessions, now, timedOut>>

Tick ==
  /\ now < MaxTime
  /\ now' = now + 1
  /\ UNCHANGED <<idToSession, activeSessions>>
  /\ UNCHANGED timerVars
=============================================================================
