--------------------------- MODULE RequestHandler ---------------------------
(***************************************************************************)
(* The request/response transaction of an NGObjWeb application:             *)
(* -[WORequestHandler handleRequest:] with the WOApplication, WOContext and *)
(* WOSession methods it calls, run by the threads that serve connections,   *)
(* over the session store of module SessionStore.                           *)
(*                                                                         *)
(* A thread's program counter names the part of handleRequest: it is about  *)
(* to run.  In a single-threaded application (WORunMultithreaded NO) every  *)
(* lock is a nil object and the expiration timer runs between requests, on  *)
(* the same run loop; with WORunMultithreaded YES the timer runs beside the *)
(* threads.                                                                 *)
(***************************************************************************)
EXTENDS SessionStore

CONSTANTS
  Threads,                     \* threads that handle requests
  WORunMultithreaded,          \* the user default of that name
  MinimumActiveSessionsCount,  \* -minimumActiveSessionsCount
  MaxRequests                  \* bound on the requests that arrive

ASSUME ModeAssumption ==
  /\ WORunMultithreaded \in BOOLEAN
  /\ ~WORunMultithreaded => \A t, u \in Threads : t = u
ASSUME CountAssumption ==
  MinimumActiveSessionsCount \in Nat /\ MaxRequests \in Nat

VARIABLES
  pc,              \* per thread: the next part of handleRequest:
  contextID,       \* per thread: the number of its WOContext
  sessionId,       \* per thread: the session id the request carries
  autocreate,      \* per thread: autocreateSessionForRequest:
  session,         \* per thread: the local variable of handleRequest:
  ctxSession,      \* per thread: the session of its WOContext
  created,         \* sessions that -init has returned so far
  isTerminating,   \* sessions -terminate was sent to
  isAwake,         \* sessions with wosFlags.isAwake
  snContext,       \* per session: the number of the context it points to
  snLock,          \* per session: the thread holding wosLock
  appLock,         \* the thread holding the application's lock
  didTerminate,    \* per session: WOSessionDidTerminateNotification posts
  refuses,         \* appFlags.doesRefuseNewSessions
  appTerminating,  \* cappFlags.isTerminating
  requests         \* requests that have arrived

NoThread  == "no thread"
NoContext == 0

ASSUME NoThreadAssumption == NoThread \notin Threads

threadVars  == <<contextID, sessionId, autocreate, session, ctxSession>>
sessionVars == <<created, isTerminating, isAwake, snContext>>
appVars     == <<refuses, appTerminating, requests>>
vars == <<storeVars, pc, threadVars, sessionVars, snLock, appLock,
          didTerminate, appVars>>

PC == {"idle", "restore", "attach", "create", "require", "lock", "handle",
       "save", "storeSession", "storeInfo", "dropInfo", "unlock", "sleep",
       "finish", "dead"}

\* the parts of a request that save its session
Saving == {"save", "storeSession", "storeInfo", "dropInfo"}

\* Every variable has its type; only a request that has a session saves one,
\* and the timer removes a session it chose before.
TypeOK ==
  /\ StoreTypeOK
  /\ pc \in [Threads -> PC]
  /\ contextID \in [Threads -> 0..MaxRequests]
  /\ sessionId \in [Threads -> Sessions \cup {NoSession}]
  /\ autocreate \in [Threads -> BOOLEAN]
  /\ session \in [Threads -> Sessions \cup {NoSession}]
  /\ ctxSession \in [Threads -> Sessions \cup {NoSession}]
  /\ created \in SUBSET Sessions
  /\ isTerminating \in SUBSET Sessions
  /\ isAwake \in SUBSET Sessions
  /\ snContext \in [Sessions -> 0..MaxRequests]
  /\ snLock \in [Sessions -> Threads \cup {NoThread}]
  /\ appLock \in Threads \cup {NoThread}
  /\ didTerminate \in [Sessions -> Nat]
  /\ refuses \in BOOLEAN
  /\ appTerminating \in BOOLEAN
  /\ requests \in 0..MaxRequests
  /\ \A t \in Threads : pc[t] \in Saving => session[t] # NoSession
  /\ timer = "removeSession" => expiring # NoSession

Init ==
  /\ StoreInit
  /\ pc = [t \in Threads |-> "idle"]
  /\ contextID = [t \in Threads |-> NoContext]
  /\ sessionId = [t \in Threads |-> NoSession]
  /\ autocreate = [t \in Threads |-> FALSE]
  /\ session = [t \in Threads |-> NoSession]
  /\ ctxSession = [t \in Threads |-> NoSession]
  /\ created = {}
  /\ isTerminating = {}
  /\ isAwake = {}
  /\ snContext = [s \in Sessions |-> NoContext]
  /\ snLock = [s \in Sessions |-> NoThread]
  /\ appLock = NoThread
  /\ didTerminate = [s \in Sessions |-> 0]
  /\ refuses = FALSE
  /\ appTerminating = FALSE
  /\ requests = 0

Goto(t, label) == pc' = [pc EXCEPT ![t] = label]

-----------------------------------------------------------------------------
(* WOSession *)

\* -_awakeWithContext: keeps an older context, calls -awake once
AwakeWithContext(s, t) ==
  /\ snContext' = IF snContext[s] = NoContext
                    THEN [snContext EXCEPT ![s] = contextID[t]] ELSE snContext
  /\ isAwake' = isAwake \cup {s}

\* -_sleepWithContext:
SleepWithContext(s) ==
  /\ snContext' = [snContext EXCEPT ![s] = NoContext]
  /\ isAwake' = isAwake \ {s}

\* Objects are reference counted: the store and the contexts own sessions.
Retained(s) == s \in idToSession \/ \E t \in Threads : ctxSession[t] = s

\* -[WOApplication _initializeSessionInContext:] in the context of thread t.
\* -init returns nil when no id can be made; here also at the Sessions bound.
InitializeSession(t, s) ==
  /\ s \in Sessions \ created
  /\ created' = created \cup {s}
  /\ ctxSession' = [ctxSession EXCEPT ![t] = s]
  /\ AwakeWithContext(s, t)

-----------------------------------------------------------------------------
(* handleRequest:, part by part *)

\* The request arrives; the context is set up and the session id read.  An
\* id names a session the application once created.
Receive(t) ==
  /\ pc[t] = "idle"
  /\ requests < MaxRequests
  /\ ~appTerminating
  /\ WORunMultithreaded \/ timer = "idle"
  /\ contextID' = [contextID EXCEPT ![t] = requests + 1]
  /\ \E sid \in created \cup {NoSession}, auto \in BOOLEAN :
       /\ sessionId' = [sessionId EXCEPT ![t] = sid]
       /\ autocreate' = [autocreate EXCEPT ![t] = auto]
       /\ Goto(t, IF sid = NoSession THEN "create" ELSE "restore")
  /\ requests' = requests + 1
  /\ UNCHANGED <<storeVars, session, ctxSession, sessionVars, snLock, appLock,
                 didTerminate, refuses, appTerminating>>

\* SYNCHRONIZED(app): the store looks the session up ...
Restore(t) ==
  /\ pc[t] = "restore"
  /\ appLock = NoThread
  /\ appLock' = t
  /\ session' = [session EXCEPT ![t] =
                   IF restorable(sessionId[t]) THEN sessionId[t] ELSE NoSession]
  /\ Goto(t, "attach")
  /\ UNCHANGED <<storeVars, contextID, sessionId, autocreate, ctxSession,
                 sessionVars, snLock, didTerminate, appVars>>

\* ... and, still inside, the context retains and awakes it.
AttachSession(t) ==
  /\ pc[t] = "attach"
  /\ session[t] # NoSession
  /\ ctxSession' = [ctxSession EXCEPT ![t] = session[t]]
  /\ AwakeWithContext(session[t], t)
  /\ appLock' = NoThread
  /\ Goto(t, "lock")
  /\ UNCHANGED <<storeVars, contextID, sessionId, autocreate, session,
                 created, isTerminating, snLock, didTerminate,
                 appVars>>

\* The store's lock is released in between, so the timer may have let go of
\* the session: using it then may also end the process.
CrashOnReleasedSession(t) ==
  /\ pc[t] = "attach"
  /\ session[t] # NoSession
  /\ ~Retained(session[t])
  /\ pc' = [u \in Threads |-> "dead"]
  /\ UNCHANGED <<storeVars, threadVars, sessionVars, snLock, appLock,
                 didTerminate, appVars>>

\* Mutant: the restoration error leaves the synchronized block locked.
RestorationFailedLocked(t) ==
  /\ pc[t] = "attach"
  /\ session[t] = NoSession
  /\ \/ Goto(t, "create")
     \/ Goto(t, "sleep")
  /\ UNCHANGED <<storeVars, threadVars, sessionVars, snLock, appLock,
                 didTerminate, appVars>>

\* handleSessionRestorationErrorInContext: returns nil, or the response of an
\* application that implements handleSessionRestorationError.
RestorationFailed(t) ==
  /\ pc[t] = "attach"
  /\ session[t] = NoSession
  /\ appLock' = NoThread
  /\ \/ Goto(t, "create")
     \/ Goto(t, "sleep")
  /\ UNCHANGED <<storeVars, threadVars, sessionVars, snLock, didTerminate,
                 appVars>>

\* session autocreation
AutocreateSession(t) ==
  /\ pc[t] = "create"
  /\ autocreate[t]
  /\ ~refuses
  /\ \E s \in Sessions :
       /\ InitializeSession(t, s)
       /\ session' = [session EXCEPT ![t] = s]
  /\ Goto(t, "lock")
  /\ UNCHANGED <<storeVars, contextID, sessionId, autocreate, isTerminating,
                 snLock, appLock, didTerminate, appVars>>

\* the application refuses new sessions, or -init returned nil
AutocreateFailed(t) ==
  /\ pc[t] = "create"
  /\ autocreate[t]
  /\ refuses \/ created = Sessions
  /\ \/ Goto(t, "require")
     \/ Goto(t, "sleep")
  /\ UNCHANGED <<storeVars, threadVars, sessionVars, snLock, appLock,
                 didTerminate, appVars>>

NoAutocreate(t) ==
  /\ pc[t] = "create"
  /\ ~autocreate[t]
  /\ Goto(t, "require")
  /\ UNCHANGED <<storeVars, threadVars, sessionVars, snLock, appLock,
                 didTerminate, appVars>>

\* requiresSessionForRequest: of the handler decides whether having no
\* session is an error
RequireSession(t) ==
  /\ pc[t] = "require"
  /\ \/ Goto(t, "lock")
     \/ Goto(t, "sleep")
  /\ UNCHANGED <<storeVars, threadVars, sessionVars, snLock, appLock,
                 didTerminate, appVars>>

\* Mutant: the session is not locked.
LockSessionNot(t) ==
  /\ pc[t] = "lock"
  /\ Goto(t, "handle")
  /\ UNCHANGED <<storeVars, threadVars, sessionVars, snLock, appLock,
                 didTerminate, appVars>>

\* [session lock]; a nil session or a nil wosLock locks nothing
LockSession(t) ==
  /\ pc[t] = "lock"
  /\ IF WORunMultithreaded /\ session[t] # NoSession
       THEN /\ snLock[session[t]] = NoThread
            /\ snLock' = [snLock EXCEPT ![session[t]] = t]
       ELSE UNCHANGED snLock
  /\ Goto(t, "handle")
  /\ UNCHANGED <<storeVars, threadVars, sessionVars, appLock, didTerminate,
                 appVars>>

\* the handler's own code asks the context for a session it does not have
HandlerCreatesSession(t) ==
  /\ pc[t] = "handle"
  /\ ctxSession[t] = NoSession
  /\ \E s \in Sessions : InitializeSession(t, s)
  /\ UNCHANGED <<storeVars, pc, contextID, sessionId, autocreate, session,
                 isTerminating, snLock, appLock, didTerminate,
                 appVars>>

\* the handler's own code terminates its session
HandlerTerminatesSession(t) ==
  /\ pc[t] = "handle"
  /\ ctxSession[t] \in Sessions \ isTerminating
  /\ isTerminating' = isTerminating \cup {ctxSession[t]}
  /\ UNCHANGED <<storeVars, pc, threadVars, created, isAwake, snContext,
                 snLock, appLock, didTerminate, appVars>>

\* Mutant: saves without asking whether the context has a session.
HandlerReturnsUnchecked(t) ==
  /\ pc[t] = "handle"
  /\ session' = [session EXCEPT ![t] = ctxSession[t]]
  /\ Goto(t, "save")
  /\ UNCHANGED <<storeVars, contextID, sessionId, autocreate, ctxSession,
                 sessionVars, snLock, appLock, didTerminate,
                 appVars>>

\* the handler returns: the local variable now is the context's session
HandlerReturns(t) ==
  /\ pc[t] = "handle"
  /\ session' = [session EXCEPT ![t] = ctxSession[t]]
  /\ Goto(t, IF ctxSession[t] = NoSession THEN "unlock" ELSE "save")
  /\ UNCHANGED <<storeVars, contextID, sessionId, autocreate, ctxSession,
                 sessionVars, snLock, appLock, didTerminate,
                 appVars>>

\* the handler raises: handleException:inContext: makes the response and
\* nothing is saved
HandlerRaises(t) ==
  /\ pc[t] = "handle"
  /\ Goto(t, "unlock")
  /\ UNCHANGED <<storeVars, threadVars, sessionVars, snLock, appLock,
                 didTerminate, appVars>>

\* Mutant: saving does not synchronize with restoring.
SaveSessionUnlocked(t) ==
  /\ pc[t] = "save"
  /\ SleepWithContext(session[t])
  /\ didTerminate' = IF session[t] \in isTerminating
                       THEN [didTerminate EXCEPT ![session[t]] = @ + 1]
                       ELSE didTerminate
  /\ Goto(t, "storeSession")
  /\ UNCHANGED <<storeVars, threadVars, created, isTerminating, snLock,
                 appLock, appVars>>

\* -[WOApplication saveSessionForContext:] enters its SYNCHRONIZED(self),
\* puts the session to sleep and announces a termination
SaveSession(t) ==
  /\ pc[t] = "save"
  /\ appLock = NoThread
  /\ appLock' = t
  /\ SleepWithContext(session[t])
  /\ didTerminate' = IF session[t] \in isTerminating
                       THEN [didTerminate EXCEPT ![session[t]] = @ + 1]
                       ELSE didTerminate
  /\ Goto(t, "storeSession")
  /\ UNCHANGED <<storeVars, threadVars, created, isTerminating, snLock,
                 appVars>>

\* Mutant: a terminating session is stored like any other.
StoreSessionAlways(t) ==
  /\ pc[t] = "storeSession"
  /\ InsertSession(session[t])
  /\ Goto(t, "storeInfo")
  /\ UNCHANGED <<activeSessions, now, timerVars, threadVars, sessionVars,
                 snLock, appLock, didTerminate, appVars>>

\* the store's saveSessionForContext:, first table
StoreSession(t) ==
  /\ pc[t] = "storeSession"
  /\ IF session[t] \in isTerminating
       THEN RemoveSession(session[t]) /\ Goto(t, "dropInfo")
       ELSE InsertSession(session[t]) /\ Goto(t, "storeInfo")
  /\ UNCHANGED <<activeSessions, now, timerVars, threadVars, sessionVars,
                 snLock, appLock, didTerminate, appVars>>

\* Mutant: a terminating session keeps its info.
StoreInfoKept(t) ==
  /\ \/ pc[t] = "storeInfo" /\ InsertInfo(session[t])
     \/ pc[t] = "dropInfo"  /\ UNCHANGED activeSessions
  /\ appLock' = NoThread
  /\ Goto(t, "unlock")
  /\ UNCHANGED <<idToSession, now, timerVars, threadVars, sessionVars, snLock,
                 didTerminate, appVars>>

\* second table; the application's lock is released on return
StoreInfo(t) ==
  /\ \/ pc[t] = "storeInfo" /\ InsertInfo(session[t])
     \/ pc[t] = "dropInfo"  /\ RemoveInfo(session[t])
  /\ appLock' = NoThread
  /\ Goto(t, "unlock")
  /\ UNCHANGED <<idToSession, now, timerVars, threadVars, sessionVars, snLock,
                 didTerminate, appVars>>

\* [session unlock]: unlocking a lock of another thread, or nobody's, raises;
\* the outer exception handler then skips the rest of the transaction
UnlockSession(t) ==
  /\ pc[t] = "unlock"
  /\ IF ~WORunMultithreaded \/ session[t] = NoSession
       THEN /\ Goto(t, "sleep")
            /\ UNCHANGED snLock
       ELSE IF snLock[session[t]] = t
         THEN /\ snLock' = [snLock EXCEPT ![session[t]] = NoThread]
              /\ Goto(t, "sleep")
         ELSE /\ Goto(t, "finish")
              /\ UNCHANGED snLock
  /\ UNCHANGED <<storeVars, threadVars, sessionVars, appLock, didTerminate,
                 appVars>>

\* Mutant: only saving puts a session to sleep.
SleepSessionNot(t) ==
  /\ pc[t] = "sleep"
  /\ Goto(t, "finish")
  /\ UNCHANGED <<storeVars, threadVars, sessionVars, snLock, appLock,
                 didTerminate, appVars>>

\* responseDone: the session sleeps once more, after the unlock
SleepSession(t) ==
  /\ pc[t] = "sleep"
  /\ IF session[t] # NoSession
       THEN SleepWithContext(session[t])
       ELSE UNCHANGED <<isAwake, snContext>>
  /\ Goto(t, "finish")
  /\ UNCHANGED <<storeVars, threadVars, created, isTerminating, snLock,
                 appLock, didTerminate, appVars>>

TooFewSessions ==
  refuses /\ activeSessionsCount < MinimumActiveSessionsCount

\* The context goes away; under the application's lock the transaction ends
\* by checking whether a refusing application has drained.
Finish(t) ==
  /\ pc[t] = "finish"
  /\ appLock = NoThread
  /\ appTerminating' = (appTerminating \/ TooFewSessions)
  /\ contextID' = [contextID EXCEPT ![t] = NoContext]
  /\ sessionId' = [sessionId EXCEPT ![t] = NoSession]
  /\ autocreate' = [autocreate EXCEPT ![t] = FALSE]
  /\ session' = [session EXCEPT ![t] = NoSession]
  /\ ctxSession' = [ctxSession EXCEPT ![t] = NoSession]
  /\ Goto(t, "idle")
  /\ UNCHANGED <<storeVars, sessionVars, snLock, appLock, didTerminate,
                 refuses, requests>>

HandleRequest(t) ==
  \/ Restore(t) \/ AttachSession(t) \/ RestorationFailed(t)
  \/ AutocreateSession(t) \/ AutocreateFailed(t) \/ NoAutocreate(t)
  \/ RequireSession(t) \/ LockSession(t)
  \/ HandlerReturns(t) \/ HandlerRaises(t)
  \/ SaveSession(t) \/ StoreSession(t) \/ StoreInfo(t)
  \/ UnlockSession(t) \/ SleepSession(t) \/ Finish(t)

-----------------------------------------------------------------------------
(* The expiration timer of the application *)

AllIdle == \A t \in Threads : pc[t] = "idle"

Crashed == \E t \in Threads : pc[t] = "dead"

Storing(t) == pc[t] \in {"storeSession", "storeInfo", "dropInfo"}

requestVars == <<pc, threadVars, sessionVars, snLock, appLock, didTerminate,
                 refuses, requests>>

\* -[WOApplication performExpirationCheck:] lets the store check ...
PerformExpirationCheck ==
  /\ \/ ScanExpired(\E t \in Threads : Storing(t))
     \/ RemoveExpiredInfo
     \/ RemoveExpiredSession
  /\ UNCHANGED requestVars
  /\ UNCHANGED appTerminating

\* Mutant: only a request notices that the application has drained.
CheckTerminationNot ==
  /\ timer = "countSessions"
  /\ timer' = "idle"
  /\ UNCHANGED <<idToSession, activeSessions, now, timedOut, expiring,
                 didTimeOut>>
  /\ UNCHANGED <<requestVars, appTerminating>>

\* ... and then looks whether a refusing application has drained; the count
\* waits for the store's lock
StoreLocked == \E t \in Threads : pc[t] \in {"storeInfo", "dropInfo"}

CheckTermination ==
  /\ timer = "countSessions"
  /\ refuses => ~StoreLocked
  /\ timer' = "idle"
  /\ appTerminating' = (appTerminating \/ TooFewSessions)
  /\ UNCHANGED <<idToSession, activeSessions, now, timedOut, expiring,
                 didTimeOut>>
  /\ UNCHANGED requestVars

Timer ==
  /\ WORunMultithreaded \/ AllIdle
  /\ ~appTerminating
  /\ ~Crashed
  /\ PerformExpirationCheck \/ CheckTermination

\* somebody sends refuseNewSessions:YES
RefuseNewSessions ==
  /\ ~refuses
  /\ ~Crashed
  /\ refuses' = TRUE
  /\ UNCHANGED <<storeVars, pc, threadVars, sessionVars, snLock, appLock,
                 didTerminate, appTerminating, requests>>

PassTime ==
  /\ ~Crashed
  /\ Tick
  /\ UNCHANGED <<requestVars, appTerminating>>

Next ==
  \/ \E t \in Threads : Receive(t)
  \/ \E t \in Threads : HandleRequest(t)
  \/ \E t \in Threads : CrashOnReleasedSession(t)
  \/ \E t \in Threads : HandlerCreatesSession(t)
  \/ \E t \in Threads : HandlerTerminatesSession(t)
  \/ Timer
  \/ RefuseNewSessions
  \/ PassTime

\* A request thread that can run does run, and the timer keeps firing.
Fairness ==
  /\ \A t \in Threads : WF_vars(HandleRequest(t))
  /\ WF_vars(Timer)

Spec == Init /\ [][Next]_vars
FairSpec == Spec /\ Fairness

-----------------------------------------------------------------------------
(* Properties of both modes *)

\* A restorable session is supervised: it keeps an info that lets the timer
\* expire it, except while a save is between its two inserts or the timer is
\* between its two removes.  The unlocked expiration check can leave an info
\* without a session, never a session that stays in the store for ever.
RestorableIsSupervised ==
  \A s \in idToSession :
    \/ HasInfo(s)
    \/ timer = "removeSession" /\ expiring = s
    \/ \E t \in Threads : pc[t] = "storeInfo" /\ session[t] = s

\* Nobody restores a session whose termination was announced: the
\* application's lock spans the announcement and the removal.  (Who restored it
\* earlier and waits for its lock still gets his handler run on it.)
NeverRestoredAfterTermination ==
  \A t \in Threads :
    pc[t] = "attach" /\ session[t] # NoSession => didTerminate[session[t]] = 0

\* A session runs in the handler of one request at a time.
HandlerExclusive ==
  \A t, u \in Threads :
    /\ pc[t] = "handle" /\ pc[u] = "handle"
    /\ ctxSession[t] = ctxSession[u] /\ ctxSession[t] # NoSession
    => t = u

\* what the next part of a request waits for: the application's lock, or the
\* lock of the session it found
Runnable(t) ==
  /\ pc[t] \notin {"idle", "dead"}
  /\ pc[t] \in {"restore", "save", "finish"} => appLock = NoThread
  /\ pc[t] = "lock" /\ WORunMultithreaded /\ session[t] # NoSession =>
       snLock[session[t]] = NoThread

\* No two requests wait for each other, and none for a lock that stayed behind
\* on some path of a request that has ended.
SomeRequestRuns ==
  ~AllIdle /\ ~Crashed => \E t \in Threads : Runnable(t)

\* While a request is under way some request can go on, and waiting for those
\* locks is all that ever stops one.  Since a request has finitely many parts,
\* all of them finish under fair threads.
RequestsNeverStuck ==
  /\ SomeRequestRuns
  /\ \A t \in Threads : Runnable(t) => ENABLED HandleRequest(t)

\* An application that refuses new sessions and has drained terminates.
DrainedApplicationTerminates ==
  <>[]TooFewSessions => <>(appTerminating \/ Crashed)

\* A session has ended once its termination was announced and it is out of
\* the store.
Ended == {s \in Sessions : didTerminate[s] > 0 /\ s \notin idToSession}

Registry == INSTANCE SessionRegistry WITH live <- idToSession, ended <- Ended

\* The request handling implements the session registry: whatever saves,
\* restores and expirations run beside each other, an ended session is never
\* put back into the store.
ImplementsRegistry == Registry!Spec

(* Properties of the single-threaded mode only *)

\* The two tables name the same sessions whenever no operation is under way.
TablesAgree ==
  AllIdle /\ timer \in {"idle", "countSessions"} =>
    \A s \in Sessions : s \in idToSession <=> HasInfo(s)

\* A session announced as timed out never comes back.
TimedOutStaysGone == didTimeOut \cap idToSession = {}

\* A session is awake exactly for its request: the handler runs on a session
\* that is awake in this request's context, and between requests every stored
\* session sleeps and points to no context, whatever exceptions the requests
\* ended with.
AwakeForItsRequest ==
  /\ \A t \in Threads :
       pc[t] = "handle" /\ ctxSession[t] # NoSession =>
         /\ ctxSession[t] \in isAwake
         /\ snContext[ctxSession[t]] = contextID[t]
  /\ AllIdle => \A s \in idToSession :
                  s \notin isAwake /\ snContext[s] = NoContext

\* A session's termination is announced once.
TerminationAnnouncedOnce == \A s \in Sessions : didTerminate[s] <= 1
=============================================================================
