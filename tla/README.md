# SOPE in TLA+

SOPE is an Objective-C application server with the libraries around it: HTTP
server and session handling (`sope-appserver/NGObjWeb`), database access and a
versioned content store (`sope-gdl1`), mail, MIME, LDAP, iCalendar and XML
libraries.  An Apache module in C (`sope-appserver/mod_ngobjweb`) connects web
servers to it.  This project models the parts that keep state shared between
requests, processes, connections or signal handlers, checks them with TLC on
small instances, and proves the main safety properties with TLAPS for instances
of any size.

All paths below are relative to `src/`; `NGObjWeb` stands for
`sope-appserver/NGObjWeb` and `GDLContentStore` for
`sope-gdl1/GDLContentStore`.  `PROJECT.json` has the line-by-line map from
definitions to code.  Nearly all of the program is Objective-C (`.m` files);
statistics over `.c` and `.h` files see the Apache module, the vendored
libraries and the class headers, and little of the code that is modelled.

## 1. Inventory

| Component | State | Operations | What is hard | What makes it correct |
|---|---|---|---|---|
| Session store (`WOServerSessionStore.m`) | `idToSession`, `activeSessions` (infos with timeout dates) | save, restore, expiration check | the expiration check changes both tables without the lock that saving takes | both tables agree; every session in the store can expire |
| Request transaction (`WORequestHandler.m`, `WOApplication.m`, `WOContext.m`, `WOSession.m`) | per request: context and session; per session: lock, awake flag, context, terminating flag; application: lock, refusing and terminating flags | restore or create a session, lock, run the handler, save or terminate, sleep, check for termination | two threads on one session, exceptions at every call, termination racing with restoring, expiration beside requests | one handler per session; no ended session comes back; no lock left behind; a drained application ends |
| Component request handler and page caches (`WOComponentRequestHandler.m`, `WOSession.m`) | request lock, two page caches by context id | save page, restore page, evict | eviction order, lock under exceptions | a page that was sent is found again, within the cache size |
| HTTP adaptor (`WOHttpAdaptor/WOHttpAdaptor.m`) | listening socket, table of worker pids | fork workers, accept, reap, kill, tear down | workers die at any time, SIGCHLDs coalesce, pids are reused, `fork()` fails | only own workers are killed; dead ones are reaped |
| HTTP transaction (`WOHttpAdaptor/WOHttpTransaction.m`, `WORequestParser.m`) | request, response, asynchronous token | read, dispatch, delay response, deliver | the response arrives after the transaction was reset or in a nested run loop | every request is answered once |
| Watchdog (`WOWatchDogApplicationMain.m`) | child pid, killed flag, fail counter, pid file | fork, wait, restart; SIGHUP, SIGTERM, SIGCHLD handlers | handlers interrupt the loop between any two steps and reap its child | one application at a time, restarted when it dies, a crash loop ends, nothing is left behind |
| Signal observers (`UnixSignalHandler.m`) | a chain of observers and a pending flag per signal | add, remove, signal handler, deferred dispatch | signals arrive during the dispatch, observers go away | each observer is called once per delivery, at the time it asked for |
| Content folder (`GDLContentStore/GCSFolder.m`) | blob table and quick table | write with base version, delete, fetch | no transaction spans the statements; statements of several processes interleave; each can fail; the process can die | versions only advance; success means stored; the quick table indexes the blob table |
| Channel pool (`GDLContentStore/GCSChannelManager.m`, `sope-gdl1/PostgreSQL/PostgreSQL72Channel.m`) | available and busy handles, open connections | acquire, release, collection timer | connection limit, failed opens, exceptions between acquire and release, expiration | no channel lent twice, none lost, none too old, connections bounded |
| Folder manager (`GDLContentStore/GCSFolderManager.m`) | folder table | path to row, create, delete folder | path components beyond the quick path columns | a path names one folder |
| GDLAccess (`sope-gdl1/GDLAccess`) | channel and context states, object uniquer | begin, commit, roll back, fetch | nested transactions, state of a channel while fetching | no fetch outside a transaction, balanced nesting |
| Protocol clients (`sope-mime/NGImap4`, `NGMail`) | connection state, connection cache | commands and responses | untagged responses, reconnect | commands only in the states the protocol allows |
| Apache module (`sope-appserver/mod_ngobjweb`) | per request: descriptor, retry counter, body, response tables; per connection: read and write buffer; per section: configuration | read the body, ask the name server, connect with retries, send, scan the response, relay it; directives and their merge | short reads and writes, answers cut off at any byte, an instance that restarts during the retries, error returns at every call | bytes in order and complete; the client gets the instance's answer; errors close what was opened; every request ends |
| The rest (SoObjects, WebDAV, dynamic elements, EOControl, NGExtensions, NGStreams, NGMime, NGiCal, NGLdap, XML libraries, tools) | mostly none shared | rendering, parsing, wrapping | | pure functions, or I/O |

How they interact.  A child of Apache sends each request over a connection of
its own to an instance of the application, which it finds by its configuration
or by asking the session name server (`snsd`).  In the instance, the run loop of the process calls the HTTP adaptor, which creates an HTTP transaction per
connection.  The transaction dispatches the request to a request handler of the
application; the handler takes sessions from the session store, and gives them
back.  A timer of the same run loop drives the expiration check; with
`WORunMultithreaded` requests run in threads of their own beside it.  The
watchdog is the parent process of the whole application, and signals are their
only communication.  Application code reaches the database through content
folders, which borrow channels from the pool; several application processes
share the database.  The pool has a collection timer on the run loop of its
process.

## 2. Modules

| Module | Models | Used by |
|---|---|---|
| `SessionStore` | the in-memory session store, clock and expiration scan | extended by `RequestHandler` |
| `RequestHandler` | the request/response transaction over the session store: threads, session and application locks, expiration timer, refusing and terminating | |
| `SessionRegistry` | abstract: sessions become reachable, leave, and end once | `RequestHandler` implements it |
| `GCSFolder` | writing and deleting documents by several processes | |
| `ChannelManager` | the channel pool under one process's operations | |
| `WatchDog` | the watchdog's loop and its signal handlers | |
| `UnixSignalHandler` | registration, delivery and dispatch of signals | |
| `ForkedWorkers` | the preforking master and its workers | |
| `NGBufferedDescriptor` | the buffered socket of the Apache module | |
| `ScanHTTP` | the scanner of response heads, as operators on character sequences | extended by `NGObjWebHandler` |
| `NGObjWebConfig` | directives of the Apache module and their merge, as operators | extended by `NGObjWebHandler` |
| `NGObjWebHandler` | one child of Apache serving requests, composed with the instance it talks to | |
| `MC...` | the sets, functions and symmetries of TLC's instances | |
| `...Proofs` | theorems about the module of that name (`NGObjWebProofs`: about `NGObjWebConfig` and `NGObjWebHandler`) | |

### RequestHandler and SessionStore

A thread's `pc` names the part of `-[WORequestHandler handleRequest:]` it runs
next.  The parts follow the code: *restore* asks the store, under the
application's lock (193-225); *attach* wakes the restored session, or handles a
failed restoration; *create* and *require* create a session on demand
(autocreation, `-[WOContext session]`); *lock* takes the session's lock;
*handle* is the handler of the subclass, which may create a session, terminate
it, return or raise; *save*, *storeSession*, *storeInfo* and *dropInfo* are
`saveSessionForContext:` and the two table writes of the store; *unlock*,
*sleep* and *finish* end the transaction.  The single-threaded mode (the
default) has nil locks and runs the timer only between requests, as one run
loop does; with `WORunMultithreaded` each table access is a step and the timer
interleaves with the threads.  A session released while a thread still uses it
(`CrashOnReleasedSession`) ends the process.

The store's `performExpirationCheck:` is `ScanExpired`, `RemoveExpiredInfo`
and `RemoveExpiredSession`.  A scan that runs beside a writer may miss entries.

`SessionRegistry` keeps only which sessions are reachable and which have ended;
the refinement mapping is `live <- idToSession`, and ended are the sessions
whose termination was announced and that are out of the store.

### GCSFolder

A step is one SQL statement: the `SELECT` of the version, the statement on the
blob table, the one on the quick table, the compensating `DELETE`.
`matchesStatement` is the `WHERE` clause with its version.  Any statement and
any opening of a channel can fail (`MaxFaults`), and a client can die between
two statements.  `suspect` is a history variable: documents with an operation
that reported an error or died, for which the code promises nothing.  Content
is a model value; the extractor is the function `QuickFields`, and gives no row
for the content it refuses.  `sameTable`, chosen in `Init` and never changed, is
the folder layout in which quick columns are columns of the blob table.  A
second history variable, `shared`, holds the documents two clients have worked
on at the same time: with two tables nothing orders their quick statements.

### ChannelManager

One process runs one operation at a time; it needs a channel for its blob table
and, unless both are one table, one for its quick table.  `Database` says which
URLs can share a channel; a folder whose two URLs are equal has one table, so
the URLs of an operation differ.  `OpenFails` is a refused connection (nil),
`NoMoreConnections` the exception of the PostgreSQL adaptor, which nobody up to
the request loop catches.  Time is a clock; an operation takes up to
`MaxOperationTime`, and the timer is late by at most that.

### WatchDog

`mainPc` is the loop: at its top, after `fork()`, after the assignment to
`child`, in `waitpid()`.  Handlers run between any two of these steps; a SIGHUP
or SIGTERM handler stays in `killChild()` until the child is dead.  `signal()`
restarts system calls, so the loop's `waitpid()` continues after a handler and
fails if the handler reaped the child.  The exit status of a child is chosen
when it is waited for.  Two history variables serve the properties:
`rapidFails` counts the rapid failures the loop saw in a row, `orphaned` marks a
SIGTERM between `fork()` and the assignment.

### UnixSignalHandler

The class in NGObjWeb, used when Foundation is not libFoundation.  `items` is
the chain of observers per signal, `listPending` the flag of a chain,
`signalsPending` the flag of the shared object.  The signal handler runs between
any two steps; `+_dispatch:` walks the lists one step each.  Registration puts
an item in front of the chain, also for an observer that has one already, and
`-removeObserver:`, which observers send from `dealloc`, unlinks the first item
an observer has in each chain.  Items do not retain observers, so a second one
stays behind: when it is called, the process crashes or goes on (`outcomes`).
Two history variables serve the properties: `owed` records the items whose
observer has a delivery to be told of, `twice` the observers that registered for
a signal while they had an item in its chain.

### ForkedWorkers

The master's `forkChildren`, `checkStatusOfChildren` and `killChildren` with one
step per slot of the table; each worker runs on a copy of the table as of its
`fork()`.  Freed pids may be given to unrelated processes.  A failed `fork()`
leaves -1 in its slot, as in the code.  SIGCHLD reaches the run loop as with
libFoundation.

### NGBufferedDescriptor

The descriptor's fields are variables under their own names.  A byte is its
place in its stream, so loss, repetition and reordering show as numbers.  A call
(`read`, `safeRead`, `write`, `flush`, `free`) begins, then takes one step per
`memcpy()`, `read()` or `write()`; `toGo` is what its loop still has to move and
`pos` the offset in the write buffer.  `read()` and `write()` move any number of
bytes up to the one asked for, end or fail.  `readChar` is a `safeRead` of one byte,
and `safeWrite` a `write`, which moves all or fails.  `crashed` is the `memcpy()`
of -1 bytes after a failed `read()` into the buffer.

### NGObjWebConfig and ScanHTTP

Pure code.  A configuration is a record; `merge_dir_configs` is
`ngobjweb_merge_dir_configs`.  For the scanner, a run of characters that nothing
tells apart is one character, and the sizes of the scanner's arrays are
constants that shrink with it.  `spanEnd` and `spanUntil` are the scanner's
`while` loops, as functions of the offset they begin at.  `NGScanResponseLine` returns what was taken for
the status and where the line ends; `ScanHeader` is one turn of the loop of
`NGScanHeaders`, with each of its `break`s.

### NGObjWebHandler

`pc` is the place in `ngobjweb_handler`; a step ends where the code calls the
client, the name server or the instance.  `own` counts the descriptors of the
running request and `leaked` the ones earlier requests left open; `socket()`
fails when they reach `MaxFds`.  The retries of `_connectInstance` are steps, so
the instance can start or stop between two of them.  The instance is
`-deliverResponse:toRequest:onStream:`: it receives the request, then sends a
response and closes, or dies after any part of it; `stream` is what it sent, and
the handler scans it with `ScanHTTP`.  A number is sent as the element of
`Numerals` that stands for it, one character, and `atoi` reads it back.  `plain`
names the responses the scanner is made for: status and headers follow the
grammar of HTTP, the headers fit the arrays, and no name is sent twice.  `Crash` is the end of the child, after a
`read()` error inside the buffer or the second free of a descriptor; Apache
starts another.

## 3. Runs

| Run | Instance | Checks |
|---|---|---|
| `sessions_single` | 1 thread, 2 sessions, 4 requests, clock to 4, timeout 1 | `TypeOK`; `TablesAgree`; `TimedOutStaysGone`; `AwakeForItsRequest`; `TerminationAnnouncedOnce`; `DrainedApplicationTerminates` (fair) |
| `sessions_threads` | 2 threads, 2 sessions, 3 requests, clock to 2 | `RestorableIsSupervised`; `NeverRestoredAfterTermination`; `HandlerExclusive`; `RequestsNeverStuck`; `ImplementsRegistry` |
| `folder` | 2 clients, 1 document, 3 contents, 3 operations, 2 faults, both layouts | `TypeOK`; `QuickIndexesStore`; `FailedCreateUndone`; `VersionsAdvanceProperty` |
| `folder_conflict` | 2 clients, 1 document, no faults | finding: `SuccessMeansStored` |
| `channel_pool` | 2 URLs on each of 2 databases, 4 channels, limit 2, clock to 6 | `TypeOK`; `PoolAccounted`; `PoolAgeBounded`; `ConnectionsBounded` |
| `channel_leak` | the same, clock to 4 | finding: `NothingLentWhenIdle` |
| `watchdog` | 3 pids, fail limit 20, 4 signals | `TypeOK`; `AtMostOneChild`; `ExitCleansUp`; `RapidFailuresStop`; `ApplicationComesBack` (fair) |
| `signals_safety` | 2 observers, 2 signals, chains of up to 3 items, 4 deliveries | `TypeOK`; `ImmediateNeverOwed` |
| `signals_deferred` | 1 observer, 1 signal | finding: `DeferredAreNotified` |
| `workers` | 3 slots, 4 pids, at most 1 failing fork | `TypeOK`; `KillsOnlyOwnChildren`; `TearDownKillsAll`; `DeadWorkersReaped` (fair) |
| `descriptor` | buffers of 3 bytes, calls of 1 to 4 bytes, 4 bytes each way, 1 failing `write()` | `TypeOK`; `ReadsExact`; `WritesExact`; `CallsReturn` (fair) |
| `adaptor` | 1 descriptor, 2 requests, bodies to 2, 1 fault, all merges of 3 sections, 3 kinds of response | `TypeOK`; `InstanceSeesAcceptedOnly`; `ResponseRelayed`; `NothingInvented`; `ErrorsCloseAll`; `RequestsAnswered` (fair) |

Why the bounds are enough.  A session needs a request that creates it and two
that use it at the same time for every race in the code: three requests and two
threads.  A second session separates properties of one session from those of
the store.  A timeout of 1 and a clock of 2 let a session expire once; 4 lets it
expire, be created anew and expire again.  A version conflict needs two clients,
and a third content tells the winner's row from the loser's.  Four channels
exceed the limit of two by the one the code admits and one more, and two URLs
per database let an operation hold two channels of either.  Three items per
chain are two of one observer with another's before, between or behind them.
The watchdog
uses the real fail limit; three pids are the last child, the next one and a
spare, and since it never has more than one child more would not differ.  Four
signals interrupt each other's handlers.  Three worker slots are a first, a
middle and a last one; the fourth pid allows reuse.  A call of four bytes over
buffers of three goes around the buffer, and shorter ones fill it partly, fully
and across two `read()`s; four bytes each way let it wrap.  For the Apache module
one descriptor is enough to run out of them, two requests let the first one's
leak meet the second, and one fault hits any of its calls; the responses are an
empty one, one with a header of several words and a body, and one with a header
too long for the scanner's (shrunk) array.  The number of retries is the real
one.  Clock, request, operation,
fault and signal counters are bounds of the instances only and do not limit the
theorems, which hold for every value of them.  Runs with `CHECK_DEADLOCK FALSE`
stop when such a bound is used up; the watchdog and the workers have an explicit
final state and are checked for deadlock.

The violation runs check the smallest instance that shows their finding.

Symmetry is used over sessions, threads, clients, channels and observers, in the runs
without liveness properties only.

Fairness.  `RequestHandler`: a thread that can run does run, and the repeating
timer keeps firing (weak fairness of each thread's transaction and of the
timer); requests and the clock owe nothing, so the liveness property is about
an application nobody calls any more.  `WatchDog`: the kernel schedules the
process, lets `fork()` succeed after finitely many failures, delivers pending
signals, and the application obeys SIGTERM, for which `WOCoreApplication`
installs a handler; a child never has to die on its own.  `ForkedWorkers`: the
master's run loop runs; no worker has to die and nobody has to terminate it.
`NGBufferedDescriptor`: `read()` and `write()` return, because the peer sends,
takes what it is sent, or closes; no error has to occur.  `NGObjWebHandler`: the
child runs, client and name server answer or close, and an instance that got a
request answers or dies; it owes no start to a handler that retries.  The code
sets no timeouts on its sockets, so a peer that stays silent for ever does hang
it; fairness excludes that.

`RequestsNeverStuck` states the absence of deadlocks with `ENABLED` instead of
fairness: whenever a request is under way, some request waits for no lock
(`SomeRequestRuns`), and one that waits for no lock can take its next step
(`Runnable` implies `ENABLED`).  A request has finitely many parts
(`RequestsHaveFinitelyManyParts`), so all finish if the threads run.

## 4. What is proved

TLAPS checks these for every value of the constants that satisfies the named
assumptions of the module (`ASSUME`); those only say that bounds are numbers,
that distinguished values differ from the others, that a single-threaded
application has one thread, and for the Apache module that responses are made of
characters and that the lengths of their bodies have numerals.

| Theorem | Statement | Argument |
|---|---|---|
| `RequestHandlerProofs!TypeCorrect` | `[]TypeOK` | inductive; that a saving request has a session is part of it |
| `SupervisedCorrect` | `[]RestorableIsSupervised` | with `StoreInv`: a terminating save has taken its session out of the first table before it drops the info |
| `TerminationCorrect` | `[](NeverRestoredAfterTermination /\ TerminationInv)`: after its announcement a session is never restored, and in the store only until the save that terminates it has taken it out.  It says nothing of a thread that restored the session before | `AppLockInv` (who is in a locked part holds the application's lock) and `TerminationInv` (an announced session is in the store only while its terminating save, which holds the lock, is about to take it out) |
| `ExclusiveCorrect` | `[]HandlerExclusive` | `FlowInv` (what a thread's session variables are at each `pc`) and `PrivateInv` (a session not yet in the store belongs to one thread): the lock protects the restored sessions, privacy the new ones |
| `RegistryImplemented` | `Spec => Registry!Spec` | from `InductiveInv`, each step maps to a registry step or a stutter |
| `TablesCorrect`, `TimedOutCorrect`, `AwakeCorrect`, `AnnouncedOnceCorrect`, `NeverCrashes` | assuming `~WORunMultithreaded`: the invariants of `sessions_single`, and `[]~Crashed` | `SingleInv`: the check runs only while no request does (`TimerAlone`); the tables differ at most in the session being saved or expired (`TablesInv`); nobody has a timed-out session in hand (`TimedOutInv`); a restored session is still in the store when the context retains it (`RestoredInv`); a stored session sleeps or is the running request's (`AwakeInv`); a request that may announce a termination has a session nobody announced (`AnnouncedInv`) |
| `NeverStuckCorrect` | `[]SomeRequestRuns`, both modes | `LockInv`, the converse of `AppLockInv`: only a thread inside a synchronized part holds the application's lock, only one between the lock and the unlock of its session holds the session's.  A holder of the application's lock waits for nothing, a holder of a session's lock at most for the application's, so whoever waits is at most two locks from one that can go on |
| `RequestsHaveFinitelyManyParts` | `[][RequestsShrink]_vars`, both modes | `partsLeft` counts the parts a request has at most ahead of it, fourteen when it arrives; each part lowers it, and other threads can only lower it too, by terminating the session a handler shares with them |
| `GCSFolderProofs!FolderTypeCorrect` | `[]TypeOK` | with `Checked`: a client past the check has a quick row and the expected version |
| `VersionsAdvanceCorrect` | `[][VersionsAdvance]_vars` | `Checked` and the version in the `WHERE` clause |
| `QuickIndexesStoreCorrect` | `[]QuickIndexesStore`, both layouts | one table: `SameTableConsistent` (the quick columns always describe the content of their row); two tables: `SoloInv`, what the only client at work on a document knows of its two rows at each statement, `Tracked` as long as nothing failed on it and `Unshared` in any case |
| `FailedCreateUndoneCorrect` | `[][CreateUndone]_vars` | `SoloInv`: a client that is to take its INSERT back has met a fault, so a failing DELETE would be the second |
| `SuccessStoredUnlessShared` | `[][SuccessStored]_vars`: a success that had the document to itself is stored | `AloneInv`: what a client that met nobody else at work on the document knows of its rows at each statement, so the `UPDATE` finds the version the check fetched |
| `ChannelManagerProofs!PoolTypeCorrect`, `PoolAccountedCorrect`, `PoolAgeCorrect` | the invariants of `channel_pool` | `OperationOK` (what an operation holds in each phase) and `TimerOK` (the timer is late by at most the operation that runs; a pooled channel was young enough at the last collection) |
| `ConnectionsCorrect` | `[]ConnectionsBounded` | only `CreateChannel` adds a connection, and the comparison precedes it |
| `LostOnlyByException` | `[][LossAccounted]_vars` | step by step: all paths but `NoMoreConnections` release what they hold, and nothing else touches a lent channel |
| `EnoughConnectionsNoLeak` | assuming finitely many databases and a limit of at least twice their number less one: nothing is lent between operations, and whoever needs a new channel may open it | `TwoInv`: a channel in use belongs to the running operation, and a database never has more than two channels, because an operation has at most one when it looks for its second and takes that from the pool if it can; a channel is mapped into one of two places of its database, and the one to be opened has a place left over |
| `WatchDogProofs!WatchDogTypeCorrect`, `OneChildCorrect`, `CleanExitCorrect`, `RapidFailuresCorrect` | the invariants of `watchdog` | `LastForked` (nobody but the process forked last exists), `ChildKnown` (`child` names it after the assignment, or a handler has seen it die), `FailuresCounted` |
| `RestartComesNearer` | `[][gone /\ gone' => ComesNearer]_vars` | `restartDistance`: twice the signals still to come (`MaxSignals` bounds them), the handler that runs, the SIGCHLD that waits, and the steps of the loop to its top |
| `ForkedWorkersProofs!WorkersTypeCorrect`, `KillsOnlyOwnChildrenCorrect`, `TearDownKillsAllCorrect` | the invariants of `workers` | `Ahead` (slots not forked yet are empty, so a fork overwrites none), `Apart`, and `Exact` (without a failed fork the table names each worker once and nobody else, also while it is being cleared) |
| `NoWorkerForgottenCorrect`, `CheckReapsAll` | `[]NoWorkerForgotten`; a check that ends without a new SIGCHLD has reaped everybody | with the invariant above: a zombie is in the table, so its slot lies ahead of the check, or its SIGCHLD came after the check had passed it |
| `UnixSignalHandlerProofs!SignalsTypeCorrect`, `ImmediateNeverOwedCorrect` | the invariants of `signals_safety` | `OnceUnlessTwice` (who registered for a signal once has one item in its chain, so unlinking the first removes it: lemma `RemovedFirst`); the handler marks the chain before it calls, so no immediate item is passed over |
| `DispatchCallsNobody`, `DeferredNeverCalled` | the deferred pass calls nobody, so it never meets an item whose observer is gone; an owed call is never made | `NothingPending`: between two steps no list is marked, because the immediate pass has cleared the mark |
| `NGBufferedDescriptorProofs!TypesCorrect`, `ReadsStayExact`, `WritesStayExact` | the invariants of `descriptor`, for every buffer size | the read buffer holds the bytes between the ones delivered and the ones taken from the socket; the write buffer those between the ones on the wire and the ones accepted |
| `CallsMakeProgress` | `[][call \notin {"none", "freed"} => CallShrinks]_vars` | `workLeft`: the bytes still to be moved and, for a write, to be flushed |
| `NGObjWebProofs!MergedPortsInDomain`, `MergeAssociative` | about `merge_dir_configs`, for all configurations | a port brings its own domain with it |
| `HandlerTypeCorrect`, `AcceptedOnlyCorrect`, `ErrorsCloseCorrect` | of `adaptor`: `[]TypeOK`, `[]InstanceSeesAcceptedOnly`, `ErrorsCloseAll` | what has been read, opened and sent at each place of the handler |
| `RelayedCorrect`, `NothingInventedCorrect` | of `adaptor`: `[]ResponseRelayed`, `[]NothingInvented`, for any number of headers, any bodies and any array sizes | `RelayInv`, see below |
| `HandlerMakesProgress` | `[]AtInv`, `[](turnsLeft \in Nat)` and `[][pc # "idle" /\ ~clientError' => AnswerNearer]_vars`, for any responses | `TurnTakes`: on any characters at all a turn of `NGScanHeaders` takes one at least, and stores a header only if the whole of it is there; so the stage and the turns left in it go down lexicographically |

The invariants alone are not inductive.  `AtMostOneChild`, for instance, is kept
by a `fork()` only because the loop is at its top when everybody is dead, which
is what `LastForked` says; `NeverRestoredAfterTermination` needs to know that
announcement and removal lie in one locked stretch.

What the client gets of a response is proved in three layers.

1. *Layout*: `DeliverLayout` says at which offset of what the instance sends the
   status, each header line, the empty line and the body lie.  The headers are
   flattened by a recursive function on sequences of any length; the induction it
   needs is over the set of offsets for which a fact holds (`SetInduction`), which
   is first-order and follows from the well-foundedness of the numbers
   (`NatLeast`).
2. *Scanner*: a run of characters has exactly one end (`RunExists`, `RunUnique`),
   so `spanEnd` and `spanUntil` are what the loops compute.  `ScanSteps` says what
   one turn of `NGScanHeaders` does on any prefix of a plain response: it takes the
   next header, or meets the empty line, or the stream has ended and it stores
   nothing.
3. *Handler*: `RelayInv` is inductive.  `StreamInv`: what has been sent is a prefix
   of the response, all of it if the response is whole.  `HeadersInv`: the handler
   stands at the beginning of some header line, and its table holds the headers
   before it.  `ContentInv`: the scan of the headers ended behind the empty line,
   with all of them in the table, or at the end of a stream that was cut off before
   it.  `LengthIs`, for which the names must be unique, gives the length the handler
   reads from the table: that of the body, or 0 where that header is missing.

Four of the liveness properties and the claim that requests finish have their
safety half proved: a measure over the naturals that the steps of the process
lower and no other step raises (`partsLeft`, `restartDistance`,
`workLeft`, `stagesLeft` with `turnsLeft`), or, for the workers, that the notice of
a death is never lost.  What is left to fairness is only that the process takes
steps.  The halves say what fairness could not repair: a loop that makes a pass
without getting anywhere, or a wake-up that was missed.

The three disagreements of section 5 are proved from both sides.
`DeferredNeverCalled` says that the one behaviour its run shows is what happens
always.  `LostOnlyByException` and `EnoughConnectionsNoLeak` say that the leak has
no second cause and which connection limit excludes it: with two databases a limit
of 3 does and one of 2 does not, and the default of 50
(`PostgreSQL72Channel.m:80-82`) serves 25 databases.  `SuccessStoredUnlessShared`
says that nothing but a second client at work on the document makes a reported
success untrue: no fault, no crash and no leftover of an earlier operation does.

Only model-checked: the liveness properties (`DrainedApplicationTerminates`,
`ApplicationComesBack`, `DeadWorkersReaped`, `CallsReturn`, `RequestsAnswered`) and
the second half of `RequestsNeverStuck`, that a request which waits for no lock can
take its next step: fairness and `ENABLED` are beyond the prover.

## 5. Where code and documentation disagree

Each has a run that shows it.

* `folder_conflict`: an `UPDATE` whose version matched no row is reported as
  success, and the quick row is overwritten all the same.
* `channel_leak`: at the connection limit the adaptor raises where the folder
  expects nil, and the channel already acquired is never released.
* `signals_deferred`: deferred observers of a signal are never called, because
  the immediate pass clears the flag the deferred pass looks at.  libFoundation's
  copy of the class does not have this problem.

Seen while modelling, and built into the models and properties:

* With `WORunMultithreaded`, `handleRequest:` locks the session it restored and
  unlocks the one its context has at the end (`WORequestHandler.m:272`).  If the
  handler created the session, that lock was never taken, `NSRecursiveLock`
  raises, and the rest of the transaction is skipped; `RequestsNeverStuck` and
  `HandlerExclusive` hold all the same.
* `writeContent:...` and `deleteContentWithName:` return nil, which means
  success, when no channel could be opened (`GCSFolder.m:525, 531, 627-635`).
* The connection limit admits one connection more than it says
  (`PostgreSQL72Channel.m:172`); `ConnectionsBounded` states the real bound.
* After a failed `fork()` the -1 in the table reaches `kill()` and `waitpid()`
  (`WOHttpAdaptor.m:304-315, 343`); `KillsOnlyOwnChildren` excludes that case.
* With two tables, a crash or two concurrent writers break the quick index;
  `QuickIndexesStore` is claimed for one writer, or for one table.
* A SIGTERM between `fork()` and the assignment leaves the new application
  running (`WOWatchDogApplicationMain.m:289-325`).
* With several threads, the expiration check may announce a session as timed
  out that a running request then saves again, and `_sleepWithContext:` runs
  after the session's lock is released.  `TimedOutStaysGone`, `TablesAgree` and
  `AwakeForItsRequest` are properties of the single-threaded mode.
* `NeverRestoredAfterTermination` is about restoring.  A thread that restored a
  session before another terminated it, and waited for its lock
  (`WORequestHandler.m:193-242`), runs its handler on the terminated session; what
  its save then does is within `ImplementsRegistry`: the session does not come back
  into the store.
* An observer that registers twice for a signal and is deallocated leaves an item
  behind (`UnixSignalHandler.m:92-102, 132-143`), and an immediate one is called
  with the next signal; `DeadOnlyIfTwice`, part of `TypeOK`, states that nothing
  else leaves one.  `WOHttpAdaptor` registers for SIGCHLD in every
  `registerForEvents` (`WOHttpAdaptor.m:287-289, 407`) and removes itself once
  (258); its items are deferred, and those are never called.
* The preforking master that terminates inside a request calls `exit(0)` and
  leaves its workers running (`WOHttpAdaptor.m:656`).
* In `mod_ngobjweb`, when the client's connection breaks while the body is read,
  the -1 is subtracted from the bytes to go, and the loop never ends
  (`handler.c:106`); `RequestsAnswered` excludes that case.
* A response to HEAD, or with content-length 0, is relayed without closing the
  connection to the instance (`handler.c:719`): the child loses a descriptor each
  time.  `ErrorsCloseAll` is about the other returns.
* When the body ends early, the descriptor is freed twice and a child that
  survives it sends the buffer, with zeros where nothing was read, as OK
  (`handler.c:702-709`).
* A `read()` into the buffer that fails makes -1 the fill size and the length of a
  `memcpy()` (`NGBufferedDescriptor.c:154-171`), also while the reply of the name
  server is read (`SNSReadError`).
* A flush that fails after a partial write keeps the whole buffer, and the next
  one sends the first part again (`NGBufferedDescriptor.c:250`); `WritesExact`
  ends with the first failing `write()`.
* A status line without a reason takes the next line for it
  (`scanhttp.c:72-78`), an empty or over-long header value ends the scan of the
  headers (155-161), and of repeated headers, `set-cookie` among them, only the
  last is kept (174).  `ResponseRelayed` is about headers the scanner is made
  for.
* The name server's reply may have 1024 bytes and is read into a buffer of 1000
  (`sns.c:320`).
* Header values with line ends are sent with `%` as `%37`, its decimal code, where
  the comment says `%25` (`NGBufferedDescriptor.c:320-333`); texts are not
  modelled.

## 6. Limits of the models

* Hooks an application overrides (`awake`, `sleep`, error pages) do not raise;
  the request handler itself may.
* A hash table operation is atomic.  A data race inside one is not modelled;
  a scan beside a writer may miss entries.
* SQL statements are atomic and commit alone, as autocommit does.
* Busy and available handles are sets; which of several fitting handles is
  reused is left open.
* Counters that only matter up to a limit saturate there.
* The connection counter of the PostgreSQL adaptor is the number of open
  connections of one pool; other users of the adaptor in the process are left
  out.
* Session ids: a new session is a new value.  Whether their text is unique
  (`WOApplication.m:561`) is not looked at.
* A pooled channel whose server went away still counts as open
  (`GCSChannelManager.m:210`); in the model a connection ends only by closing it.
* In `NGObjWebHandler` the texts of request line, adaptor headers and SSL
  variables are left out: writing them is one step, which succeeds while the
  connection is open.  The descriptor is used as its specification says
  (`ReadsExact`, `WritesExact`), so the handler sees a sequence and its end.
* The instance answers a request when it has all of it, and once.

## 7. Plan

Done: 1. `SessionStore`, `RequestHandler`, `SessionRegistry`; 2. `GCSFolder` and
`ChannelManager`; 3. `WatchDog`, `UnixSignalHandler`, `ForkedWorkers`; 4. the
Apache module: `NGBufferedDescriptor`, `ScanHTTP`, `NGObjWebConfig` and
`NGObjWebHandler`; all with proofs.

Next, in this order:

5. The component request handler and the session's page caches: a page sent to
   the browser is restored within the cache size; the handler's request lock
   under exceptions.  It extends `RequestHandler`'s *handle* part.  Abstract
   specification: a bounded map from context ids to pages.
6. `WOHttpTransaction`: reading, dispatch, asynchronous responses and their
   tokens, reset.  Abstract specification: each accepted request is answered at
   most once, and answered unless its connection is gone.  It replaces the
   instance in `NGObjWebHandler`.
7. The composition of `UnixSignalHandler` and `ForkedWorkers`: reaping with
   each of the two Foundation libraries.
8. `SNSConnection` and the notification of session life cycles when the
   connection is lost.
9. GDLAccess: channel and transaction states of `EODatabaseContext` and
   `EOAdaptorContext`; nested transactions against a flat one.
10. `GCSFolderManager`: path to row as a function, against a reference
    definition.
11. `NGImap4` connection cache and client states; `NGBufferedStream`.
12. Proofs: the refinements of 5 and 6.  Every invariant and action property a
    passing run checks has its theorem, except the `ENABLED` part of
    `RequestsNeverStuck`.

Not modelled, and not planned: rendering of dynamic elements, XML and MIME
parsing, SQL text, iCalendar recurrence (functions over texts and dates, without
shared state), wrappers of C libraries, tools, samples, build files, and the
vendored libFoundation, which is consulted where NGObjWeb depends on its
behaviour.
