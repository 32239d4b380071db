------------------------- MODULE UnixSignalHandler -------------------------
(***************************************************************************)
(* Signal observers (NGObjWeb/UnixSignalHandler.m, the copy used when the  *)
(* Foundation library is not libFoundation).  A Unix signal runs           *)
(* signalHandlerFunction() between any two steps of the process: it calls  *)
(* the "immediate" observers and queues a notification that lets the run   *)
(* loop call the others in +_dispatch:.  Observers are not retained: an    *)
(* item whose observer is gone is called like any other, and what happens  *)
(* then is undefined (the process crashes or goes on).                     *)
(***************************************************************************)
EXTENDS Naturals, Sequences, SequencesExt, FiniteSets

CONSTANTS
    NSIG,       \* signals are 1..NSIG
    Observers,  \* objects that observe signals
    MaxItems,   \* bound: items in the list of a signal
    MaxSignals  \* bound: signals sent

ASSUME SignalsAssumption ==
    NSIG \in Nat /\ MaxItems \in Nat /\ MaxSignals \in Nat

VARIABLES
    items,          \* [signal -> its UnixSignalHandlerListItems, first to last]
    listPending,    \* [signal -> signalsPending of its list]
    signalsPending, \* of the shared handler
    queued,         \* the pending notification is in the ASAP queue
    raised,         \* signals the kernel has not delivered yet
    pc,             \* "loop", "list" in +_dispatch:, or "crashed"
    index,          \* the list +_dispatch: is at
    alive,          \* observers that are not deallocated
    sent,           \* signals sent so far
    owed,           \* <<signal, item>> of deliveries its observer waits for
    twice           \* <<signal, observer>> registered while already in the list

vars == <<items, listPending, signalsPending, queued, raised, pc, index, alive,
          sent, owed, twice>>

Signals == 1..NSIG
Items == [observer : Observers, immediate : BOOLEAN]
observersOf(s) == {item.observer : item \in ToSet(items[s])}

Init ==
    /\ items = [s \in Signals |-> << >>]
    /\ listPending = [s \in Signals |-> FALSE]
    /\ signalsPending = FALSE /\ queued = FALSE
    /\ raised = {} /\ sent = 0
    /\ pc = "loop" /\ index = 1
    /\ alive = Observers
    /\ owed = {} /\ twice = {}

-----------------------------------------------------------------------------
(* Registration, with the signal blocked                                   *)

\* -addObserver:... puts an item in front, also of an observer that has one.
AddObserver(o, s, imm) ==
    /\ pc = "loop" /\ o \in alive /\ Len(items[s]) < MaxItems
    /\ items' = [items EXCEPT ![s] = <<[observer |-> o, immediate |-> imm]>> \o @]
    /\ twice' = IF o \in observersOf(s) THEN twice \cup {<<s, o>>} ELSE twice
    /\ UNCHANGED <<listPending, signalsPending, queued, raised, pc, index, alive,
                   sent, owed>>

\* Mutant: the chain is only searched at its head.
WithoutHead(q, o) == IF q # << >> /\ q[1].observer = o THEN Tail(q) ELSE q

\* The chain without the first item of the observer.
Without(q, o) ==
    LET at == SelectInSeq(q, LAMBDA item : item.observer = o)
    IN IF at = 0 THEN q ELSE RemoveAt(q, at)

\* -removeObserver: of an object that goes away: one item of every list.
RemoveObserver(o) ==
    /\ pc = "loop" /\ o \in alive
    /\ items' = [s \in Signals |-> Without(items[s], o)]
    /\ alive' = alive \ {o}
    /\ owed' = {d \in owed : d[2].observer # o}
    /\ UNCHANGED <<listPending, signalsPending, queued, raised, pc, index, sent,
                   twice>>

-----------------------------------------------------------------------------
(* The signal handler                                                      *)

Raise(s) ==
    /\ pc # "crashed" /\ sent < MaxSignals
    /\ sent' = sent + 1
    /\ raised' = raised \cup {s}
    /\ UNCHANGED <<items, listPending, signalsPending, queued, pc, index, alive,
                   owed, twice>>

\* The items -invokeIfCalledImmediatelyIs:signal: calls ...
invoked(s, flag, pending) ==
    {item \in ToSet(items[s]) : pending /\ item.immediate = flag}

\* ... the signalsPending of the list after it: cleared, whoever is left ...
pendingAfter(s, flag, pending) == FALSE

\* ... and how the calls end, where one goes to an observer that is gone.
outcomes(called) ==
    {pc} \cup {"crashed" : item \in {i \in called : i.observer \notin alive}}

\* signalHandlerFunction() with its outcome for a list that is pending or not.
HandleSignal(s, pending) ==
    /\ pc # "crashed" /\ s \in raised /\ items[s] # << >>
    /\ raised' = raised \ {s}
    /\ listPending' = [listPending EXCEPT ![s] = pendingAfter(s, TRUE, pending)]
    /\ signalsPending' = TRUE
    /\ queued' = TRUE
    /\ owed' = (owed \cup {<<s, i>> : i \in {i \in ToSet(items[s]) : i.observer \in alive}})
                   \ {<<s, i>> : i \in invoked(s, TRUE, pending)}
    /\ pc' \in outcomes(invoked(s, TRUE, pending))
    /\ UNCHANGED <<items, index, alive, sent, twice>>

\* Mutant: the observers are called before the list is marked.
SignalHandlerFunctionLate(s) == HandleSignal(s, listPending[s])

\* All signals are blocked while it runs; it marks the list before it calls.
SignalHandlerFunction(s) == HandleSignal(s, TRUE)

\* A signal nobody observes never reaches the handler (its default applies).
DefaultAction(s) ==
    /\ pc # "crashed" /\ s \in raised /\ items[s] = << >>
    /\ raised' = raised \ {s}
    /\ UNCHANGED <<items, listPending, signalsPending, queued, pc, index, alive,
                   sent, owed, twice>>

-----------------------------------------------------------------------------
(* +_dispatch: in the run loop; signals interrupt it between two steps      *)

StartDispatch ==
    /\ pc = "loop" /\ queued
    /\ queued' = FALSE
    /\ IF signalsPending THEN pc' = "list" /\ index' = 1 ELSE UNCHANGED <<pc, index>>
    /\ UNCHANGED <<items, listPending, signalsPending, raised, alive, sent, owed, twice>>

\* -invokeIfCalledImmediatelyIs:NO of one list.
DispatchList ==
    /\ pc = "list" /\ index <= NSIG
    /\ owed' = owed \ {<<index, i>> : i \in invoked(index, FALSE, listPending[index])}
    /\ pc' \in outcomes(invoked(index, FALSE, listPending[index]))
    /\ listPending' = [listPending EXCEPT ![index] =
                           pendingAfter(index, FALSE, listPending[index])]
    /\ index' = index + 1
    /\ UNCHANGED <<items, signalsPending, queued, raised, alive, sent, twice>>

EndDispatch ==
    /\ pc = "list" /\ index > NSIG
    /\ signalsPending' = FALSE
    /\ pc' = "loop" /\ index' = 1
    /\ UNCHANGED <<items, listPending, queued, raised, alive, sent, owed, twice>>

Dispatch == StartDispatch \/ DispatchList \/ EndDispatch

Next ==
    \/ \E s \in Signals : Raise(s) \/ SignalHandlerFunction(s) \/ DefaultAction(s)
    \/ \E o \in Observers :
        \/ RemoveObserver(o)
        \/ \E s \in Signals, imm \in BOOLEAN : AddObserver(o, s, imm)
    \/ Dispatch

Spec == Init /\ [][Next]_vars

-----------------------------------------------------------------------------
(* Properties                                                              *)

\* -removeObserver: unlinks one item of a list.  A deallocated observer is
\* still in one only when it had registered for that signal again, and only
\* such an item makes a signal crash the process.
DeadOnlyIfTwice ==
    /\ \A s \in Signals : \A o \in observersOf(s) \ alive : <<s, o>> \in twice
    /\ pc = "crashed" => \E d \in twice : d[2] \notin alive

\* Every variable keeps its type, and items outlive their observer in the one
\* case of DeadOnlyIfTwice.
TypeOK ==
    /\ items \in [Signals -> Seq(Items)]
    /\ listPending \in [Signals -> BOOLEAN] /\ signalsPending \in BOOLEAN
    /\ queued \in BOOLEAN /\ pc \in {"loop", "list", "crashed"}
    /\ index \in 1..(NSIG + 1)
    /\ raised \subseteq Signals /\ sent \in 0..MaxSignals
    /\ alive \subseteq Observers
    /\ owed \subseteq Signals \X Items
    /\ twice \subseteq Signals \X Observers
    /\ DeadOnlyIfTwice

\* terminateOnSignal: and the other observers that registered for it have been
\* called when the signal handler returns, whatever the run loop is doing.
ImmediateNeverOwed == \A d \in owed : ~d[2].immediate

\* "Those that want to be called after the signal occured are invoked at a
\* later time, when the current NSRunLoop finishes the current cycle" (235-237):
\* with nothing queued and nothing in dispatch, nobody waits for a call.
DeferredAreNotified == pc = "loop" /\ ~queued => owed = {}
=============================================================================
