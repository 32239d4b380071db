---------------------- MODULE UnixSignalHandlerProofs ----------------------
(***************************************************************************)
(* Proofs about UnixSignalHandler for any number of signals and observers: *)
(* a list names an object that is gone only if the object had registered   *)
(* for the signal again, and no immediate observer is ever left waiting,   *)
(* while a deferred one always is.                                         *)
(***************************************************************************)
EXTENDS UnixSignalHandler, WellFoundedInduction, TLAPS

\* An observer has one item in a list at most.
Once(q, o) == \A j, k \in 1..Len(q) : q[j].observer = o /\ q[k].observer = o => j = k

\* A set of natural numbers has a least element.
LEMMA NatLeast ==
    ASSUME NEW T \in SUBSET Nat, T # {}
    PROVE  \E x \in T : \A y \in T : x <= y
  <1> DEFINE R == {ss \in Nat \X Nat : ss[1] < ss[2]}
  <1>1. IsWellFoundedOn(R, Nat)
      BY NatLessThanWellFounded, Zenon DEF OpToRel
  <1>2. PICK x \in T : \A y \in T : <<y, x>> \notin R
      <2> HIDE DEF R
      <2> QED BY <1>1, WFMin, Zenon
  <1>3. \A y \in T : ~(y < x)
      BY <1>2
  <1> QED BY <1>3

\* Removing the first item of an observer adds nothing to the list, keeps single
\* the observers that are, and removes the observer if it had one item.
LEMMA RemovedFirst ==
    ASSUME NEW q \in Seq(Items), NEW o
    PROVE  /\ Without(q, o) \in Seq(Items)
           /\ ToSet(Without(q, o)) \subseteq ToSet(q)
           /\ \A p : Once(q, p) => Once(Without(q, o), p)
           /\ Once(q, o) => \A item \in ToSet(Without(q, o)) : item.observer # o
  <1> DEFINE at == SelectInSeq(q, LAMBDA item : item.observer = o)
             places == {j \in 1..Len(q) : q[j].observer = o}
  <1>1. at = IF places # {} THEN Min(places) ELSE 0
      BY DEF SelectInSeq
  <1>2. CASE places = {}
      <2>1. Without(q, o) = q
          BY <1>1, <1>2 DEF Without
      <2> QED BY <1>2, <2>1 DEF ToSet
  <1>3. CASE places # {}
      <2>1. places \in SUBSET Nat
          OBVIOUS
      <2>2. PICK k \in places : \A j \in places : k <= j
          <3> HIDE DEF places
          <3> QED BY <1>3, <2>1, NatLeast
      <2>3. k \in 1..Len(q) /\ q[k].observer = o
          BY <2>2
      <2>4. Min(places) = k
          <3> HIDE DEF places
          <3>1. \A x \in places : (\A j \in places : x <= j) => x = k
              BY <2>1, <2>2
          <3> QED BY <2>2, <3>1 DEF Min
      <2>5. at = k /\ k # 0
          <3> HIDE DEF at, places
          <3> QED BY <1>1, <1>3, <2>3, <2>4
      <2> DEFINE u == SubSeq(q, 1, k - 1)
                 v == SubSeq(q, k + 1, Len(q))
                 w == u \o v
      <2>6. Without(q, o) = w
          BY <2>5 DEF Without, RemoveAt
      <2>7. Len(q) \in Nat /\ \A j \in 1..Len(q) : q[j] \in Items
          OBVIOUS
      <2>8. /\ u \in Seq(Items) /\ v \in Seq(Items)
            /\ Len(u) = k - 1 /\ \A j \in 1..(k - 1) : u[j] = q[j]
            /\ Len(v) = Len(q) - k /\ \A j \in 1..(Len(q) - k) : v[j] = q[k + j]
          BY <2>3, <2>7
      <2>9. /\ w \in Seq(Items) /\ Len(w) = Len(q) - 1
            /\ \A j \in 1..(Len(q) - 1) : w[j] = IF j < k THEN q[j] ELSE q[j + 1]
          <3> HIDE DEF u, v
          <3>1. w \in Seq(Items) /\ Len(w) = Len(q) - 1
              <4>1. u \in Seq(Items) /\ v \in Seq(Items)
                  BY <2>8
              <4>2. w \in Seq(Items) /\ Len(w) = Len(u) + Len(v)
                  BY <4>1
              <4> HIDE DEF w
              <4> QED BY <2>3, <2>7, <2>8, <4>2
          <3>2. \A j \in 1..(Len(q) - 1) : w[j] = IF j < k THEN u[j] ELSE v[j - (k - 1)]
              BY <2>3, <2>7, <2>8
          <3>3. \A j \in 1..(Len(q) - 1) : j >= k =>
                   j - (k - 1) \in 1..(Len(q) - k) /\ k + (j - (k - 1)) = j + 1
              BY <2>3, <2>7
          <3> HIDE DEF w
          <3> QED BY <2>3, <2>7, <2>8, <3>1, <3>2, <3>3
      <2> HIDE DEF u, v, w, at, places
      <2> DEFINE g(j) == IF j < k THEN j ELSE j + 1
      <2>10. /\ \A j \in 1..Len(w) : g(j) \in 1..Len(q) /\ g(j) # k /\ w[j] = q[g(j)]
             /\ \A i, j \in 1..Len(w) : g(i) = g(j) => i = j
          <3>1. k \in 1..Len(q) /\ Len(q) \in Nat /\ Len(w) = Len(q) - 1
              BY <2>3, <2>7, <2>9
          <3>2. \A j \in 1..Len(w) : g(j) \in 1..Len(q) /\ g(j) # k
              BY <3>1
          <3>3. \A j \in 1..Len(w) : w[j] = q[g(j)]
              BY <2>9, <3>1
          <3>4. \A i, j \in 1..Len(w) : g(i) = g(j) => i = j
              BY <3>1
          <3> QED BY <3>2, <3>3, <3>4
      <2> HIDE DEF g
      <2>11. \A p : Once(q, p) => Once(w, p)
          BY <2>10 DEF Once
      <2>12. Once(q, o) => \A j \in 1..Len(w) : w[j].observer # o
          BY <2>3, <2>10 DEF Once
      <2>13. DOMAIN w = 1..Len(w) /\ DOMAIN q = 1..Len(q)
          BY <2>9
      <2>14. ToSet(w) \subseteq ToSet(q)
          BY <2>10, <2>13 DEF ToSet
      <2>15. Once(q, o) => \A item \in ToSet(w) : item.observer # o
          BY <2>12, <2>13 DEF ToSet
      <2> QED BY <2>6, <2>9, <2>11, <2>14, <2>15
  <1> QED BY <1>2, <1>3

-----------------------------------------------------------------------------

\* Who registered for a signal once has one item in its list.
OnceUnlessTwice ==
    \A s \in Signals, o \in Observers : <<s, o>> \notin twice => Once(items[s], o)

IInv == TypeOK /\ OnceUnlessTwice /\ ImmediateNeverOwed

LEMMA InitInductive == Init => IInv
  <1> SUFFICES ASSUME Init PROVE IInv
      OBVIOUS
  <1>1. signalsPending \in BOOLEAN /\ queued \in BOOLEAN /\ listPending \in [Signals -> BOOLEAN]
      BY Zenon DEF Init
  <1>2. \A s \in Signals : items[s] = << >> /\ observersOf(s) = {}
      BY DEF Init, observersOf, ToSet
  <1>3. TypeOK
      BY <1>1, <1>2, SignalsAssumption DEF Init, TypeOK, DeadOnlyIfTwice
  <1> QED BY <1>2, <1>3 DEF IInv, Init, OnceUnlessTwice, Once, ImmediateNeverOwed

LEMMA AddInductive ==
    ASSUME IInv, NEW o \in Observers, NEW s \in Signals, NEW imm \in BOOLEAN,
           AddObserver(o, s, imm)
    PROVE  IInv'
  <1> DEFINE item == [observer |-> o, immediate |-> imm]
  <1>1. /\ o \in alive /\ pc = "loop"
        /\ items' = [items EXCEPT ![s] = <<item>> \o items[s]]
        /\ twice' = IF o \in observersOf(s) THEN twice \cup {<<s, o>>} ELSE twice
        /\ UNCHANGED <<listPending, signalsPending, queued, raised, pc, index, alive, sent,
                       owed>>
      BY DEF AddObserver
  <1>2. item \in Items /\ items[s] \in Seq(Items)
      BY DEF Items, IInv, TypeOK
  <1> DEFINE q == <<item>> \o items[s]
  <1>3. /\ q \in Seq(Items) /\ Len(q) = Len(items[s]) + 1 /\ q[1] = item
        /\ \A j \in 2..Len(q) : j - 1 \in 1..Len(items[s]) /\ q[j] = items[s][j - 1]
      BY <1>2
  <1>4. ToSet(q) = ToSet(items[s]) \cup {item}
      <2>1. \A j \in 1..Len(items[s]) : j + 1 \in 2..Len(q) /\ q[j + 1] = items[s][j]
          BY <1>2, <1>3
      <2>2. DOMAIN q = 1..Len(q) /\ DOMAIN items[s] = 1..Len(items[s]) /\ Len(items[s]) \in Nat
          BY <1>2, <1>3
      <2> HIDE DEF q, item
      <2>3. \A j \in 1..Len(q) : j = 1 \/ j \in 2..Len(q)
          BY <1>3, <2>2
      <2>4. 1 \in 1..Len(q) /\ \A j \in 1..Len(items[s]) : j + 1 \in 1..Len(q)
          BY <1>3, <2>2
      <2>5. ToSet(q) \subseteq ToSet(items[s]) \cup {item}
          <3> SUFFICES ASSUME NEW x \in ToSet(q) PROVE x \in ToSet(items[s]) \cup {item}
              OBVIOUS
          <3>1. PICK j \in 1..Len(q) : x = q[j]
              BY <2>2, Zenon DEF ToSet
          <3>2. CASE j = 1
              BY <1>3, <3>1, <3>2, Zenon
          <3>3. CASE j \in 2..Len(q)
              BY <1>3, <2>2, <3>1, <3>3, Zenon DEF ToSet
          <3> QED BY <2>3, <3>2, <3>3
      <2>6. item \in ToSet(q)
          BY <1>3, <2>2, <2>4 DEF ToSet
      <2>7. ToSet(items[s]) \subseteq ToSet(q)
          BY <2>1, <2>2, <2>4 DEF ToSet
      <2> QED BY <2>5, <2>6, <2>7
  <1>5. ASSUME NEW p \in Observers, <<s, p>> \notin twice' PROVE Once(q, p)
      <2>1. <<s, p>> \notin twice /\ (p = o => o \notin observersOf(s))
          BY <1>1, <1>5
      <2>2. Once(items[s], p)
          BY <2>1 DEF IInv, OnceUnlessTwice
      <2>3. p = o => \A j \in 1..Len(items[s]) : items[s][j].observer # o
          BY <2>1 DEF observersOf, ToSet
      <2>4. item.observer = o
          OBVIOUS
      <2> HIDE DEF item
      <2> QED BY <1>2, <1>3, <2>2, <2>3, <2>4 DEF Once
  <1>6. items'[s] = q /\ \A r \in Signals \ {s} : items'[r] = items[r]
      BY <1>1 DEF IInv, TypeOK
  <1>7. items' \in [Signals -> Seq(Items)]
      BY <1>1, <1>3 DEF IInv, TypeOK
  <1> HIDE DEF q
  <1>8. /\ observersOf(s)' = observersOf(s) \cup {o}
        /\ \A r \in Signals \ {s} : observersOf(r)' = observersOf(r)
      <2>1. item.observer = o
          OBVIOUS
      <2> HIDE DEF item
      <2>2. observersOf(s)' = observersOf(s) \cup {o}
          BY <1>4, <1>6, <2>1 DEF observersOf
      <2>3. \A r \in Signals \ {s} : observersOf(r)' = observersOf(r)
          BY <1>6 DEF observersOf
      <2> QED BY <2>2, <2>3
  <1>9. twice \subseteq twice' /\ twice' \subseteq Signals \X Observers
      BY <1>1 DEF IInv, TypeOK
  <1>10. DeadOnlyIfTwice'
      <2>1. \A r \in Signals : observersOf(r)' \ alive' \subseteq observersOf(r) \ alive
          BY <1>1, <1>8
      <2> QED BY <1>1, <1>9, <2>1 DEF IInv, TypeOK, DeadOnlyIfTwice
  <1>11. TypeOK'
      BY <1>1, <1>7, <1>9, <1>10 DEF IInv, TypeOK
  <1>12. OnceUnlessTwice'
      BY <1>5, <1>6, <1>9 DEF IInv, OnceUnlessTwice
  <1>13. ImmediateNeverOwed'
      BY <1>1 DEF IInv, ImmediateNeverOwed
  <1> QED BY <1>11, <1>12, <1>13 DEF IInv

LEMMA RemoveInductive ==
    ASSUME IInv, NEW o \in Observers, RemoveObserver(o)
    PROVE  IInv'
  <1>1. /\ items' = [s \in Signals |-> Without(items[s], o)]
        /\ alive' = alive \ {o} /\ pc = "loop"
        /\ owed' = {d \in owed : d[2].observer # o}
        /\ UNCHANGED <<listPending, signalsPending, queued, raised, pc, index, sent, twice>>
      BY DEF RemoveObserver
  <1>2. \A s \in Signals :
           /\ items'[s] \in Seq(Items)
           /\ ToSet(items'[s]) \subseteq ToSet(items[s])
           /\ \A p : Once(items[s], p) => Once(items'[s], p)
           /\ Once(items[s], o) => \A item \in ToSet(items'[s]) : item.observer # o
      BY <1>1, RemovedFirst DEF IInv, TypeOK
  <1>3. OnceUnlessTwice'
      BY <1>1, <1>2 DEF IInv, OnceUnlessTwice
  <1>4. DeadOnlyIfTwice'
      <2> SUFFICES ASSUME NEW s \in Signals, NEW p \in observersOf(s)' \ alive'
                   PROVE  <<s, p>> \in twice
          BY <1>1 DEF DeadOnlyIfTwice
      <2>1. observersOf(s)' \subseteq observersOf(s)
          BY <1>2 DEF observersOf
      <2>2. CASE p \notin alive
          BY <2>1, <2>2 DEF IInv, TypeOK, DeadOnlyIfTwice
      <2>3. CASE p = o
          <3>1. ~Once(items[s], o)
              BY <1>2, <2>3 DEF observersOf
          <3> QED BY <2>3, <3>1 DEF IInv, OnceUnlessTwice
      <2> QED BY <1>1, <2>2, <2>3
  <1>5. TypeOK'
      BY <1>1, <1>2, <1>4 DEF IInv, TypeOK
  <1>6. ImmediateNeverOwed'
      BY <1>1 DEF IInv, ImmediateNeverOwed
  <1> QED BY <1>3, <1>5, <1>6 DEF IInv

\* A call that crashes the process went to an observer that is gone.
LEMMA CrashOnDead ==
    ASSUME IInv, NEW s \in Signals, NEW called \in SUBSET ToSet(items[s]),
           pc' \in outcomes(called), pc # "crashed", UNCHANGED <<items, alive, twice>>
    PROVE  DeadOnlyIfTwice' /\ pc' \in {pc, "crashed"}
  <1>1. \A r \in Signals : observersOf(r)' = observersOf(r)
      BY DEF observersOf
  <1>2. ASSUME pc' = "crashed" PROVE \E d \in twice : d[2] \notin alive
      <2>1. PICK item \in called : item.observer \notin alive
          BY <1>2 DEF outcomes
      <2>2. item.observer \in observersOf(s) \ alive
          BY <2>1 DEF observersOf
      <2>3. <<s, item.observer>> \in twice
          BY <2>2 DEF IInv, TypeOK, DeadOnlyIfTwice
      <2> QED BY <2>1, <2>3
  <1>3. pc' \in {pc, "crashed"}
      BY DEF outcomes
  <1> QED BY <1>1, <1>2, <1>3 DEF IInv, TypeOK, DeadOnlyIfTwice

\* The handler marks the list before it calls, so every immediate observer of
\* the signal is called.
LEMMA SignalInductive ==
    ASSUME IInv, NEW s \in Signals, SignalHandlerFunction(s)
    PROVE  IInv'
  <1>1. /\ raised' = raised \ {s} /\ pc # "crashed"
        /\ pc' \in outcomes(invoked(s, TRUE, TRUE))
        /\ owed' = (owed \cup {<<s, i>> : i \in {i \in ToSet(items[s]) : i.observer \in alive}})
                       \ {<<s, i>> : i \in invoked(s, TRUE, TRUE)}
        /\ UNCHANGED <<items, index, alive, sent, twice>>
      BY DEF SignalHandlerFunction, HandleSignal
  <1>2. /\ signalsPending' \in BOOLEAN /\ queued' \in BOOLEAN
        /\ listPending' \in [Signals -> BOOLEAN]
      BY Zenon DEF SignalHandlerFunction, HandleSignal, pendingAfter, IInv, TypeOK
  <1>3. DeadOnlyIfTwice' /\ pc' \in {pc, "crashed"}
      <2>1. invoked(s, TRUE, TRUE) \subseteq ToSet(items[s])
          BY DEF invoked
      <2> QED BY <1>1, <2>1, CrashOnDead
  <1>4. owed' \subseteq Signals \X Items
      <2>1. ToSet(items[s]) \subseteq Items
          BY DEF IInv, TypeOK, ToSet
      <2>2. {<<s, i>> : i \in {i \in ToSet(items[s]) : i.observer \in alive}}
                \subseteq Signals \X Items
          BY <2>1
      <2>3. owed \subseteq Signals \X Items
          BY DEF IInv, TypeOK
      <2> QED BY <1>1, <2>2, <2>3
  <1>5. TypeOK'
      BY <1>1, <1>2, <1>3, <1>4 DEF IInv, TypeOK
  <1>6. ImmediateNeverOwed'
      <2> SUFFICES ASSUME NEW d \in owed', d[2].immediate PROVE FALSE
          BY DEF ImmediateNeverOwed
      <2>1. d \notin owed
          BY DEF IInv, ImmediateNeverOwed
      <2>2. PICK i \in ToSet(items[s]) : d = <<s, i>>
          BY <1>1, <2>1
      <2>3. d \in Signals \X Items
          BY <1>4
      <2>4. i.immediate = TRUE
          BY <2>2, <2>3, Zenon DEF Items
      <2>5. i \in invoked(s, TRUE, TRUE)
          BY <2>4 DEF invoked
      <2> QED BY <1>1, <2>2, <2>5
  <1>7. OnceUnlessTwice'
      BY <1>1 DEF IInv, OnceUnlessTwice
  <1> QED BY <1>5, <1>6, <1>7 DEF IInv

LEMMA DispatchInductive == IInv /\ DispatchList => IInv'
  <1> SUFFICES ASSUME IInv, DispatchList PROVE IInv'
      OBVIOUS
  <1> DEFINE called == invoked(index, FALSE, listPending[index])
  <1>1. /\ owed' \subseteq owed /\ index' = index + 1 /\ index <= NSIG /\ pc = "list"
        /\ pc' \in outcomes(called)
        /\ UNCHANGED <<items, signalsPending, queued, raised, alive, sent, twice>>
      BY DEF DispatchList
  <1>2. listPending' \in [Signals -> BOOLEAN]
      BY Zenon DEF DispatchList, pendingAfter, IInv, TypeOK
  <1>3. index' \in 1..(NSIG + 1)
      BY <1>1, SignalsAssumption DEF IInv, TypeOK
  <1>4. DeadOnlyIfTwice' /\ pc' \in {pc, "crashed"}
      <2>1. index \in Signals
          BY <1>1 DEF IInv, TypeOK, Signals
      <2>2. called \subseteq ToSet(items[index])
          BY DEF invoked
      <2> QED BY <1>1, <2>1, <2>2, CrashOnDead
  <1>5. TypeOK'
      BY <1>1, <1>2, <1>3, <1>4 DEF IInv, TypeOK
  <1> QED BY <1>1, <1>5 DEF IInv, OnceUnlessTwice, ImmediateNeverOwed

LEMMA NextInductive == IInv /\ [Next]_vars => IInv'
  <1> SUFFICES ASSUME IInv, [Next]_vars PROVE IInv'
      OBVIOUS
  \* What only moves signals or the run loop leaves the lists alone.
  <1>1. ASSUME UNCHANGED <<items, alive, owed, twice>>,
               raised' \subseteq Signals, sent' \in 0..MaxSignals,
               signalsPending' \in BOOLEAN, queued' \in BOOLEAN,
               listPending' \in [Signals -> BOOLEAN],
               pc' \in {pc, "loop", "list"}, index' \in 1..(NSIG + 1)
        PROVE  IInv'
      <2>1. \A r \in Signals : observersOf(r)' = observersOf(r)
          BY <1>1 DEF observersOf
      <2>2. DeadOnlyIfTwice'
          BY <1>1, <2>1 DEF IInv, TypeOK, DeadOnlyIfTwice
      <2> QED BY <1>1, <2>2 DEF IInv, TypeOK, OnceUnlessTwice, ImmediateNeverOwed
  <1>2. ASSUME NEW s \in Signals, Raise(s) PROVE IInv'
      BY <1>1, <1>2, SignalsAssumption DEF Raise, IInv, TypeOK
  <1>3. ASSUME NEW s \in Signals, DefaultAction(s) PROVE IInv'
      BY <1>1, <1>3 DEF DefaultAction, IInv, TypeOK
  <1>4. CASE StartDispatch
      <2>1. queued' \in BOOLEAN
          BY <1>4, Zenon DEF StartDispatch
      <2> QED BY <1>1, <1>4, <2>1, SignalsAssumption DEF StartDispatch, IInv, TypeOK
  <1>5. CASE EndDispatch
      <2>1. signalsPending' \in BOOLEAN
          BY <1>5, Zenon DEF EndDispatch
      <2> QED BY <1>1, <1>5, <2>1, SignalsAssumption DEF EndDispatch, IInv, TypeOK
  <1>6. CASE UNCHANGED vars
      BY <1>1, <1>6 DEF vars, IInv, TypeOK
  <1> QED BY <1>2, <1>3, <1>4, <1>5, <1>6, AddInductive, RemoveInductive, SignalInductive,
             DispatchInductive
          DEF Next, Dispatch

LEMMA SignalsInductive == Spec => []IInv
  BY InitInductive, NextInductive, PTL DEF Spec

\* Every variable keeps its type, and whatever is registered, removed and
\* called: an observer that is gone is still in the list of a signal, and a
\* signal crashes the process, only after that observer was registered for the
\* signal while it had an item there, since -removeObserver: unlinks one.
THEOREM SignalsTypeCorrect == Spec => []TypeOK
  <1>1. IInv => TypeOK
      BY DEF IInv
  <1> QED BY <1>1, SignalsInductive, PTL

\* However signals interrupt registration and dispatch, an immediate observer
\* has been called when the signal handler returns.
THEOREM ImmediateNeverOwedCorrect == Spec => []ImmediateNeverOwed
  <1>1. IInv => ImmediateNeverOwed
      BY DEF IInv
  <1> QED BY <1>1, SignalsInductive, PTL

-----------------------------------------------------------------------------
(* The observers that are to be called later                               *)

\* signalHandlerFunction() marks a list and -invokeIfCalledImmediatelyIs:YES
\* clears the mark again before it returns.
NothingPending == \A s \in Signals : ~listPending[s]

LEMMA PendingInductive == IInv /\ NothingPending /\ [Next]_vars => NothingPending'
  <1> SUFFICES ASSUME IInv, NothingPending, [Next]_vars PROVE NothingPending'
      OBVIOUS
  <1>1. listPending \in [Signals -> BOOLEAN]
      BY DEF IInv, TypeOK
  <1>2. CASE UNCHANGED listPending
      BY <1>2 DEF NothingPending
  <1>3. ASSUME NEW t \in Signals, listPending' = [listPending EXCEPT ![t] = FALSE]
        PROVE  NothingPending'
      BY <1>1, <1>3 DEF NothingPending
  <1>4. ASSUME NEW t \in Signals, SignalHandlerFunction(t) PROVE NothingPending'
      <2>1. listPending' = [listPending EXCEPT ![t] = FALSE]
          BY <1>4 DEF SignalHandlerFunction, HandleSignal, pendingAfter
      <2> QED BY <1>3, <2>1
  <1>5. CASE DispatchList
      <2>1. index \in Signals
          BY <1>5 DEF DispatchList, IInv, TypeOK, Signals
      <2>2. listPending' = [listPending EXCEPT ![index] = FALSE]
          BY <1>5 DEF DispatchList, pendingAfter
      <2> QED BY <1>3, <2>1, <2>2
  <1> QED BY <1>2, <1>4, <1>5
          DEF Next, Dispatch, Raise, DefaultAction, RemoveObserver, AddObserver, StartDispatch,
              EndDispatch, vars

LEMMA NothingPendingCorrect == Spec => []NothingPending
  <1>1. Init => NothingPending
      BY DEF Init, NothingPending
  <1> QED BY <1>1, PendingInductive, SignalsInductive, PTL DEF Spec

\* +_dispatch: finds every list unmarked, whenever signals arrive, and calls
\* nobody: it delivers nothing and never meets an observer that is gone.
THEOREM DispatchCallsNobody ==
    Spec => [][Dispatch => owed' = owed /\ pc' # "crashed"]_vars
  <1> DEFINE Nobody == Dispatch => owed' = owed /\ pc' # "crashed"
  <1>1. IInv /\ NothingPending /\ [Next]_vars => [Nobody]_vars
      <2> SUFFICES ASSUME IInv, NothingPending, Dispatch PROVE owed' = owed /\ pc' # "crashed"
          OBVIOUS
      <2>1. CASE DispatchList
          <3>1. ~listPending[index]
              BY <2>1 DEF DispatchList, NothingPending, IInv, TypeOK, Signals
          <3>2. invoked(index, FALSE, listPending[index]) = {}
              BY <3>1 DEF invoked
          <3>3. pc' = "list"
              BY <2>1, <3>2 DEF DispatchList, outcomes
          <3> QED BY <2>1, <3>2, <3>3 DEF DispatchList
      <2>2. CASE StartDispatch \/ EndDispatch
          BY <2>2 DEF StartDispatch, EndDispatch
      <2> QED BY <2>1, <2>2 DEF Dispatch
  <1> QED BY <1>1, NothingPendingCorrect, SignalsInductive, PTL DEF Spec

\* An observer that asked to be called later is owed that call until it is
\* deallocated: for every number of signals and observers, no step of the
\* process delivers it.  The run that refutes DeferredAreNotified shows the
\* shortest case.
THEOREM DeferredNeverCalled ==
    Spec => [][\A d \in owed : d \in owed' \/ d[2].observer \notin alive']_vars
  <1> DEFINE Kept == \A d \in owed : d \in owed' \/ d[2].observer \notin alive'
  <1>1. /\ IInv /\ [Dispatch => owed' = owed /\ pc' # "crashed"]_vars /\ [Next]_vars
        => [Kept]_vars
      <2> SUFFICES ASSUME IInv, Next, Dispatch => owed' = owed, NEW d \in owed
                   PROVE  d \in owed' \/ d[2].observer \notin alive'
          BY DEF vars
      <2>1. CASE Dispatch
          BY <2>1
      <2>2. ASSUME NEW s \in Signals, SignalHandlerFunction(s) PROVE d \in owed'
          <3>1. ~d[2].immediate
              BY DEF IInv, ImmediateNeverOwed
          <3>2. owed \ {<<s, i>> : i \in invoked(s, TRUE, TRUE)} \subseteq owed'
              BY <2>2 DEF SignalHandlerFunction, HandleSignal
          <3>3. ASSUME NEW i \in invoked(s, TRUE, TRUE), d = <<s, i>> PROVE FALSE
              BY <3>1, <3>3 DEF invoked
          <3> QED BY <3>2, <3>3
      <2>3. ASSUME NEW s \in Signals, Raise(s) \/ DefaultAction(s) PROVE d \in owed'
          BY <2>3 DEF Raise, DefaultAction
      <2>4. ASSUME NEW o \in Observers, RemoveObserver(o)
            PROVE  d \in owed' \/ d[2].observer \notin alive'
          BY <2>4 DEF RemoveObserver
      <2>5. ASSUME NEW o \in Observers, NEW s \in Signals, NEW imm \in BOOLEAN,
                   AddObserver(o, s, imm)
            PROVE  d \in owed'
          BY <2>5 DEF AddObserver
      <2> QED BY <2>1, <2>2, <2>3, <2>4, <2>5 DEF Next
  <1> QED BY <1>1, DispatchCallsNobody, SignalsInductive, PTL DEF Spec
=============================================================================
