--------------------------- MODULE GCSFolderProofs ---------------------------
(***************************************************************************)
(* Proofs about GCSFolder for any number of clients, documents, operations *)
(* and faults: its types, the version check of concurrent writers, and the *)
(* consistency of the quick table with the blob table, and what a reported *)
(* success means.                                                          *)
(***************************************************************************)
EXTENDS GCSFolder, TLAPS

QuickRows == ({quickRow(ct) : ct \in Contents} \ {NoQuickRow}) \cup {NoRow}

\* A client past the check got a quick row from the extractor, and unless it
\* overrides the check it fetched the version its caller expects.
Checked ==
    \A c \in Clients :
        /\ pc[c] \in {"open", "store", "quick"} =>
              quickRow(content[c]) # NoQuickRow
        /\ pc[c] \in {"open", "store"} /\ baseVersion[c] # 0 =>
              storedVersion[c] = baseVersion[c]

\* The initial state is well typed and nobody is past the check.
LEMMA InitInductive == Init => TypeOK /\ Checked
  <1> SUFFICES ASSUME Init PROVE TypeOK /\ Checked
      OBVIOUS
  <1>1. /\ (CHOOSE n \in Names : TRUE) \in Names
        /\ (CHOOSE ct \in Contents : TRUE) \in Contents
      BY NamesAssumption
  <1>2. /\ store \in [Names -> Row \cup {NoRow}]
        /\ \A n \in Names : store[n] # NoRow => store[n].content \in Contents
      BY DEF Init, Row
  <1>3. quick \in [Names -> QuickRows]
      BY <1>2 DEF Init, QuickRows
  <1>4. TypeOK
      BY <1>1, <1>2, <1>3, BoundsAssumption
      DEF Init, TypeOK, QuickRows, PCs, Results
  <1>5. Checked
      BY DEF Init, Checked
  <1> QED BY <1>4, <1>5

\* A client's step keeps the types and the facts about checked clients.
LEMMA StepInductive ==
    ASSUME TypeOK, Checked, NEW c \in Clients, Step(c), UNCHANGED sameTable
    PROVE  TypeOK' /\ Checked'
  <1> USE DEF PCs, Results, Return, Continue, Fault, Suspect, Share, dbVars, argVars
  <1>1. CASE InvalidArgument(c)
      BY <1>1, BoundsAssumption DEF InvalidArgument, TypeOK, Checked
  <1>2. ASSUME NEW n \in Names, NEW ct \in Contents, NEW b \in Bases,
               WriteContent(c, n, ct, b)
        PROVE  TypeOK' /\ Checked'
      BY <1>2, BasesAssumption, BoundsAssumption
      DEF WriteContent, TypeOK, Checked
  <1>3. ASSUME NEW fetched \in Nat \cup {NoVersion}, pc[c] = "version",
               CheckVersion(c, fetched),
               faults' \in 0..MaxFaults
        PROVE  TypeOK' /\ Checked'
      <2>1. TypeOK'
          BY <1>3 DEF CheckVersion, TypeOK
      <2>2. Checked'
          BY <1>3, NoVersionAssumption
          DEF CheckVersion, TypeOK, Checked, unsignedIntValue
      <2> QED BY <2>1, <2>2
  <1>4. CASE VersionOfContent(c)
      <2>1. store[doc[c]] # NoRow => store[doc[c]].version \in Nat
          BY DEF TypeOK, Row
      <2> QED BY <1>3, <1>4, <2>1 DEF VersionOfContent, TypeOK
  <1>5. CASE VersionOfContentFails(c)
      <2>1. faults' \in 0..MaxFaults
          BY <1>5, BoundsAssumption DEF VersionOfContentFails, TypeOK
      <2>2. pc[c] = "version" /\ CheckVersion(c, NoVersion)
          BY <1>5 DEF VersionOfContentFails
      <2> QED BY <1>3, <2>1, <2>2
  <1>6. CASE AcquireChannels(c)
      BY <1>6 DEF AcquireChannels, TypeOK, Checked
  <1>7. CASE AcquireChannelsFails(c)
      BY <1>7, BoundsAssumption DEF AcquireChannelsFails, TypeOK, Checked
  <1>8. CASE ExecuteStore(c)
      <2>1. contentRow(c) \in Row
          BY DEF contentRow, isNewRecord, Row, TypeOK
      <2>2. quickRow(content[c]) \in {quickRow(ct) : ct \in Contents} \ {NoQuickRow}
          BY <1>8 DEF ExecuteStore, TypeOK, Checked
      <2>3. /\ store' \in [Names -> Row \cup {NoRow}]
            /\ quick' \in [Names -> ({quickRow(ct) : ct \in Contents} \ {NoQuickRow})
                                       \cup {NoRow}]
          BY <1>8, <2>1, <2>2 DEF ExecuteStore, TypeOK
      <2>4. TypeOK'
          BY <1>8, <2>3 DEF ExecuteStore, AfterStore, TypeOK
      <2>5. Checked'
          BY <1>8 DEF ExecuteStore, AfterStore, TypeOK, Checked
      <2> QED BY <2>4, <2>5
  <1>9. CASE ExecuteStoreNoRow(c)
      BY <1>9 DEF ExecuteStoreNoRow, AfterStore, TypeOK, Checked
  <1>10. CASE ExecuteStoreRefused(c)
      BY <1>10 DEF ExecuteStoreRefused, TypeOK, Checked
  <1>11. CASE ExecuteStoreFails(c)
      BY <1>11, BoundsAssumption DEF ExecuteStoreFails, TypeOK, Checked
  <1>12. CASE ExecuteQuick(c)
      <2>1. quickRow(content[c]) \in {quickRow(ct) : ct \in Contents} \ {NoQuickRow}
          BY <1>12 DEF ExecuteQuick, TypeOK, Checked
      <2> QED BY <1>12, <2>1 DEF ExecuteQuick, TypeOK, Checked
  <1>13. CASE ExecuteQuickRefused(c)
      BY <1>13 DEF ExecuteQuickRefused, AfterQuickError, TypeOK, Checked
  <1>14. CASE ExecuteQuickFails(c)
      BY <1>14, BoundsAssumption DEF ExecuteQuickFails, AfterQuickError, TypeOK, Checked
  <1>15. CASE DeleteAfterQuickFail(c)
      BY <1>15 DEF DeleteAfterQuickFail, TypeOK, Checked
  <1>16. CASE DeleteAfterQuickFailFails(c)
      BY <1>16, BoundsAssumption DEF DeleteAfterQuickFailFails, TypeOK, Checked
  <1>17. ASSUME NEW n \in Names, DeleteContent(c, n)
         PROVE  TypeOK' /\ Checked'
      BY <1>17, BoundsAssumption DEF DeleteContent, TypeOK, Checked
  <1>18. CASE AcquireDeleteChannels(c)
      BY <1>18 DEF AcquireDeleteChannels, TypeOK, Checked
  <1>19. CASE DeleteStore(c)
      BY <1>19 DEF DeleteStore, TypeOK, Checked
  <1>20. CASE DeleteQuick(c)
      BY <1>20 DEF DeleteQuick, TypeOK, Checked
  <1>21. CASE DeleteQuickFails(c)
      BY <1>21, BoundsAssumption DEF DeleteQuickFails, TypeOK, Checked
  <1>22. CASE Die(c)
      BY <1>22, BoundsAssumption DEF Die, TypeOK, Checked
  <1> QED
      BY <1>1, <1>2, <1>4, <1>5, <1>6, <1>7, <1>8, <1>9, <1>10, <1>11, <1>12,
         <1>13, <1>14, <1>15, <1>16, <1>17, <1>18, <1>19, <1>20, <1>21, <1>22
      DEF Step

\* Past the check an updating client holds the version it expects, also
\* while others write and delete.
LEMMA FolderChecked == Spec => [](TypeOK /\ Checked)
  <1>1. TypeOK /\ Checked /\ [Next]_vars => TypeOK' /\ Checked'
      <2>1. CASE Next
          BY <2>1, StepInductive DEF Next
      <2>2. CASE UNCHANGED vars
          BY <2>2 DEF vars, TypeOK, Checked
      <2> QED BY <2>1, <2>2
  <1> QED BY InitInductive, <1>1, PTL DEF Spec

\* Every variable of the folder keeps its type, whatever fails in between, and
\* no row of a refused content gets into the quick table.
THEOREM FolderTypeCorrect == Spec => []TypeOK
  BY FolderChecked, PTL

\* A row that stays in the blob table only moves to the next version, unless
\* a caller overrides the check: the WHERE clause of the UPDATE and the
\* version fetched before it agree, for any number of concurrent clients.
THEOREM VersionsAdvanceCorrect == Spec => VersionsAdvanceProperty
  <1>1. TypeOK /\ Checked /\ [Next]_vars => [VersionsAdvance]_vars
      <2> SUFFICES ASSUME TypeOK, Checked, NEW c \in Clients, Step(c)
                   PROVE  VersionsAdvance
          BY DEF Next
      <2>1. CASE ExecuteStore(c)
          <3> SUFFICES ASSUME NEW n \in Names, store[n] # NoRow,
                              store'[n] # NoRow, store'[n] # store[n]
                       PROVE  \/ store'[n].version = store[n].version + 1
                              \/ /\ pc[c] = "store" /\ doc[c] = n
                                 /\ baseVersion[c] = 0
              BY DEF VersionsAdvance
          <3>1. pc[c] = "store" /\ doc[c] = n /\ store'[n] = contentRow(c)
              BY <2>1 DEF ExecuteStore, TypeOK
          <3>2. ~isNewRecord(c) /\ (baseVersion[c] # 0 =>
                                      store[n].version = baseVersion[c])
              BY <2>1, <3>1 DEF ExecuteStore, matchesStatement
          <3>3. baseVersion[c] # 0 => storedVersion[c] = baseVersion[c]
              BY <3>1 DEF Checked
          <3> QED BY <3>1, <3>2, <3>3 DEF contentRow
      <2>2. CASE ~ExecuteStore(c)
          <3>1. \A n \in Names : store'[n] = store[n] \/ store'[n] = NoRow
              BY <2>2
              DEF Step, TypeOK, dbVars, InvalidArgument, WriteContent,
                  CheckVersion, VersionOfContent, VersionOfContentFails,
                  AcquireChannels, AcquireChannelsFails, ExecuteStoreNoRow,
                  ExecuteStoreRefused, ExecuteStoreFails, ExecuteQuick,
                  AfterQuickError, ExecuteQuickRefused, ExecuteQuickFails,
                  DeleteAfterQuickFail, DeleteAfterQuickFailFails,
                  DeleteContent, AcquireDeleteChannels, DeleteStore,
                  DeleteQuick, DeleteQuickFails, Die
          <3> QED BY <3>1 DEF VersionsAdvance
      <2> QED BY <2>1, <2>2
  <1> QED BY <1>1, FolderChecked, PTL DEF Spec, VersionsAdvanceProperty

-----------------------------------------------------------------------------
\* With the quick columns in the blob table no client is between two tables
\* and every row carries the fields of its content.
SameTableConsistent ==
    sameTable =>
        /\ \A n \in Names : indexed(n)
        /\ \A c \in Clients : pc[c] \notin {"quick", "undo", "deleteQuick"}

\* A folder with one table is consistent at every moment, also with
\* concurrent clients, errors and crashes.
LEMMA SameTableAlways == Spec => []SameTableConsistent
  <1>1. Init => SameTableConsistent
      BY DEF Init, SameTableConsistent, indexed
  <1>2. TypeOK /\ SameTableConsistent /\ [Next]_vars => SameTableConsistent'
      <2> SUFFICES ASSUME TypeOK, SameTableConsistent, [Next]_vars,
                          sameTable' = sameTable, sameTable
                   PROVE  SameTableConsistent'
          BY DEF Next, vars, SameTableConsistent
      <2>1. CASE UNCHANGED vars
          BY <2>1 DEF vars, SameTableConsistent, indexed
      <2>2. ASSUME NEW c \in Clients, Step(c) PROVE SameTableConsistent'
          <3>1. CASE ExecuteStore(c)
              <4>1. contentRow(c) # NoRow /\ contentRow(c).content = content[c]
                  BY NoRowAssumption DEF contentRow, isNewRecord, TypeOK
              <4>2. \A n \in Names : indexed(n)'
                  BY <3>1, <4>1
                  DEF ExecuteStore, indexed, SameTableConsistent, TypeOK
              <4>3. pc' = [pc EXCEPT ![c] = "idle"]
                  BY <3>1 DEF ExecuteStore, AfterStore, Return
              <4> QED BY <4>2, <4>3 DEF SameTableConsistent, TypeOK
          <3>2. CASE DeleteStore(c)
              <4>1. \A n \in Names : indexed(n)'
                  BY <3>2 DEF DeleteStore, indexed, SameTableConsistent, TypeOK
              <4>2. pc' = [pc EXCEPT ![c] = "idle"]
                  BY <3>2 DEF DeleteStore, Return
              <4> QED BY <4>1, <4>2 DEF SameTableConsistent, TypeOK
          <3>3. CASE ~ExecuteStore(c) /\ ~DeleteStore(c)
              <4>1. UNCHANGED <<store, quick>> /\
                    \A d \in Clients : pc'[d] \notin {"quick", "undo", "deleteQuick"}
                  BY <2>2, <3>3
                  DEF Step, TypeOK, SameTableConsistent, Return, Continue,
                      AfterStore, dbVars, InvalidArgument, WriteContent,
                      CheckVersion, VersionOfContent, VersionOfContentFails,
                      AcquireChannels, AcquireChannelsFails, ExecuteStoreNoRow,
                      ExecuteStoreRefused, ExecuteStoreFails, ExecuteQuick,
                      AfterQuickError, ExecuteQuickRefused, ExecuteQuickFails,
                      DeleteAfterQuickFail, DeleteAfterQuickFailFails,
                      DeleteContent, AcquireDeleteChannels, DeleteQuick,
                      DeleteQuickFails, Die
              <4> QED BY <4>1 DEF SameTableConsistent, indexed
          <3> QED BY <3>1, <3>2, <3>3
      <2> QED BY <2>1, <2>2 DEF Next
  <1> QED BY <1>1, <1>2, FolderTypeCorrect, PTL DEF Spec

-----------------------------------------------------------------------------
(* Two tables, and documents on which operations never overlapped          *)

between == {"quick", "undo", "deleteQuick"}

\* What the one client at work on a document knows of it.
Tracked(c) ==
    /\ pc[c] \in {"open", "store"} /\ storedVersion[c] # NoVersion =>
          /\ store[doc[c]] # NoRow
          /\ store[doc[c]].version = storedVersion[c]
    /\ pc[c] = "quick" =>
          /\ store[doc[c]] # NoRow
          /\ store[doc[c]].content = content[c]
          /\ (storedVersion[c] = NoVersion) <=> (quick[doc[c]] = NoRow)
    /\ pc[c] # "undo"

\* What holds of it also after an error: its DELETE is not undone, and only a
\* fault makes it take something back, or take a record for new that is not.
Unshared(c) ==
    /\ pc[c] = "deleteQuick" => store[doc[c]] = NoRow
    /\ pc[c] = "undo" => faults # 0
    /\ pc[c] \in {"open", "store"} /\ storedVersion[c] = NoVersion /\ faults = 0 =>
          store[doc[c]] = NoRow

Solo(n) ==
    n \notin shared =>
        /\ \A c, d \in Clients :
              doc[c] = n /\ doc[d] = n /\ pc[c] # "idle" /\ pc[d] # "idle" => c = d
        /\ n \notin suspect /\ (\A c \in Clients : doc[c] = n => pc[c] \notin between)
              => indexed(n)
        /\ n \notin suspect => \A c \in Clients : doc[c] = n => Tracked(c)
        /\ \A c \in Clients : doc[c] = n => Unshared(c)
        /\ faults = 0 => n \notin suspect

SoloInv == ~sameTable => \A n \in Names : Solo(n)

\* A step of a client elsewhere, or one that begins and ends without work on
\* the document, keeps what is known of it.
LEMMA Elsewhere ==
    ASSUME NEW c \in Clients, NEW n \in Names, Solo(n),
           shared \subseteq shared', faults' = 0 => faults = 0,
           store'[n] = store[n], quick'[n] = quick[n], n \in suspect' <=> n \in suspect,
           \A d \in Clients \ {c} : /\ pc'[d] = pc[d] /\ doc'[d] = doc[d]
                                    /\ content'[d] = content[d]
                                    /\ storedVersion'[d] = storedVersion[d],
           doc[c] # n \/ pc[c] = "idle",
           doc'[c] # n \/ pc'[c] = "idle"
    PROVE  Solo(n)'
  <1> SUFFICES ASSUME n \notin shared' PROVE Solo(n)'
      BY DEF Solo
  <1>1. n \notin shared
      OBVIOUS
  <1>2. \A a, d \in Clients :
           doc'[a] = n /\ doc'[d] = n /\ pc'[a] # "idle" /\ pc'[d] # "idle" => a = d
      BY <1>1 DEF Solo
  <1>3. n \notin suspect' /\ (\A d \in Clients : doc'[d] = n => pc'[d] \notin between)
           => indexed(n)'
      BY <1>1 DEF Solo, indexed, between
  <1>4. ASSUME n \notin suspect', NEW d \in Clients, doc'[d] = n PROVE Tracked(d)'
      BY <1>1, <1>4 DEF Solo, Tracked
  <1>5. ASSUME NEW d \in Clients, doc'[d] = n PROVE Unshared(d)'
      BY <1>1, <1>5 DEF Solo, Unshared
  <1>6. faults' = 0 => n \notin suspect'
      BY <1>1 DEF Solo
  <1> QED BY <1>2, <1>3, <1>4, <1>5, <1>6 DEF Solo

\* A step of the client at work on the document: nobody else is, so its own
\* part of the invariant is enough.
LEMMA AtWork ==
    ASSUME NEW c \in Clients, NEW n \in Names, Solo(n), pc[c] # "idle", doc[c] = n,
           doc' = doc, shared' = shared,
           \A d \in Clients \ {c} : pc'[d] = pc[d],
           n \notin shared =>
              /\ n \notin suspect' /\ pc'[c] \notin between => indexed(n)'
              /\ n \notin suspect' => Tracked(c)'
              /\ Unshared(c)'
              /\ faults' = 0 => n \notin suspect'
    PROVE  Solo(n)'
  <1> SUFFICES ASSUME n \notin shared PROVE Solo(n)'
      BY DEF Solo
  <1>1. \A d \in Clients \ {c} : doc'[d] = n => pc'[d] = "idle"
      BY DEF Solo
  <1>2. n \notin suspect' /\ (\A d \in Clients : doc'[d] = n => pc'[d] \notin between)
           => indexed(n)'
      OBVIOUS
  <1>3. ASSUME n \notin suspect', NEW d \in Clients, doc'[d] = n PROVE Tracked(d)'
      BY <1>1, <1>3 DEF Tracked
  <1>4. ASSUME NEW d \in Clients, doc'[d] = n PROVE Unshared(d)'
      BY <1>1, <1>4 DEF Unshared
  <1> QED BY <1>1, <1>2, <1>3, <1>4 DEF Solo

\* A step of one client keeps what is known of the document it works on and of
\* all others.
LEMMA SoloStep ==
    ASSUME TypeOK, TypeOK', Checked, ~sameTable, \A n \in Names : Solo(n),
           NEW c \in Clients, Step(c)
    PROVE  \A n \in Names : Solo(n)'
  <1> USE DEF Return, Continue, Fault, Suspect, dbVars, argVars, isNewRecord, between
  <1>1. doc[c] \in Names /\ doc'[c] \in Names /\ content[c] \in Contents
      BY DEF TypeOK
  <1>2. /\ store[doc[c]] # NoRow => /\ store[doc[c]].version \in Nat
                                   /\ store[doc[c]].content \in Contents
        /\ \A ct \in Contents : quickRow(ct) # NoRow
      BY <1>1, QuickFieldsAssumption DEF TypeOK, Row, quickRow
  <1>3. Solo(doc[c])
      BY <1>1
  <1>4. faults \in Nat /\ faults' \in Nat /\ (faults' = faults + 1 => faults' # 0)
      BY BoundsAssumption DEF TypeOK
  \* A client that is not idle changes nothing but its own document.
  <1>5. ASSUME pc[c] # "idle", doc' = doc, shared' = shared, content' = content,
               faults' = faults \/ faults' = faults + 1,
               \A n \in Names \ {doc[c]} :
                  /\ store'[n] = store[n] /\ quick'[n] = quick[n]
                  /\ n \in suspect' <=> n \in suspect,
               \A d \in Clients \ {c} :
                  pc'[d] = pc[d] /\ storedVersion'[d] = storedVersion[d],
               \A n \in Names : n = doc[c] /\ n \notin shared =>
                  /\ n \notin suspect' /\ pc'[c] \notin between => indexed(n)'
                  /\ n \notin suspect' => Tracked(c)'
                  /\ Unshared(c)'
                  /\ faults' = 0 => n \notin suspect'
        PROVE  \A n \in Names : Solo(n)'
      <2>1. ASSUME NEW n \in Names, n = doc[c] PROVE Solo(n)'
          BY <1>5, <2>1, AtWork
      <2>2. ASSUME NEW n \in Names \ {doc[c]} PROVE Solo(n)'
          <3>1. Solo(n) /\ doc[c] # n /\ doc'[c] # n
              BY <2>2, <1>5
          <3>2. shared \subseteq shared' /\ (faults' = 0 => faults = 0)
              BY <1>4, <1>5
          <3> QED BY <1>5, <2>2, <3>1, <3>2, Elsewhere
      <2> QED BY <2>1, <2>2
  <1>6. ASSUME doc[c] \notin shared, pc[c] # "idle"
        PROVE  /\ doc[c] \notin suspect /\ pc[c] \notin between => indexed(doc[c])
               /\ doc[c] \notin suspect => Tracked(c)
               /\ Unshared(c)
               /\ faults = 0 => doc[c] \notin suspect
      <2>1. \A d \in Clients \ {c} : doc[d] = doc[c] => pc[d] = "idle"
          BY <1>3, <1>6 DEF Solo
      <2> QED BY <1>3, <1>6, <2>1 DEF Solo
  <1>10. CASE InvalidArgument(c)
      <2> SUFFICES ASSUME NEW n \in Names PROVE Solo(n)'
          OBVIOUS
      <2>1. Solo(n)
          OBVIOUS
      <2> QED BY <1>10, <2>1, Elsewhere DEF InvalidArgument, TypeOK
  <1>11. ASSUME NEW m \in Names, pc[c] = "idle", Share(m),
                \/ pc' = [pc EXCEPT ![c] = "version"]
                \/ pc' = [pc EXCEPT ![c] = "deleteOpen"],
                doc' = [doc EXCEPT ![c] = m],
                \A d \in Clients \ {c} : content'[d] = content[d],
                UNCHANGED <<store, quick, storedVersion, faults, suspect>>
         PROVE  \A n \in Names : Solo(n)'
      <2> SUFFICES ASSUME NEW n \in Names PROVE Solo(n)'
          OBVIOUS
      <2>1. Solo(n) /\ shared \subseteq shared'
          BY <1>11 DEF Share
      <2>2. CASE n # m
          <3>1. doc'[c] # n
              BY <1>11, <2>2 DEF TypeOK
          <3> QED BY <1>11, <2>1, <3>1, Elsewhere DEF TypeOK
      <2>3. CASE n = m /\ n \notin shared'
          <3>1. \A d \in Clients : doc[d] = n => pc[d] = "idle"
              BY <1>11, <2>3 DEF Share, busy
          <3>2. n \notin shared
              BY <2>1, <2>3
          <3>3. \A d \in Clients : doc'[d] = n => d = c \/ pc'[d] = "idle"
              BY <1>11, <3>1 DEF TypeOK
          <3>4. pc'[c] \in {"version", "deleteOpen"}
              BY <1>11 DEF TypeOK
          <3>5. n \notin suspect => indexed(n)
              BY <2>1, <3>1, <3>2 DEF Solo
          <3>6. \A d \in Clients : doc'[d] = n => Tracked(d)' /\ Unshared(d)'
              BY <3>3, <3>4 DEF Tracked, Unshared
          <3>7. n \notin suspect' => indexed(n)'
              BY <1>11, <3>5 DEF indexed
          <3>8. faults' = 0 => n \notin suspect'
              BY <1>11, <2>1, <3>2 DEF Solo
          <3> QED BY <3>3, <3>6, <3>7, <3>8 DEF Solo
      <2>4. CASE n \in shared'
          BY <2>4 DEF Solo
      <2> QED BY <2>2, <2>3, <2>4
  <1>12. ASSUME NEW m \in Names, NEW ct \in Contents, NEW b \in Bases,
                WriteContent(c, m, ct, b)
         PROVE  \A n \in Names : Solo(n)'
      <2>1. \A d \in Clients \ {c} : content'[d] = content[d]
          BY <1>12 DEF WriteContent, TypeOK
      <2> QED BY <1>11, <1>12, <2>1 DEF WriteContent
  <1>13. ASSUME NEW m \in Names, DeleteContent(c, m)
         PROVE  \A n \in Names : Solo(n)'
      BY <1>11, <1>13 DEF DeleteContent
  <1>14. CASE VersionOfContent(c)
      <2>1. pc[c] = "version" /\ faults' = faults
          BY <1>14 DEF VersionOfContent
      <2>2. pc'[c] \in {"idle", "open"} /\ storedVersion'[c] =
               IF store[doc[c]] = NoRow THEN NoVersion ELSE store[doc[c]].version
          BY <1>14 DEF VersionOfContent, CheckVersion, TypeOK
      <2>3. UNCHANGED <<store, quick, suspect, doc, content, shared>> /\
            \A d \in Clients \ {c} : pc'[d] = pc[d] /\ storedVersion'[d] = storedVersion[d]
          BY <1>14 DEF VersionOfContent, CheckVersion, TypeOK
      <2>4. doc[c] \notin shared =>
               /\ Tracked(c)' /\ Unshared(c)'
               /\ doc[c] \notin suspect => indexed(doc[c])
               /\ faults = 0 => doc[c] \notin suspect
          BY <1>2, <1>6, <2>1, <2>2, <2>3, NoVersionAssumption DEF Tracked, Unshared
      <2> QED BY <1>5, <2>1, <2>3, <2>4 DEF indexed
  <1>15. CASE VersionOfContentFails(c)
      <2>1. pc[c] = "version" /\ faults' = faults + 1 /\ faults' # 0
          BY <1>4, <1>15 DEF VersionOfContentFails
      <2>2. pc'[c] \in {"idle", "open"} /\ storedVersion'[c] = NoVersion
          BY <1>15 DEF VersionOfContentFails, CheckVersion, TypeOK
      <2>3. UNCHANGED <<store, quick, suspect, doc, content, shared>> /\
            \A d \in Clients \ {c} : pc'[d] = pc[d] /\ storedVersion'[d] = storedVersion[d]
          BY <1>15 DEF VersionOfContentFails, CheckVersion, TypeOK
      <2>4. doc[c] \notin shared =>
               /\ Tracked(c)' /\ Unshared(c)'
               /\ doc[c] \notin suspect => indexed(doc[c])
          BY <1>6, <2>1, <2>2, <2>3 DEF Tracked, Unshared
      <2> QED BY <1>5, <2>1, <2>3, <2>4 DEF indexed
  <1>16. CASE AcquireChannels(c) \/ AcquireDeleteChannels(c)
      <2>1. /\ \/ pc[c] = "open" /\ pc'[c] = "store"
               \/ pc[c] = "deleteOpen" /\ pc'[c] = "deleteStore"
            /\ \A d \in Clients \ {c} : pc'[d] = pc[d]
          BY <1>16 DEF AcquireChannels, AcquireDeleteChannels, TypeOK
      <2>2. UNCHANGED <<store, quick, suspect, faults, doc, content, shared, storedVersion>>
          BY <1>16 DEF AcquireChannels, AcquireDeleteChannels
      <2>3. doc[c] \notin shared =>
               /\ doc[c] \notin suspect => Tracked(c)' /\ indexed(doc[c])
               /\ Unshared(c)'
               /\ faults = 0 => doc[c] \notin suspect
          BY <1>6, <2>1, <2>2 DEF Tracked, Unshared
      <2> QED BY <1>5, <2>1, <2>2, <2>3 DEF indexed
  \* An operation that ends reports its failure, or leaves the tables in step.
  <1>17. ASSUME pc[c] # "idle", pc'[c] = "idle", \A d \in Clients \ {c} : pc'[d] = pc[d],
                UNCHANGED <<store, quick, doc, content, shared, storedVersion>>,
                faults' = faults + 1,
                \/ suspect' = suspect /\ (pc[c] \notin between \/ pc[c] = "undo")
                \/ suspect' = suspect \cup {doc[c]}
         PROVE  \A n \in Names : Solo(n)'
      <2>1. faults' # 0
          BY <1>4, <1>17
      <2>2. Tracked(c)' /\ Unshared(c)'
          BY <1>17 DEF Tracked, Unshared
      <2>3. doc[c] \notin shared /\ doc[c] \notin suspect' => indexed(doc[c])
          BY <1>6, <1>17 DEF Tracked
      <2> QED BY <1>5, <1>17, <2>1, <2>2, <2>3 DEF indexed
  <1>18. CASE AcquireChannelsFails(c)
      BY <1>17, <1>18 DEF AcquireChannelsFails, TypeOK
  <1>19. CASE ExecuteStoreFails(c)
      BY <1>17, <1>19 DEF ExecuteStoreFails, TypeOK
  <1>20. CASE DeleteAfterQuickFailFails(c)
      BY <1>17, <1>20 DEF DeleteAfterQuickFailFails, TypeOK
  <1>21. CASE DeleteQuickFails(c)
      BY <1>17, <1>21 DEF DeleteQuickFails, TypeOK
  <1>22. CASE Die(c)
      BY <1>17, <1>22 DEF Die, TypeOK
  <1>23. CASE ExecuteStore(c)
      <2>1. /\ pc[c] = "store" /\ matchesStatement(c) /\ pc' = [pc EXCEPT ![c] = "quick"]
            /\ store' = [store EXCEPT ![doc[c]] = contentRow(c)]
            /\ UNCHANGED <<quick, suspect, faults, doc, content, shared, storedVersion>>
          BY <1>23 DEF ExecuteStore, AfterStore
      <2>2. contentRow(c) # NoRow /\ contentRow(c).content = content[c]
          BY NoRowAssumption DEF contentRow, TypeOK
      <2>3. /\ store'[doc[c]] = contentRow(c) /\ pc'[c] = "quick"
            /\ \A n \in Names \ {doc[c]} : store'[n] = store[n]
            /\ \A d \in Clients \ {c} : pc'[d] = pc[d]
          BY <1>1, <2>1 DEF TypeOK
      <2>4. doc[c] \notin shared /\ doc[c] \notin suspect =>
               (storedVersion[c] = NoVersion) <=> (quick[doc[c]] = NoRow)
          BY <1>2, <1>6, <2>1 DEF matchesStatement, indexed
      <2>5. doc[c] \notin shared =>
               /\ doc[c] \notin suspect => Tracked(c)'
               /\ Unshared(c)'
               /\ faults = 0 => doc[c] \notin suspect
          BY <1>6, <2>1, <2>2, <2>3, <2>4 DEF Tracked, Unshared
      <2> QED BY <1>5, <2>1, <2>3, <2>5
  \* Alone on the document, an UPDATE finds the row whose version was fetched.
  <1>24. CASE ExecuteStoreNoRow(c)
      <2>1. /\ pc[c] = "store" /\ storedVersion[c] # NoVersion /\ ~matchesStatement(c)
            /\ pc' = [pc EXCEPT ![c] = "quick"]
            /\ UNCHANGED <<store, quick, suspect, faults, doc, content, shared, storedVersion>>
          BY <1>24 DEF ExecuteStoreNoRow, AfterStore
      <2>2. pc'[c] = "quick" /\ \A d \in Clients \ {c} : pc'[d] = pc[d]
          BY <2>1 DEF TypeOK
      <2>3. ~Tracked(c)
          BY <2>1 DEF Tracked, Checked, matchesStatement
      <2>4. doc[c] \notin shared =>
               /\ doc[c] \in suspect
               /\ Unshared(c)'
               /\ faults = 0 => doc[c] \notin suspect
          BY <1>6, <2>1, <2>2, <2>3 DEF Unshared
      <2> QED BY <1>5, <2>1, <2>2, <2>4
  \* Alone on the document, only after a fault is a name taken for free.
  <1>25. CASE ExecuteStoreRefused(c)
      <2>1. /\ pc[c] = "store" /\ storedVersion[c] = NoVersion /\ store[doc[c]] # NoRow
            /\ pc' = [pc EXCEPT ![c] = "idle"] /\ suspect' = suspect \cup {doc[c]}
            /\ UNCHANGED <<store, quick, faults, doc, content, shared, storedVersion>>
          BY <1>25 DEF ExecuteStoreRefused, matchesStatement
      <2>2. pc'[c] = "idle" /\ \A d \in Clients \ {c} : pc'[d] = pc[d]
          BY <2>1 DEF TypeOK
      <2>3. doc[c] \notin shared => Unshared(c)' /\ faults # 0
          BY <1>6, <2>1, <2>2 DEF Unshared
      <2> QED BY <1>5, <2>1, <2>2, <2>3
  <1>26. CASE ExecuteQuick(c)
      <2>1. /\ pc[c] = "quick" /\ pc' = [pc EXCEPT ![c] = "idle"]
            /\ UNCHANGED <<store, suspect, faults, doc, content, shared, storedVersion>>
            /\ quick' = IF storedVersion[c] = NoVersion \/ quick[doc[c]] # NoRow
                        THEN [quick EXCEPT ![doc[c]] = quickRow(content[c])]
                        ELSE quick
          BY <1>26 DEF ExecuteQuick
      <2>2. /\ pc'[c] = "idle" /\ \A d \in Clients \ {c} : pc'[d] = pc[d]
            /\ \A n \in Names \ {doc[c]} : quick'[n] = quick[n]
            /\ storedVersion[c] = NoVersion \/ quick[doc[c]] # NoRow =>
                  quick'[doc[c]] = quickRow(content[c])
          BY <1>1, <2>1 DEF TypeOK
      <2>3. Tracked(c)' /\ Unshared(c)'
          BY <2>2 DEF Tracked, Unshared
      <2>4. doc[c] \notin shared =>
               /\ doc[c] \notin suspect => quick'[doc[c]] = quickRow(store[doc[c]].content)
                                           /\ store[doc[c]] # NoRow
               /\ faults = 0 => doc[c] \notin suspect
          BY <1>6, <2>1, <2>2 DEF Tracked
      <2> QED BY <1>5, <2>1, <2>2, <2>3, <2>4 DEF indexed
  <1>27. ASSUME pc[c] = "quick", AfterQuickError(c),
                \/ faults' = faults + 1
                \/ faults' = faults /\ storedVersion[c] = NoVersion /\ quick[doc[c]] # NoRow
         PROVE  \A n \in Names : Solo(n)'
      <2>1. /\ pc' = [pc EXCEPT ![c] = IF storedVersion[c] = NoVersion THEN "undo" ELSE "idle"]
            /\ suspect' = suspect \cup {doc[c]}
            /\ UNCHANGED <<store, quick, doc, content, shared, storedVersion>>
          BY <1>27 DEF AfterQuickError
      <2>2. pc'[c] \in {"undo", "idle"} /\ \A d \in Clients \ {c} : pc'[d] = pc[d]
          BY <2>1 DEF TypeOK
      <2>3. doc[c] \notin shared => faults' # 0
          BY <1>4, <1>6, <1>27 DEF Tracked
      <2>4. doc[c] \notin shared => Unshared(c)'
          BY <2>2, <2>3 DEF Unshared
      <2> QED BY <1>5, <1>27, <2>1, <2>2, <2>3, <2>4
  <1>28. CASE ExecuteQuickRefused(c)
      BY <1>27, <1>28 DEF ExecuteQuickRefused
  <1>29. CASE ExecuteQuickFails(c)
      BY <1>27, <1>29 DEF ExecuteQuickFails
  <1>30. CASE DeleteAfterQuickFail(c)
      <2>1. /\ pc[c] = "undo" /\ pc' = [pc EXCEPT ![c] = "idle"]
            /\ store' = [store EXCEPT ![doc[c]] = NoRow]
            /\ UNCHANGED <<quick, suspect, faults, doc, content, shared, storedVersion>>
          BY <1>30 DEF DeleteAfterQuickFail
      <2>2. /\ pc'[c] = "idle" /\ \A d \in Clients \ {c} : pc'[d] = pc[d]
            /\ \A n \in Names \ {doc[c]} : store'[n] = store[n]
          BY <1>1, <2>1 DEF TypeOK
      <2>3. doc[c] \notin shared => doc[c] \in suspect /\ Unshared(c)' /\ faults # 0
          BY <1>6, <2>1, <2>2 DEF Tracked, Unshared
      <2> QED BY <1>5, <2>1, <2>2, <2>3
  <1>31. CASE DeleteStore(c)
      <2>1. /\ pc[c] = "deleteStore" /\ pc' = [pc EXCEPT ![c] = "deleteQuick"]
            /\ store' = [store EXCEPT ![doc[c]] = NoRow]
            /\ UNCHANGED <<quick, suspect, faults, doc, content, shared, storedVersion>>
          BY <1>31 DEF DeleteStore
      <2>2. /\ pc'[c] = "deleteQuick" /\ \A d \in Clients \ {c} : pc'[d] = pc[d]
            /\ \A n \in Names \ {doc[c]} : store'[n] = store[n]
            /\ store'[doc[c]] = NoRow
          BY <1>1, <2>1 DEF TypeOK
      <2>3. doc[c] \notin shared =>
               /\ Tracked(c)' /\ Unshared(c)'
               /\ faults = 0 => doc[c] \notin suspect
          BY <1>6, <2>1, <2>2 DEF Tracked, Unshared
      <2> QED BY <1>5, <2>1, <2>2, <2>3
  <1>32. CASE DeleteQuick(c)
      <2>1. /\ pc[c] = "deleteQuick" /\ pc' = [pc EXCEPT ![c] = "idle"]
            /\ quick' = [quick EXCEPT ![doc[c]] = NoRow]
            /\ suspect' = suspect \ {doc[c]}
            /\ UNCHANGED <<store, faults, doc, content, shared, storedVersion>>
          BY <1>32 DEF DeleteQuick
      <2>2. /\ pc'[c] = "idle" /\ \A d \in Clients \ {c} : pc'[d] = pc[d]
            /\ \A n \in Names \ {doc[c]} : quick'[n] = quick[n]
            /\ quick'[doc[c]] = NoRow
          BY <1>1, <2>1 DEF TypeOK
      <2>3. Tracked(c)' /\ Unshared(c)'
          BY <2>2 DEF Tracked, Unshared
      <2>4. doc[c] \notin shared => store[doc[c]] = NoRow
          BY <1>6, <2>1 DEF Unshared
      <2> QED BY <1>5, <2>1, <2>2, <2>3, <2>4 DEF indexed
  <1> QED
      BY <1>10, <1>12, <1>13, <1>14, <1>15, <1>16, <1>18, <1>19, <1>20, <1>21, <1>22,
         <1>23, <1>24, <1>25, <1>26, <1>28, <1>29, <1>30, <1>31, <1>32
      DEF Step

\* The bookkeeping of the documents nobody shared holds throughout.
LEMMA SoloAlways == Spec => []SoloInv
  <1>1. Init => SoloInv
      BY DEF Init, SoloInv, Solo, Tracked, Unshared, indexed
  <1>2. TypeOK /\ TypeOK' /\ Checked /\ SoloInv /\ [Next]_vars => SoloInv'
      <2> SUFFICES ASSUME TypeOK, TypeOK', Checked, SoloInv, [Next]_vars, ~sameTable
                   PROVE  \A n \in Names : Solo(n)'
          BY DEF SoloInv, Next, vars
      <2>1. CASE Next
          BY <2>1, SoloStep DEF Next, SoloInv
      <2>2. CASE UNCHANGED vars
          BY <2>2 DEF vars, SoloInv, Solo, Tracked, Unshared, indexed, between
      <2> QED BY <2>1, <2>2
  <1> QED BY <1>1, <1>2, FolderChecked, PTL DEF Spec

\* A document no operation is at work on is indexed by the quick row of its
\* content, unless an operation on it reported an error or died: with one table
\* whatever the clients do, with two as long as they did not meet on it.
THEOREM QuickIndexesStoreCorrect == Spec => []QuickIndexesStore
  <1>1. SoloInv /\ SameTableConsistent => QuickIndexesStore
      BY DEF SoloInv, SameTableConsistent, QuickIndexesStore, Solo, busy, between
  <1> QED BY <1>1, SoloAlways, SameTableAlways, PTL

\* A create that reports the failure of its quick statement has taken its
\* INSERT back, when nothing else failed and nobody else was at work.
THEOREM FailedCreateUndoneCorrect == Spec => FailedCreateUndone
  <1>1. TypeOK /\ SoloInv /\ SameTableConsistent /\ [Next]_vars => [CreateUndone]_vars
      <2> SUFFICES ASSUME TypeOK, SoloInv, SameTableConsistent,
                          NEW a \in Clients, Step(a),
                          NEW c \in Clients, pc[c] \in {"quick", "undo"}, isNewRecord(c),
                          pc'[c] = "idle", result'[c] = "quickFailed",
                          faults' <= 1, doc[c] \notin shared
                   PROVE  store'[doc[c]] = NoRow
          BY DEF Next, CreateUndone
      <2> USE DEF Return, Continue, Fault, CheckVersion, AfterStore, AfterQuickError
      <2>1. ~sameTable /\ doc[c] \in Names /\ Unshared(c)
          BY DEF SameTableConsistent, SoloInv, Solo, TypeOK
      <2>2. a = c
          BY DEF Step, TypeOK, InvalidArgument, WriteContent, VersionOfContent,
                 VersionOfContentFails, AcquireChannels, AcquireChannelsFails, ExecuteStore,
                 ExecuteStoreNoRow, ExecuteStoreRefused, ExecuteStoreFails, ExecuteQuick,
                 ExecuteQuickRefused, ExecuteQuickFails, DeleteAfterQuickFail,
                 DeleteAfterQuickFailFails, DeleteContent, AcquireDeleteChannels,
                 DeleteStore, DeleteQuick, DeleteQuickFails, Die
      <2>3. \/ ExecuteQuick(c) \/ ExecuteQuickRefused(c) \/ ExecuteQuickFails(c)
            \/ DeleteAfterQuickFail(c) \/ DeleteAfterQuickFailFails(c) \/ Die(c)
          BY <2>2 DEF Step, InvalidArgument, WriteContent, VersionOfContent,
                 VersionOfContentFails, AcquireChannels, AcquireChannelsFails, ExecuteStore,
                 ExecuteStoreNoRow, ExecuteStoreRefused, ExecuteStoreFails, DeleteContent,
                 AcquireDeleteChannels, DeleteStore, DeleteQuick, DeleteQuickFails
      <2>4. ~ExecuteQuick(c) /\ ~ExecuteQuickRefused(c) /\ ~ExecuteQuickFails(c) /\ ~Die(c)
          BY DEF ExecuteQuick, ExecuteQuickRefused, ExecuteQuickFails, Die, TypeOK
      <2>5. CASE DeleteAfterQuickFail(c)
          BY <2>1, <2>5 DEF DeleteAfterQuickFail, TypeOK
      \* Two faults: the quick statement's and this one.
      <2>6. CASE DeleteAfterQuickFailFails(c)
          <3>1. faults # 0 /\ faults' = faults + 1 /\ faults \in Nat
              BY <2>1, <2>6, BoundsAssumption DEF DeleteAfterQuickFailFails, Unshared, TypeOK
          <3> QED BY <3>1
      <2> QED BY <2>3, <2>4, <2>5, <2>6
  <1> QED BY <1>1, FolderTypeCorrect, SoloAlways, SameTableAlways, PTL
          DEF Spec, FailedCreateUndone

-----------------------------------------------------------------------------
(* What success means: the guarded counterpart of SuccessMeansStored       *)

\* What a client that is alone with its document knows of it, also after
\* errors and crashes of others before it.
Knows(c) ==
    /\ pc[c] \in {"open", "store"} /\ storedVersion[c] # NoVersion =>
          store[doc[c]] # NoRow /\ store[doc[c]].version = storedVersion[c]
    /\ pc[c] = "quick" => wrote[c] /\ store[doc[c]] = contentRow(c)
    /\ pc[c] = "deleteQuick" => wrote[c] /\ store[doc[c]] = NoRow

AloneInv ==
    \A c \in Clients :
        pc[c] # "idle" /\ doc[c] \notin shared =>
            /\ \A d \in Clients : d # c /\ pc[d] # "idle" => doc[d] # doc[c]
            /\ Knows(c)

statements == {"store", "quick", "deleteStore", "deleteQuick"}

\* A statement that ends its operation without an error, on a document nobody
\* else was at work on, has stored the new row or deleted the old one.
SuccessStored ==
    \A c \in Clients :
        /\ pc[c] \in statements /\ pc'[c] = "idle" /\ result'[c] = "nil"
        /\ doc[c] \notin shared
        => /\ wrote'[c]
           /\ store'[doc[c]] = IF pc[c] \in {"store", "quick"} THEN contentRow(c) ELSE NoRow

\* A client's step leaves the other clients and the documents it does not work
\* on alone, and puts what it begins to share into shared.
Frame(a) ==
    /\ \A d \in Clients \ {a} :
          /\ pc'[d] = pc[d] /\ doc'[d] = doc[d] /\ content'[d] = content[d]
          /\ storedVersion'[d] = storedVersion[d] /\ wrote'[d] = wrote[d]
    /\ \A n \in Names : store'[n] = store[n] \/ (pc[a] # "idle" /\ doc[a] = n)
    /\ shared \subseteq shared'
    /\ pc[a] # "idle" => doc' = doc /\ content' = content /\ shared' = shared
    /\ pc[a] = "idle" /\ pc'[a] # "idle" =>
          pc'[a] \in {"version", "deleteOpen"} /\ (busy(doc'[a]) => doc'[a] \in shared')

LEMMA StepFrame ==
    ASSUME TypeOK, NEW a \in Clients, Step(a)
    PROVE  Frame(a)
  <1> USE DEF Frame, TypeOK, Return, Continue, Fault, Suspect, dbVars, argVars
  <1>1. CASE InvalidArgument(a)
      BY <1>1 DEF InvalidArgument
  <1>2. ASSUME NEW n \in Names, NEW ct \in Contents, NEW b \in Bases,
               WriteContent(a, n, ct, b)
        PROVE  Frame(a)
      BY <1>2 DEF WriteContent, Share
  <1>3. ASSUME NEW n \in Names, DeleteContent(a, n) PROVE Frame(a)
      BY <1>3 DEF DeleteContent, Share
  <1>4. CASE VersionOfContent(a) \/ VersionOfContentFails(a)
      <2>1. PICK fetched : pc[a] = "version" /\ CheckVersion(a, fetched)
          BY <1>4 DEF VersionOfContent, VersionOfContentFails
      <2> QED BY <2>1 DEF CheckVersion
  <1>5. CASE AcquireChannels(a) \/ AcquireChannelsFails(a) \/ AcquireDeleteChannels(a)
      BY <1>5 DEF AcquireChannels, AcquireChannelsFails, AcquireDeleteChannels
  <1>6. CASE ExecuteStore(a) \/ ExecuteStoreNoRow(a)
      BY <1>6 DEF ExecuteStore, ExecuteStoreNoRow, AfterStore
  <1>7. CASE ExecuteStoreRefused(a) \/ ExecuteStoreFails(a) \/ Die(a) \/ DeleteQuickFails(a)
                \/ DeleteAfterQuickFailFails(a)
      BY <1>7 DEF ExecuteStoreRefused, ExecuteStoreFails, Die, DeleteQuickFails,
                  DeleteAfterQuickFailFails
  <1>8. CASE ExecuteQuickRefused(a) \/ ExecuteQuickFails(a)
      BY <1>8 DEF ExecuteQuickRefused, ExecuteQuickFails, AfterQuickError
  <1>9. CASE ExecuteQuick(a) \/ DeleteAfterQuickFail(a) \/ DeleteQuick(a)
      BY <1>9 DEF ExecuteQuick, DeleteAfterQuickFail, DeleteQuick
  <1>10. CASE DeleteStore(a)
      BY <1>10 DEF DeleteStore
  <1> QED BY <1>1, <1>2, <1>3, <1>4, <1>5, <1>6, <1>7, <1>8, <1>9, <1>10 DEF Step

\* The row a client fetched is the row its statement finds: an UPDATE of no row
\* takes somebody else's work on the document.
LEMMA UpdateFindsRow ==
    ASSUME TypeOK, Checked, NEW c \in Clients, Knows(c)
    PROVE  ~ExecuteStoreNoRow(c)
  <1> SUFFICES ASSUME ExecuteStoreNoRow(c) PROVE FALSE
      OBVIOUS
  <1>1. pc[c] = "store" /\ storedVersion[c] # NoVersion /\ ~matchesStatement(c)
      BY DEF ExecuteStoreNoRow, isNewRecord
  <1>2. store[doc[c]] # NoRow /\ store[doc[c]].version = storedVersion[c]
      BY <1>1 DEF Knows
  <1>3. baseVersion[c] # 0 => storedVersion[c] = baseVersion[c]
      BY <1>1 DEF Checked
  <1> QED BY <1>1, <1>2, <1>3 DEF matchesStatement, isNewRecord

\* What the client at work knows after its own step.
LEMMA StepKnows ==
    ASSUME TypeOK, Checked, NEW c \in Clients, Step(c), pc[c] # "idle", Knows(c)
    PROVE  Knows(c)'
  <1> USE DEF TypeOK, Return, Continue, Fault, Suspect, dbVars, argVars
  <1>1. doc[c] \in Names
      OBVIOUS
  <1>2. CASE VersionOfContent(c) \/ VersionOfContentFails(c)
      <2>1. PICK fetched :
               /\ pc[c] = "version" /\ CheckVersion(c, fetched)
               /\ fetched # NoVersion =>
                     store[doc[c]] # NoRow /\ store[doc[c]].version = fetched
          BY <1>2 DEF VersionOfContent, VersionOfContentFails
      <2>2. storedVersion'[c] = fetched /\ pc'[c] \in {"idle", "open"} /\ UNCHANGED <<store, doc>>
          BY <2>1 DEF CheckVersion
      <2> QED BY <2>1, <2>2 DEF Knows
  <1>3. CASE AcquireChannels(c) \/ AcquireChannelsFails(c) \/ AcquireDeleteChannels(c)
      BY <1>3 DEF AcquireChannels, AcquireChannelsFails, AcquireDeleteChannels, Knows
  <1>4. CASE ExecuteStore(c)
      <2>1. /\ pc'[c] \in {"idle", "quick"} /\ wrote'[c] = TRUE
            /\ store'[doc[c]] = contentRow(c)
            /\ UNCHANGED <<doc, content, storedVersion>>
          BY <1>1, <1>4 DEF ExecuteStore, AfterStore
      <2>2. contentRow(c)' = contentRow(c)
          BY <2>1 DEF contentRow, isNewRecord
      <2> QED BY <2>1, <2>2 DEF Knows
  <1>5. ~ExecuteStoreNoRow(c)
      BY UpdateFindsRow
  <1>6. CASE ExecuteStoreRefused(c) \/ ExecuteStoreFails(c) \/ Die(c) \/ DeleteQuickFails(c)
                \/ DeleteAfterQuickFailFails(c) \/ DeleteAfterQuickFail(c) \/ DeleteQuick(c)
                \/ ExecuteQuick(c)
      <2>1. pc'[c] = "idle"
          BY <1>6 DEF ExecuteStoreRefused, ExecuteStoreFails, Die, DeleteQuickFails,
                      DeleteAfterQuickFailFails, DeleteAfterQuickFail, DeleteQuick, ExecuteQuick
      <2> QED BY <2>1 DEF Knows
  <1>7. CASE ExecuteQuickRefused(c) \/ ExecuteQuickFails(c)
      <2>1. pc'[c] \in {"idle", "undo"}
          BY <1>7 DEF ExecuteQuickRefused, ExecuteQuickFails, AfterQuickError
      <2> QED BY <2>1 DEF Knows
  <1>8. CASE DeleteStore(c)
      <2>1. /\ pc'[c] \in {"idle", "deleteQuick"} /\ wrote'[c] = TRUE
            /\ store'[doc[c]] = NoRow /\ doc' = doc
          BY <1>1, <1>8 DEF DeleteStore
      <2> QED BY <2>1 DEF Knows
  <1> QED BY <1>2, <1>3, <1>4, <1>5, <1>6, <1>7, <1>8
          DEF Step, InvalidArgument, WriteContent, DeleteContent

LEMMA AloneStep ==
    ASSUME TypeOK, Checked, AloneInv, NEW a \in Clients, Step(a)
    PROVE  AloneInv'
  <1> SUFFICES ASSUME NEW c \in Clients, pc'[c] # "idle", doc'[c] \notin shared'
               PROVE  /\ \A d \in Clients : d # c /\ pc'[d] # "idle" => doc'[d] # doc'[c]
                      /\ Knows(c)'
      BY DEF AloneInv
  <1>1. Frame(a)
      BY StepFrame
  <1>2. CASE c = a /\ pc[a] # "idle"
      <2>1. doc' = doc /\ shared' = shared
          BY <1>1, <1>2 DEF Frame
      <2>2. Knows(c) /\ \A d \in Clients : d # c /\ pc[d] # "idle" => doc[d] # doc[c]
          BY <1>2, <2>1 DEF AloneInv
      <2>3. Knows(c)'
          BY <1>2, <2>2, StepKnows
      <2> QED BY <1>1, <1>2, <2>1, <2>2, <2>3 DEF Frame
  <1>3. CASE c = a /\ pc[a] = "idle"
      <2>1. pc'[c] \in {"version", "deleteOpen"} /\ ~busy(doc'[c])
          BY <1>1, <1>3 DEF Frame
      <2>2. \A d \in Clients : d # c /\ pc'[d] # "idle" => doc'[d] # doc'[c]
          BY <1>1, <1>3, <2>1 DEF Frame, busy
      <2> QED BY <2>1, <2>2 DEF Knows
  <1>4. CASE c # a
      <2>1. /\ pc'[c] = pc[c] /\ doc'[c] = doc[c] /\ content'[c] = content[c]
            /\ storedVersion'[c] = storedVersion[c] /\ wrote'[c] = wrote[c]
            /\ doc[c] \notin shared
          BY <1>1, <1>4 DEF Frame
      <2>2. Knows(c) /\ \A d \in Clients : d # c /\ pc[d] # "idle" => doc[d] # doc[c]
          BY <2>1 DEF AloneInv
      <2>3. store'[doc[c]] = store[doc[c]]
          BY <1>1, <1>4, <2>2 DEF Frame, TypeOK
      <2>4. contentRow(c)' = contentRow(c)
          BY <2>1 DEF contentRow, isNewRecord
      <2>5. Knows(c)'
          BY <2>1, <2>2, <2>3, <2>4 DEF Knows
      <2>6. ASSUME NEW d \in Clients, d # c, pc'[d] # "idle", doc'[d] = doc'[c] PROVE FALSE
          <3>1. d = a /\ pc[a] = "idle"
              BY <1>1, <2>1, <2>2, <2>6 DEF Frame
          <3>2. busy(doc'[a])
              BY <2>1, <2>6, <3>1 DEF busy
          <3> QED BY <1>1, <2>6, <3>1, <3>2 DEF Frame
      <2> QED BY <2>5, <2>6
  <1> QED BY <1>2, <1>3, <1>4

LEMMA AloneAlways == Spec => []AloneInv
  <1>1. Init => AloneInv
      BY DEF Init, AloneInv
  <1>2. TypeOK /\ Checked /\ AloneInv /\ [Next]_vars => AloneInv'
      <2>1. CASE UNCHANGED vars
          BY <2>1 DEF vars, AloneInv, Knows, contentRow, isNewRecord
      <2> QED BY <2>1, AloneStep DEF Next
  <1> QED BY <1>1, <1>2, FolderChecked, PTL DEF Spec

\* A write that reports success has stored the content under the version after
\* the one it fetched, and a delete has deleted, unless another client was at
\* work on the document at the same time (the run that refutes
\* SuccessMeansStored shows what happens then): with one table or two, and
\* whatever operations on the document failed or died before.
THEOREM SuccessStoredUnlessShared == Spec => [][SuccessStored]_vars
  <1>1. TypeOK /\ Checked /\ AloneInv /\ [Next]_vars => [SuccessStored]_vars
      <2> SUFFICES ASSUME TypeOK, Checked, AloneInv, NEW a \in Clients, Step(a),
                          NEW c \in Clients, pc[c] \in statements, pc'[c] = "idle",
                          result'[c] = "nil", doc[c] \notin shared
                   PROVE  /\ wrote'[c]
                          /\ store'[doc[c]] = IF pc[c] \in {"store", "quick"}
                                              THEN contentRow(c) ELSE NoRow
          BY DEF Next, SuccessStored
      <2> USE DEF Return, Continue, Fault, CheckVersion, AfterStore, AfterQuickError
      <2>1. a = c
          <3>1. Frame(a)
              BY StepFrame
          <3> QED BY <3>1 DEF Frame, statements
      <2>2. Knows(c) /\ doc[c] \in Names
          BY DEF AloneInv, statements, TypeOK
      <2>3. ~ExecuteStoreNoRow(c)
          BY <2>2, UpdateFindsRow
      <2>4. \/ ExecuteStore(c) \/ ExecuteQuick(c) \/ DeleteStore(c) \/ DeleteQuick(c)
            \/ ExecuteStoreRefused(c) \/ ExecuteStoreFails(c) \/ ExecuteQuickRefused(c)
            \/ ExecuteQuickFails(c) \/ DeleteQuickFails(c) \/ Die(c)
          BY <2>1, <2>3
          DEF statements, Step, InvalidArgument, WriteContent, VersionOfContent,
              VersionOfContentFails, AcquireChannels, AcquireChannelsFails,
              DeleteAfterQuickFail, DeleteAfterQuickFailFails, DeleteContent,
              AcquireDeleteChannels
      <2>5. ~(\/ ExecuteStoreRefused(c) \/ ExecuteStoreFails(c) \/ ExecuteQuickRefused(c)
              \/ ExecuteQuickFails(c) \/ DeleteQuickFails(c) \/ Die(c))
          BY DEF TypeOK, ExecuteStoreRefused, ExecuteStoreFails, ExecuteQuickRefused,
                 ExecuteQuickFails, DeleteQuickFails, Die
      <2>6. CASE ExecuteStore(c)
          BY <2>2, <2>6 DEF ExecuteStore, TypeOK
      <2>7. CASE ExecuteQuick(c)
          BY <2>2, <2>7 DEF ExecuteQuick, Knows, argVars
      <2>8. CASE DeleteStore(c)
          BY <2>2, <2>8 DEF DeleteStore, TypeOK
      <2>9. CASE DeleteQuick(c)
          BY <2>2, <2>9 DEF DeleteQuick, Knows, argVars
      <2> QED BY <2>4, <2>5, <2>6, <2>7, <2>8, <2>9
  <1> QED BY <1>1, AloneAlways, FolderChecked, PTL DEF Spec
=============================================================================
