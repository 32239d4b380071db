------------------------------ MODULE GCSFolder ------------------------------
(***************************************************************************)
(* A folder of the GDL content store (GDLContentStore/GCSFolder.m).  A     *)
(* document has a row in the blob ("store") table, holding content and     *)
(* version, and a row in the quick table, holding the fields extracted     *)
(* from the content.  Several processes write and delete documents of one  *)
(* folder.  No transaction is used: every SQL statement commits alone, so  *)
(* every statement is a step, and statements of different clients          *)
(* interleave.  A statement or the opening of a channel can fail, and a    *)
(* client process can die between two statements.                          *)
(***************************************************************************)
EXTENDS Integers

CONSTANTS
    Clients,        \* processes that work on the folder
    Names,          \* document names (c_name, the key of both tables)
    Contents,       \* document contents
    QuickFields,    \* [Contents -> quick rows]: what the extractor returns
    Bases,          \* base versions callers pass; 0 overrides the check
    NoRow, NoQuickRow, NoVersion,
    MaxOps,         \* bound: operations all clients start
    MaxFaults       \* bound: failing statements, failing opens and crashes

ASSUME BasesAssumption == Bases \subseteq Nat
ASSUME BoundsAssumption == MaxOps \in Nat /\ MaxFaults \in Nat
ASSUME NoVersionAssumption == NoVersion \notin Int
ASSUME NamesAssumption == Names # {} /\ Contents # {}
ASSUME QuickFieldsAssumption == \A ct \in Contents : QuickFields[ct] # NoRow
ASSUME NoRowAssumption == NoRow \notin [version : Nat, content : Contents]

VARIABLES
    sameTable,      \* sameTableForQuick: quick columns live in the store row
    store,          \* [Names -> [version, content] or NoRow]
    quick,          \* [Names -> quick row or NoRow]
    pc,             \* next statement of each client
    doc, content, baseVersion,      \* arguments of its operation
    storedVersion,  \* c_version it fetched
    result,         \* what its last operation returned, "nil" for no error
    wrote,          \* its store statement affected a row
    ops, faults,    \* operations started, faults injected
    suspect,        \* names with an operation that reported an error or died
    shared          \* names two clients have worked on at the same time

dbVars == <<store, quick>>
argVars == <<doc, content, baseVersion, shared>>
vars == <<sameTable, store, quick, pc, doc, content, baseVersion, storedVersion, result,
          wrote, ops, faults, suspect, shared>>

Row == [version : Nat, content : Contents]
PCs == {"idle", "version", "open", "store", "quick", "undo",
        "deleteOpen", "deleteStore", "deleteQuick"}
Results == {"nil", "invalidArgument", "versionMismatch", "extractFailed",
            "storeFailed", "quickFailed", "died"}

quickRow(ct) == QuickFields[ct]
isNewRecord(c) == storedVersion[c] = NoVersion

\* -unsignedIntValue of the fetched version; nil answers 0.
unsignedIntValue(v) == IF v = NoVersion THEN 0 ELSE v

\* The folder starts with documents other sessions stored completely.
Init ==
    /\ sameTable \in BOOLEAN
    /\ store \in [Names -> [version : {0, 1}, content : Contents] \cup {NoRow}]
    /\ \A n \in Names : store[n] # NoRow => quickRow(store[n].content) # NoQuickRow
    /\ quick = [n \in Names |-> IF store[n] = NoRow THEN NoRow
                                ELSE quickRow(store[n].content)]
    /\ pc = [c \in Clients |-> "idle"]
    /\ doc = [c \in Clients |-> CHOOSE n \in Names : TRUE]
    /\ content = [c \in Clients |-> CHOOSE ct \in Contents : TRUE]
    /\ baseVersion = [c \in Clients |-> 0]
    /\ storedVersion = [c \in Clients |-> NoVersion]
    /\ result = [c \in Clients |-> "nil"]
    /\ wrote = [c \in Clients |-> TRUE]
    /\ ops = 0 /\ faults = 0
    /\ suspect = {} /\ shared = {}

-----------------------------------------------------------------------------
(* Returning to the caller                                                 *)

Return(c, r) ==
    /\ pc' = [pc EXCEPT ![c] = "idle"]
    /\ result' = [result EXCEPT ![c] = r]

Continue(c, where) ==
    /\ pc' = [pc EXCEPT ![c] = where]
    /\ UNCHANGED result

Fault ==
    /\ faults < MaxFaults
    /\ faults' = faults + 1

Suspect(c) == suspect' = suspect \cup {doc[c]}

busy(n) == \E c \in Clients : pc[c] # "idle" /\ doc[c] = n

Share(n) == shared' = IF busy(n) THEN shared \cup {n} ELSE shared

-----------------------------------------------------------------------------
(* -writeContent:toName:baseVersion:                                       *)

\* A missing name or content is refused before anything is read.
InvalidArgument(c) ==
    /\ pc[c] = "idle" /\ ops < MaxOps
    /\ ops' = ops + 1
    /\ Return(c, "invalidArgument")
    /\ UNCHANGED <<dbVars, argVars, storedVersion, wrote, faults, suspect>>

WriteContent(c, n, ct, base) ==
    /\ pc[c] = "idle" /\ ops < MaxOps
    /\ ops' = ops + 1
    /\ Continue(c, "version")
    /\ doc' = [doc EXCEPT ![c] = n]
    /\ content' = [content EXCEPT ![c] = ct]
    /\ baseVersion' = [baseVersion EXCEPT ![c] = base]
    /\ wrote' = [wrote EXCEPT ![c] = FALSE]
    /\ Share(n)
    /\ UNCHANGED <<dbVars, storedVersion, faults, suspect>>

\* Mutant: the result of the extractor is not checked.
CheckVersionOnly(c, fetched) ==
    /\ storedVersion' = [storedVersion EXCEPT ![c] = fetched]
    /\ IF baseVersion[c] # 0 /\ baseVersion[c] # unsignedIntValue(fetched)
       THEN Return(c, "versionMismatch")
       ELSE Continue(c, "open")
    /\ UNCHANGED <<dbVars, argVars, wrote, ops, suspect>>

\* The checks between the fetch of the version and the first statement.
CheckVersion(c, fetched) ==
    /\ storedVersion' = [storedVersion EXCEPT ![c] = fetched]
    /\ IF baseVersion[c] # 0 /\ baseVersion[c] # unsignedIntValue(fetched)
       THEN Return(c, "versionMismatch")
       ELSE IF quickRow(content[c]) = NoQuickRow
            THEN Return(c, "extractFailed")
            ELSE Continue(c, "open")
    /\ UNCHANGED <<dbVars, argVars, wrote, ops, suspect>>

VersionOfContent(c) ==
    /\ pc[c] = "version"
    /\ CheckVersion(c, IF store[doc[c]] = NoRow THEN NoVersion
                       ELSE store[doc[c]].version)
    /\ UNCHANGED faults

\* A failed SELECT, or no channel for it, answers nil: "no such record".
VersionOfContentFails(c) ==
    /\ pc[c] = "version"
    /\ Fault
    /\ CheckVersion(c, NoVersion)

\* Both channels could be opened.
AcquireChannels(c) ==
    /\ pc[c] = "open"
    /\ Continue(c, "store")
    /\ UNCHANGED <<dbVars, argVars, storedVersion, wrote, ops, faults, suspect>>

\* A channel could not be opened: logged as an error, but nil is returned.
AcquireChannelsFails(c) ==
    /\ pc[c] \in {"open", "deleteOpen"}
    /\ Fault
    /\ Return(c, "nil")
    /\ UNCHANGED <<dbVars, argVars, storedVersion, wrote, ops, suspect>>

contentRow(c) ==
    [version |-> IF isNewRecord(c) THEN 0 ELSE storedVersion[c] + 1,
     content |-> content[c]]

\* Mutant: the UPDATE does not name the version.
matchesName(c) == isNewRecord(c) <=> store[doc[c]] = NoRow

\* WHERE c_name = name [AND c_version = base]; an INSERT needs a free name.
matchesStatement(c) ==
    LET row == store[doc[c]] IN
    IF isNewRecord(c) THEN row = NoRow
    ELSE row # NoRow /\ (baseVersion[c] # 0 => row.version = baseVersion[c])

AfterStore(c) == IF sameTable THEN Return(c, "nil") ELSE Continue(c, "quick")

\* INSERT or UPDATE of the blob table; an UPDATE of no row is no error.
ExecuteStore(c) ==
    /\ pc[c] = "store"
    /\ matchesStatement(c)
    /\ store' = [store EXCEPT ![doc[c]] = contentRow(c)]
    /\ quick' = IF sameTable THEN [quick EXCEPT ![doc[c]] = quickRow(content[c])]
                ELSE quick
    /\ wrote' = [wrote EXCEPT ![c] = TRUE]
    /\ AfterStore(c)
    /\ UNCHANGED <<argVars, storedVersion, ops, faults, suspect>>

ExecuteStoreNoRow(c) ==
    /\ pc[c] = "store"
    /\ ~isNewRecord(c) /\ ~matchesStatement(c)
    /\ AfterStore(c)
    /\ UNCHANGED <<dbVars, argVars, storedVersion, wrote, ops, faults, suspect>>

\* The INSERT of a name that exists meanwhile is refused by the database.
ExecuteStoreRefused(c) ==
    /\ pc[c] = "store"
    /\ isNewRecord(c) /\ ~matchesStatement(c)
    /\ Return(c, "storeFailed")
    /\ Suspect(c)
    /\ UNCHANGED <<dbVars, argVars, storedVersion, wrote, ops, faults>>

ExecuteStoreFails(c) ==
    /\ pc[c] \in {"store", "deleteStore"}
    /\ Fault
    /\ Return(c, "storeFailed")
    /\ Suspect(c)
    /\ UNCHANGED <<dbVars, argVars, storedVersion, wrote, ops>>

\* INSERT or UPDATE of the quick table; the UPDATE names no version.
ExecuteQuick(c) ==
    /\ pc[c] = "quick"
    /\ isNewRecord(c) => quick[doc[c]] = NoRow
    /\ quick' = IF isNewRecord(c) \/ quick[doc[c]] # NoRow
                THEN [quick EXCEPT ![doc[c]] = quickRow(content[c])]
                ELSE quick
    /\ Return(c, "nil")
    /\ UNCHANGED <<store, argVars, storedVersion, wrote, ops, faults, suspect>>

\* Mutants: the error is logged only; the INSERT is not taken back.
AfterQuickErrorLogged(c) ==
    /\ Return(c, "nil")
    /\ UNCHANGED <<dbVars, argVars, storedVersion, wrote, ops, suspect>>

AfterQuickErrorKept(c) ==
    /\ Return(c, "quickFailed")
    /\ Suspect(c)
    /\ UNCHANGED <<dbVars, argVars, storedVersion, wrote, ops>>

\* After an error only the INSERT is taken back from the blob table.
AfterQuickError(c) ==
    /\ IF isNewRecord(c) THEN Continue(c, "undo") ELSE Return(c, "quickFailed")
    /\ Suspect(c)
    /\ UNCHANGED <<dbVars, argVars, storedVersion, wrote, ops>>

ExecuteQuickRefused(c) ==
    /\ pc[c] = "quick"
    /\ isNewRecord(c) /\ quick[doc[c]] # NoRow
    /\ AfterQuickError(c)
    /\ UNCHANGED faults

ExecuteQuickFails(c) ==
    /\ pc[c] = "quick"
    /\ Fault
    /\ AfterQuickError(c)

DeleteAfterQuickFail(c) ==
    /\ pc[c] = "undo"
    /\ store' = [store EXCEPT ![doc[c]] = NoRow]
    /\ Return(c, "quickFailed")
    /\ UNCHANGED <<quick, argVars, storedVersion, wrote, ops, faults, suspect>>

DeleteAfterQuickFailFails(c) ==
    /\ pc[c] = "undo"
    /\ Fault
    /\ Return(c, "quickFailed")
    /\ UNCHANGED <<dbVars, argVars, storedVersion, wrote, ops, suspect>>

-----------------------------------------------------------------------------
(* -deleteContentWithName:                                                 *)

DeleteContent(c, n) ==
    /\ pc[c] = "idle" /\ ops < MaxOps
    /\ ops' = ops + 1
    /\ Continue(c, "deleteOpen")
    /\ doc' = [doc EXCEPT ![c] = n]
    /\ wrote' = [wrote EXCEPT ![c] = FALSE]
    /\ Share(n)
    /\ UNCHANGED <<dbVars, content, baseVersion, storedVersion, faults, suspect>>

AcquireDeleteChannels(c) ==
    /\ pc[c] = "deleteOpen"
    /\ Continue(c, "deleteStore")
    /\ UNCHANGED <<dbVars, argVars, storedVersion, wrote, ops, faults, suspect>>

\* A delete that ends without an error leaves no row of the name behind.
DeleteStore(c) ==
    /\ pc[c] = "deleteStore"
    /\ store' = [store EXCEPT ![doc[c]] = NoRow]
    /\ wrote' = [wrote EXCEPT ![c] = TRUE]
    /\ IF sameTable
       THEN /\ quick' = [quick EXCEPT ![doc[c]] = NoRow]
            /\ suspect' = suspect \ {doc[c]}
            /\ Return(c, "nil")
       ELSE /\ UNCHANGED <<quick, suspect>>
            /\ Continue(c, "deleteQuick")
    /\ UNCHANGED <<argVars, storedVersion, ops, faults>>

DeleteQuick(c) ==
    /\ pc[c] = "deleteQuick"
    /\ quick' = [quick EXCEPT ![doc[c]] = NoRow]
    /\ suspect' = suspect \ {doc[c]}
    /\ Return(c, "nil")
    /\ UNCHANGED <<store, argVars, storedVersion, wrote, ops, faults>>

\* "we now have a broken record, needs to be periodically GCed by a script"
DeleteQuickFails(c) ==
    /\ pc[c] = "deleteQuick"
    /\ Fault
    /\ Return(c, "quickFailed")
    /\ Suspect(c)
    /\ UNCHANGED <<dbVars, argVars, storedVersion, wrote, ops>>

-----------------------------------------------------------------------------

\* The process dies; the statements it already ran stay committed.
Die(c) ==
    /\ pc[c] # "idle"
    /\ Fault
    /\ Return(c, "died")
    /\ Suspect(c)
    /\ UNCHANGED <<dbVars, argVars, storedVersion, wrote, ops>>

Step(c) ==
    \/ InvalidArgument(c)
    \/ \E n \in Names, ct \in Contents, b \in Bases : WriteContent(c, n, ct, b)
    \/ VersionOfContent(c) \/ VersionOfContentFails(c)
    \/ AcquireChannels(c) \/ AcquireChannelsFails(c)
    \/ ExecuteStore(c) \/ ExecuteStoreNoRow(c)
    \/ ExecuteStoreRefused(c) \/ ExecuteStoreFails(c)
    \/ ExecuteQuick(c) \/ ExecuteQuickRefused(c) \/ ExecuteQuickFails(c)
    \/ DeleteAfterQuickFail(c) \/ DeleteAfterQuickFailFails(c)
    \/ \E n \in Names : DeleteContent(c, n)
    \/ AcquireDeleteChannels(c)
    \/ DeleteStore(c) \/ DeleteQuick(c) \/ DeleteQuickFails(c)
    \/ Die(c)

\* The tables of a folder are fixed by its type.
Next == (\E c \in Clients : Step(c)) /\ UNCHANGED sameTable

Spec == Init /\ [][Next]_vars

-----------------------------------------------------------------------------
(* Properties                                                              *)

\* Every variable keeps its type, and the quick table holds no row of a
\* content the extractor refused.
TypeOK ==
    /\ store \in [Names -> Row \cup {NoRow}]
    /\ quick \in [Names -> ({quickRow(ct) : ct \in Contents} \ {NoQuickRow}) \cup {NoRow}]
    /\ pc \in [Clients -> PCs]
    /\ doc \in [Clients -> Names]
    /\ content \in [Clients -> Contents]
    /\ baseVersion \in [Clients -> Nat]
    /\ storedVersion \in [Clients -> Nat \cup {NoVersion}]
    /\ result \in [Clients -> Results]
    /\ wrote \in [Clients -> BOOLEAN]
    /\ ops \in 0..MaxOps /\ faults \in 0..MaxFaults
    /\ suspect \subseteq Names /\ shared \subseteq Names
    /\ sameTable \in BOOLEAN

\* "also ensure in the DB that the version keeps staying the same"
\* (GCSFolder.m:554): whatever clients do between another client's check and
\* its statement, a row that stays in the blob table only moves to the next
\* version, unless a caller asked to override the check with base version 0.
VersionsAdvance ==
    \A n \in Names :
        store[n] # NoRow /\ store'[n] # NoRow /\ store'[n] # store[n] =>
            \/ store'[n].version = store[n].version + 1
            \/ \E c \in Clients : /\ pc[c] = "store" /\ doc[c] = n
                                  /\ baseVersion[c] = 0

VersionsAdvanceProperty == [][VersionsAdvance]_vars

indexed(n) ==
    quick[n] = IF store[n] = NoRow THEN NoRow ELSE quickRow(store[n].content)

\* The quick table is an index of the blob table: whenever no operation is
\* at work on a document, its quick row is the one of its content, unless an
\* operation on it reported an error or died.  A delete that succeeds repairs
\* such a document, whichever of its rows was left.  With two tables it takes
\* clients that do not work on the document at the same time.
QuickIndexesStore ==
    \A n \in Names :
        ~busy(n) /\ n \notin suspect /\ (sameTable \/ n \notin shared) => indexed(n)

\* A document that could not be indexed is not created either: when a create
\* reports the failure of its quick statement, and nothing else failed and
\* nobody else worked on the document, its INSERT into the blob table has been
\* taken back (582-594).
CreateUndone ==
    \A c \in Clients :
        /\ pc[c] \in {"quick", "undo"} /\ isNewRecord(c)
        /\ pc'[c] = "idle" /\ result'[c] = "quickFailed"
        /\ faults' <= 1 /\ doc[c] \notin shared
        => store'[doc[c]] = NoRow

FailedCreateUndone == [][CreateUndone]_vars

\* What writeContent:toName:baseVersion: reports as written has been written,
\* and a delete without an error has deleted.
SuccessMeansStored ==
    \A c \in Clients : pc[c] = "idle" /\ result[c] = "nil" => wrote[c]
=============================================================================
