--------------------------- MODULE NGObjWebProofs ---------------------------
(***************************************************************************)
(* Proofs about the Apache module: the merge of its configurations, and    *)
(* what its handler keeps true for any locations, responses, descriptor    *)
(* limit and number of requests and faults, and that it comes to an end.   *)
(***************************************************************************)
EXTENDS NGObjWebHandler, TLAPS, WellFoundedInduction, SequenceTheorems, FiniteSetTheorems

-----------------------------------------------------------------------------
(* The configuration                                                       *)

\* A merge yields a configuration whose ports are addressed in their own
\* domain, whatever the domains of the merged sections say.
THEOREM MergedPortsInDomain ==
    ASSUME NEW base \in DirConfig, NEW add \in DirConfig
    PROVE  /\ merge_dir_configs(base, add) \in DirConfig
           /\ PortsInDomain(merge_dir_configs(base, add))
<1> DEFINE new == merge_dir_configs(base, add)
<1>1. new.snsPort \in Ports \cup {NULL} /\ new.appPort \in Ports \cup {NULL}
  BY DEF merge_dir_configs, inherited, DirConfig
<1>2. new.snsPortDomain \in Domains /\ new.appPortDomain \in Domains
  BY DEF merge_dir_configs, mergedDomain, domainFromPort, Domains, DirConfig
<1>3. new.appPrefix \in AppPrefixes \cup {NULL}
  BY DEF merge_dir_configs, inherited, DirConfig
<1>4. new.useHTTP \in BOOLEAN
  BY Zenon DEF merge_dir_configs, DirConfig
<1>5. new = [snsPort |-> new.snsPort, snsPortDomain |-> new.snsPortDomain,
             appPort |-> new.appPort, appPortDomain |-> new.appPortDomain,
             appPrefix |-> new.appPrefix, useHTTP |-> new.useHTTP]
  BY DEF merge_dir_configs
<1>6. new \in DirConfig
  BY <1>1, <1>2, <1>3, <1>4, <1>5, Zenon DEF DirConfig
<1>7. PortsInDomain(new)
  BY DEF PortsInDomain, merge_dir_configs, mergedDomain
<1>8. QED
  BY <1>6, <1>7

\* The sections of nested locations can be merged in any grouping: Apache
\* merges them from the outside in, and caches merged pairs.
THEOREM MergeAssociative ==
    ASSUME NEW outer \in DirConfig, NEW middle \in DirConfig, NEW inner \in DirConfig
    PROVE  merge_dir_configs(merge_dir_configs(outer, middle), inner)
             = merge_dir_configs(outer, merge_dir_configs(middle, inner))
<1> DEFINE left == merge_dir_configs(merge_dir_configs(outer, middle), inner)
           right == merge_dir_configs(outer, merge_dir_configs(middle, inner))
<1>1. left.snsPort = right.snsPort /\ left.appPort = right.appPort
  BY DEF merge_dir_configs, inherited
<1>2. left.snsPortDomain = right.snsPortDomain /\ left.appPortDomain = right.appPortDomain
  BY DEF merge_dir_configs, inherited, mergedDomain
<1>3. left.appPrefix = right.appPrefix
  BY DEF merge_dir_configs, inherited
<1>4. left.useHTTP = right.useHTTP
  BY Zenon DEF merge_dir_configs
<1>5. /\ left = [snsPort |-> left.snsPort, snsPortDomain |-> left.snsPortDomain,
                 appPort |-> left.appPort, appPortDomain |-> left.appPortDomain,
                 appPrefix |-> left.appPrefix, useHTTP |-> left.useHTTP]
      /\ right = [snsPort |-> right.snsPort, snsPortDomain |-> right.snsPortDomain,
                  appPort |-> right.appPort, appPortDomain |-> right.appPortDomain,
                  appPrefix |-> right.appPrefix, useHTTP |-> right.useHTTP]
  BY Zenon DEF merge_dir_configs
<1>6. QED
  BY <1>1, <1>2, <1>3, <1>4, <1>5, Zenon

-----------------------------------------------------------------------------
(* The handler                                                             *)

\* Where the handler has read the body, and where it has not written yet.
Progress ==
    /\ ~clientError => toBeRead <= MaxBody
    /\ pc \notin {"idle", "readBody"} => toBeRead = 0
    /\ pc \in {"readBody", "address", "sns", "snsQuery", "socket", "connect", "wrap",
               "writeHead"} => got = "nothing"

IInv == TypeOK /\ Progress /\ InstanceSeesAcceptedOnly

LEMMA RequestLength == \A r \in Requests : r.length \in 0..MaxBody
<1> SUFFICES ASSUME NEW r \in Requests PROVE r.length \in 0..MaxBody
  OBVIOUS
<1>1. CASE r \in [ours : {TRUE}, head : {FALSE}, length : 0..MaxBody]
  BY <1>1
<1>2. CASE r = NoRequest
  BY <1>2, HandlerBounds DEF NoRequest
<1>3. CASE r = [ours |-> TRUE, head |-> TRUE, length |-> 0]
  BY <1>3, HandlerBounds
<1>4. QED
  BY <1>1, <1>2, <1>3, Zenon DEF Requests

LEMMA InitHolds == Init => IInv
<1> SUFFICES ASSUME Init PROVE IInv
  OBVIOUS
<1>1. req \in Requests
  BY Zenon DEF Init, Requests
<1>2. up \in BOOLEAN /\ clientError \in BOOLEAN /\ whole \in BOOLEAN /\ reset \in BOOLEAN
  BY Zenon DEF Init
<1>3. TypeOK
  BY <1>1, <1>2, HandlerBounds DEF Init, TypeOK, PCs
<1>4. Progress /\ InstanceSeesAcceptedOnly
  BY HandlerBounds DEF Init, Progress, InstanceSeesAcceptedOnly
<1>5. QED
  BY <1>3, <1>4 DEF IInv

\* A new request starts with nothing sent to an instance.
LEMMA BeginKeeps ==
    ASSUME IInv, NEW r \in Requests, NEW c \in Locations, Begin(r, c)
    PROVE  IInv'
<1>1. r.length \in 0..MaxBody
  BY RequestLength
<1>2. requests' \in 0..MaxRequests
  BY HandlerBounds DEF Begin, IInv, TypeOK
<1>3. own = 0 /\ own' = 0 /\ leaked' = leaked
  BY HandlerBounds DEF Begin, IInv, TypeOK, Return
<1>4. /\ req' \in Requests /\ cfg' \in Locations \cup {create_dir_config}
      /\ up' \in BOOLEAN /\ clientError' \in BOOLEAN
      /\ whole' \in BOOLEAN /\ reset' \in BOOLEAN
  BY Zenon DEF Begin, IInv, TypeOK
<1>5. /\ \/ pc' = "readBody" /\ result' = result
         \/ pc' = "idle" /\ result' = "DECLINED"
      /\ toBeRead' = r.length /\ tryCount' = 0 /\ got' = "nothing" /\ conn' = "none"
      /\ answer' = NoAnswer /\ faults' = faults
  <2>1. CASE r.ours
    BY <2>1, Zenon DEF Begin, Goto
  <2>2. CASE ~r.ours
    BY <2>2, Zenon DEF Begin, Return
  <2>3. QED
    BY <2>1, <2>2
<1>6. TypeOK'
  BY <1>1, <1>2, <1>3, <1>4, <1>5, HandlerBounds DEF IInv, TypeOK, PCs
<1>7. (Progress /\ InstanceSeesAcceptedOnly)'
  BY <1>1, <1>5, HandlerBounds DEF Progress, InstanceSeesAcceptedOnly
<1>8. QED
  BY <1>6, <1>7 DEF IInv

LEMMA FaultCounts == ASSUME faults \in 0..MaxFaults, Fault PROVE faults' \in 0..MaxFaults
  BY HandlerBounds DEF Fault

\* Reading the body: nothing has been opened, nothing is sent.
LEMMA BodyKeeps ==
    ASSUME IInv,
           (\E n \in 1..MaxBody : ReadBody(n)) \/ ReadBodyEnd \/ ReadBodyError \/ ReadBodyDone
    PROVE  IInv'
<1> USE DEF IInv, TypeOK, Progress, InstanceSeesAcceptedOnly, PCs, instanceVars, outVars
<1>1. ASSUME NEW n \in 1..MaxBody, ReadBody(n) PROVE IInv'
  BY <1>1, HandlerBounds DEF ReadBody
<1>2. CASE ReadBodyEnd
  BY <1>2, HandlerBounds DEF ReadBodyEnd, Return
<1>3. CASE ReadBodyError
  BY <1>3, HandlerBounds DEF ReadBodyError
<1>4. CASE ReadBodyDone
  BY <1>4, HandlerBounds DEF ReadBodyDone, Goto
<1>5. QED
  BY <1>1, <1>2, <1>3, <1>4

\* Finding and connecting an instance: nothing is sent to it, and one
\* descriptor at most is open.
LEMMA FindKeeps ==
    ASSUME IInv,
           \/ Address \/ SNSConnect \/ SNSConnectFails \/ SNSReply \/ SNSQueryFails
           \/ SNSReadError \/ SNSReplySuspect \/ Socket \/ SocketFails \/ Connect
           \/ ConnectFails
    PROVE  IInv'
<1> USE HandlerBounds, FaultCounts
        DEF IInv, TypeOK, Progress, InstanceSeesAcceptedOnly, PCs, instanceVars, outVars,
            unchangedButPc, Goto, Return, FreeAndReturn, canOpen
<1>1. CASE Address
  BY <1>1 DEF Address
<1>2. CASE SNSConnect
  BY <1>2 DEF SNSConnect
<1>3. CASE SNSConnectFails
  BY <1>3 DEF SNSConnectFails
<1>4. CASE SNSReply
  BY <1>4 DEF SNSReply
<1>5. CASE SNSQueryFails
  BY <1>5 DEF SNSQueryFails
<1>6. CASE SNSReplySuspect
  BY <1>6 DEF SNSReplySuspect
<1>7. CASE Socket
  BY <1>7 DEF Socket
<1>8. CASE SocketFails
  BY <1>8 DEF SocketFails
<1>9. CASE Connect
  BY <1>9 DEF Connect
<1>10. CASE ConnectFails
  BY <1>10 DEF ConnectFails
<1>11. CASE SNSReadError
  BY <1>11 DEF SNSReadError, Crash
<1>12. QED
  BY <1>1, <1>2, <1>3, <1>4, <1>5, <1>6, <1>7, <1>8, <1>9, <1>10, <1>11

\* Writing the request: its body has been read completely.
LEMMA WriteKeeps ==
    ASSUME IInv,
           NewDescriptor \/ NewDescriptorFails \/ WriteHead \/ WriteBody \/ WriteFails
    PROVE  IInv'
<1> USE HandlerBounds, FaultCounts
        DEF IInv, TypeOK, Progress, InstanceSeesAcceptedOnly, PCs, instanceVars, outVars,
            unchangedButPc, Goto, FreeAndReturn, Receive
<1>1. CASE NewDescriptor
  BY <1>1 DEF NewDescriptor
<1>2. CASE NewDescriptorFails
  BY <1>2 DEF NewDescriptorFails
<1>3. CASE WriteHead
  BY <1>3 DEF WriteHead
<1>4. CASE WriteBody
  BY <1>4 DEF WriteBody
<1>5. CASE WriteFails
  BY <1>5 DEF WriteFails
<1>6. QED
  BY <1>1, <1>2, <1>3, <1>4, <1>5

\* Relaying the response: the handler only returns OK, fails or dies.
LEMMA RelayKeeps ==
    ASSUME IInv,
           \/ ScanStatus \/ ScanHeaders \/ SendHeaderOnly \/ SendContent
           \/ SendContentShort \/ SendUntilEOF
    PROVE  IInv'
<1> USE HandlerBounds
        DEF IInv, TypeOK, Progress, InstanceSeesAcceptedOnly, PCs, instanceVars,
            unchangedButOut, Goto, Return, FreeAndReturn, Crash
<1>1. CASE ScanStatus
  BY <1>1 DEF ScanStatus
<1>2. CASE ScanHeaders
  BY <1>2 DEF ScanHeaders
<1>3. CASE SendHeaderOnly
  BY <1>3 DEF SendHeaderOnly
<1>4. CASE SendContent
  BY <1>4 DEF SendContent
<1>5. CASE SendContentShort
  BY <1>5 DEF SendContentShort
<1>6. CASE SendUntilEOF
  BY <1>6 DEF SendUntilEOF
<1>7. QED
  BY <1>1, <1>2, <1>3, <1>4, <1>5, <1>6

\* The instance only changes its own end of the connection.
LEMMA InstanceKeeps ==
    ASSUME IInv, Instance \/ InstanceStops \/ InstanceStarts
    PROVE  IInv'
<1> USE FaultCounts
        DEF IInv, TypeOK, Progress, InstanceSeesAcceptedOnly, PCs, handlerVars, outVars
<1>1. ASSUME NEW resp \in Responses, SendResponse(resp) PROVE IInv'
  BY <1>1 DEF SendResponse
<1>2. ASSUME NEW resp \in Responses, NEW n, NEW error \in BOOLEAN, InstanceDies(resp, n, error)
      PROVE  IInv'
  <2>1. UNCHANGED <<got, handlerVars, requests>> /\ Fault
    BY <1>2, Zenon DEF InstanceDies
  <2>2. /\ conn = "open" /\ answer' = resp /\ whole' = FALSE /\ reset' = error
        /\ conn' = "closed" /\ up' = FALSE
    BY <1>2, Zenon DEF InstanceDies
  <2>3. faults' \in 0..MaxFaults
    BY <2>1
  <2>4. /\ up' \in BOOLEAN /\ whole' \in BOOLEAN /\ reset' \in BOOLEAN
        /\ conn' \in {"none", "open", "closed"} /\ answer' \in Responses \cup {NoAnswer}
    BY <2>2, Zenon
  <2>5. TypeOK'
    BY <2>1, <2>3, <2>4
  <2>6. Progress' /\ InstanceSeesAcceptedOnly'
    BY <2>1
  <2>7. QED
    BY <2>5, <2>6
<1>3. CASE InstanceStops
  <2>1. UNCHANGED <<conn, got, answer, whole, reset, handlerVars, requests>> /\ Fault
        /\ up' \in BOOLEAN
    BY <1>3, Zenon DEF InstanceStops
  <2>2. faults' \in 0..MaxFaults
    BY <2>1
  <2>3. QED
    BY <2>1, <2>2
<1>4. CASE InstanceStarts
  BY <1>4 DEF InstanceStarts
<1>5. QED
  BY <1>1, <1>2, <1>3, <1>4 DEF Instance

LEMMA HandlerInductive == Spec => []IInv
<1>1. IInv /\ [Next]_vars => IInv'
  <2>1. CASE UNCHANGED vars
    BY <2>1 DEF vars, handlerVars, instanceVars, outVars, IInv, TypeOK, Progress,
                InstanceSeesAcceptedOnly
  <2>2. CASE Next
    BY <2>2, BeginKeeps, BodyKeeps, FindKeeps, WriteKeeps, RelayKeeps, InstanceKeeps
    DEF Next, Handler
  <2>3. QED
    BY <2>1, <2>2
<1>2. QED
  BY InitHolds, <1>1, PTL DEF Spec

\* The handler's state keeps its types; it holds one descriptor while it talks
\* to the name server or the instance, and none between two requests.
THEOREM HandlerTypeCorrect == Spec => []TypeOK
<1>1. IInv => TypeOK
  BY DEF IInv
<1>2. QED
  BY <1>1, HandlerInductive, PTL

\* No instance sees a request that is declined, or one whose body the client
\* has not sent completely.
THEOREM AcceptedOnlyCorrect == Spec => []InstanceSeesAcceptedOnly
<1>1. IInv => InstanceSeesAcceptedOnly
  BY DEF IInv
<1>2. QED
  BY <1>1, HandlerInductive, PTL

\* A request that fails or is declined leaves no descriptor open.
THEOREM ErrorsCloseCorrect == Spec => ErrorsCloseAll
<1> DEFINE closes == pc # "idle" /\ pc' = "idle" /\ result' \in {"DECLINED", "500"}
                        => leaked' = leaked
<1>1. IInv /\ [Next]_vars => [closes]_vars
  <2> SUFFICES ASSUME IInv, Next, pc # "idle", pc' = "idle",
                      result' \in {"DECLINED", "500"}
               PROVE  leaked' = leaked
    BY DEF vars
  <2> USE DEF IInv, TypeOK, Goto, Return, FreeAndReturn, Crash, handlerVars
  <2>1. ASSUME NEW r, NEW c, Begin(r, c) PROVE FALSE
    BY <2>1 DEF Begin
  <2>2. CASE Instance \/ InstanceStops \/ InstanceStarts
    BY <2>2 DEF Instance, InstanceStops, InstanceStarts, SendResponse, InstanceDies
  <2>3. CASE (\E n \in 1..MaxBody : ReadBody(n)) \/ ReadBodyEnd \/ ReadBodyError
               \/ ReadBodyDone
    BY <2>3 DEF ReadBody, ReadBodyEnd, ReadBodyError, ReadBodyDone
  <2>4. CASE Address \/ SNSConnect \/ SNSConnectFails \/ SNSReply \/ SNSQueryFails
               \/ SNSReadError \/ SNSReplySuspect \/ Socket \/ SocketFails \/ Connect
               \/ ConnectFails
    BY <2>4 DEF Address, SNSConnect, SNSConnectFails, SNSReply, SNSQueryFails,
                SNSReadError, SNSReplySuspect, Socket, SocketFails, Connect,
                ConnectFails
  <2>5. CASE NewDescriptor \/ NewDescriptorFails \/ WriteHead \/ WriteBody \/ WriteFails
    BY <2>5 DEF NewDescriptor, NewDescriptorFails, WriteHead, WriteBody, WriteFails
  <2>6. CASE ScanStatus
    BY <2>6 DEF ScanStatus
  <2>7. CASE ScanHeaders
    BY <2>7 DEF ScanHeaders
  <2>8. CASE SendHeaderOnly \/ SendContent \/ SendContentShort \/ SendUntilEOF
    BY <2>8 DEF SendHeaderOnly, SendContent, SendContentShort, SendUntilEOF
  <2>9. QED
    BY <2>1, <2>2, <2>3, <2>4, <2>5, <2>6, <2>7, <2>8 DEF Next, Handler
<1>2. QED
  BY <1>1, HandlerInductive, PTL DEF Spec, ErrorsCloseAll

-----------------------------------------------------------------------------
(* Induction over the natural numbers, for sets                            *)

\* A set of natural numbers has a least element ...
LEMMA NatLeast ==
    ASSUME NEW T \in SUBSET Nat, T # {}
    PROVE  \E x \in T : \A y \in T : x <= y
<1> DEFINE R == {ss \in Nat \X Nat : ss[1] < ss[2]}
<1>1. IsWellFoundedOn(R, Nat)
  BY NatLessThanWellFounded, Zenon DEF OpToRel
<1>2. PICK x \in T : \A y \in T : <<y, x>> \notin R
  <2> HIDE DEF R
  <2>1. QED
    BY <1>1, WFMin, Zenon
<1>3. \A y \in T : ~(y < x)
  BY <1>2
<1>4. QED
  BY <1>3

\* ... so what holds of 0, and of n + 1 when it holds of n, holds of all of them.
LEMMA SetInduction ==
    ASSUME NEW S, 0 \in S, \A n \in Nat : n \in S => n + 1 \in S
    PROVE  Nat \subseteq S
<1> SUFFICES ASSUME Nat \ S # {} PROVE FALSE
  OBVIOUS
<1>1. PICK x \in Nat \ S : \A y \in Nat \ S : x <= y
  BY NatLeast
<1>2. x # 0 /\ x - 1 \in Nat /\ x - 1 \in S
  BY <1>1
<1>3. (x - 1) + 1 \in S
  BY <1>2
<1>4. QED
  BY <1>1, <1>2, <1>3

-----------------------------------------------------------------------------
(* Runs of characters                                                      *)

\* Only one offset ends a run of at most max elements that begins at from: the
\* CHOOSE of spanEnd and spanUntil has no choice.
LEMMA RunUnique ==
    ASSUME NEW n \in Nat, NEW run, NEW max \in Nat, NEW from \in 0..n,
           NEW e \in from..n, NEW x \in from..n,
           e - from <= max, \A k \in (from + 1)..e : k \in run,
           e - from = max \/ e = n \/ e + 1 \notin run,
           x - from <= max, \A k \in (from + 1)..x : k \in run,
           x - from = max \/ x = n \/ x + 1 \notin run
    PROVE  x = e
<1>1. CASE x < e
  <2>1. x + 1 \in (from + 1)..e
    BY <1>1
  <2>2. x - from # max /\ x # n
    BY <1>1
  <2>3. QED
    BY <2>1, <2>2
<1>2. CASE x > e
  <2>1. e + 1 \in (from + 1)..x
    BY <1>2
  <2>2. e - from # max /\ e # n
    BY <1>2
  <2>3. QED
    BY <2>1, <2>2
<1>3. QED
  BY <1>1, <1>2

\* So the loops of the scanner end where their run does.
LEMMA SpanEnds ==
    ASSUME NEW s \in Seq(Char), NEW C, NEW max \in Nat, NEW from \in 0..Len(s),
           NEW e \in from..Len(s), e - from <= max,
           \A k \in (from + 1)..e : s[k] \in C,
           e - from = max \/ e = Len(s) \/ s[e + 1] \notin C
    PROVE  spanEnd(s, C, max)[from] = e
<1> DEFINE P(end) ==
      /\ end - from <= max /\ \A k \in (from + 1)..end : s[k] \in C
      /\ end - from = max \/ end = Len(s) \/ s[end + 1] \notin C
<1>1. P(e)
  OBVIOUS
<1>2. ASSUME NEW x \in from..Len(s), P(x) PROVE x = e
  <2> DEFINE run == {k \in 1..Len(s) : s[k] \in C}
  <2>1. \A y \in from..Len(s) : P(y) =>
          /\ \A k \in (from + 1)..y : k \in run
          /\ y - from = max \/ y = Len(s) \/ y + 1 \notin run
    OBVIOUS
  <2>2. QED
    <3> HIDE DEF run
    <3>1. QED
      BY <1>1, <1>2, <2>1, RunUnique
<1>3. spanEnd(s, C, max)[from] = CHOOSE end \in from..Len(s) : P(end)
  BY Zenon DEF spanEnd
<1> HIDE DEF P
<1>4. QED
  BY <1>1, <1>2, <1>3

\* The same for the loops that look for a character of C.
LEMMA SpanUntilEnds ==
    ASSUME NEW s \in Seq(Char), NEW C, NEW max \in Nat, NEW from \in 0..Len(s),
           NEW e \in from..Len(s), e - from <= max,
           \A k \in (from + 1)..e : s[k] \notin C,
           e - from = max \/ e = Len(s) \/ s[e + 1] \in C
    PROVE  spanUntil(s, C, max)[from] = e
<1> DEFINE P(end) ==
      /\ end - from <= max /\ \A k \in (from + 1)..end : s[k] \notin C
      /\ end - from = max \/ end = Len(s) \/ s[end + 1] \in C
<1>1. P(e)
  OBVIOUS
<1>2. ASSUME NEW x \in from..Len(s), P(x) PROVE x = e
  <2> DEFINE run == {k \in 1..Len(s) : s[k] \notin C}
  <2>1. \A y \in from..Len(s) : P(y) =>
          /\ \A k \in (from + 1)..y : k \in run
          /\ y - from = max \/ y = Len(s) \/ y + 1 \notin run
    OBVIOUS
  <2>2. QED
    <3> HIDE DEF run
    <3>1. QED
      BY <1>1, <1>2, <2>1, RunUnique
<1>3. spanUntil(s, C, max)[from] = CHOOSE end \in from..Len(s) : P(end)
  BY Zenon DEF spanUntil
<1> HIDE DEF P
<1>4. QED
  BY <1>1, <1>2, <1>3

-----------------------------------------------------------------------------
(* Concatenating sequences                                                 *)

\* What the recursive function inside FlattenSeq computes.
Flattens(f, seqs) ==
    f = [i \in 1..Len(seqs) |-> IF i = 1 THEN seqs[i] ELSE f[i - 1] \o seqs[i]]

\* The function exists ...
LEMMA FlattensExists ==
    ASSUME NEW seqs \in Seq(Seq(Char))
    PROVE  \E f : Flattens(f, seqs)
<1> DEFINE n == Len(seqs)
           good(f, m) == \A i \in 1..m : f[i] = IF i = 1 THEN seqs[i] ELSE f[i - 1] \o seqs[i]
           S == {m \in Nat : m <= n => \E f : good(f, m)}
<1>1. n \in Nat
  OBVIOUS
<1>2. 0 \in S
  OBVIOUS
<1>3. ASSUME NEW m \in Nat, m \in S PROVE m + 1 \in S
  <2> SUFFICES ASSUME m + 1 <= n PROVE \E f : good(f, m + 1)
    OBVIOUS
  <2>1. PICK f : good(f, m)
    BY <1>1, <1>3
  <2> DEFINE g == [i \in 1..(m + 1) |->
                     IF i = m + 1 THEN IF i = 1 THEN seqs[i] ELSE f[i - 1] \o seqs[i]
                     ELSE f[i]]
  <2>2. good(g, m + 1)
    <3> SUFFICES ASSUME NEW i \in 1..(m + 1)
                 PROVE  g[i] = IF i = 1 THEN seqs[i] ELSE g[i - 1] \o seqs[i]
      OBVIOUS
    <3>1. i # 1 => i - 1 \in 1..(m + 1) /\ i - 1 # m + 1 /\ g[i - 1] = f[i - 1]
      OBVIOUS
    <3>2. CASE i = m + 1
      BY <3>1, <3>2
    <3>3. CASE i # m + 1
      <4>1. i \in 1..m /\ g[i] = f[i]
        BY <3>3
      <4>2. QED
        BY <2>1, <3>1, <4>1
    <3>4. QED
      BY <3>2, <3>3
  <2>3. QED
    BY <2>2
<1>4. n \in S
  <2> HIDE DEF S
  <2>1. QED
    BY <1>1, <1>2, <1>3, SetInduction
<1>5. PICK f : good(f, n)
  <2> HIDE DEF good
  <2>1. QED
    BY <1>1, <1>4
<1> DEFINE g == [i \in 1..n |-> f[i]]
<1>6. \A i \in 1..n : g[i] = IF i = 1 THEN seqs[i] ELSE g[i - 1] \o seqs[i]
  <2> SUFFICES ASSUME NEW i \in 1..n
               PROVE  g[i] = IF i = 1 THEN seqs[i] ELSE g[i - 1] \o seqs[i]
    OBVIOUS
  <2>1. i # 1 => i - 1 \in 1..n
    OBVIOUS
  <2>2. QED
    BY <1>5, <2>1
<1>7. Flattens(g, seqs)
  <2> HIDE DEF good
  <2>1. QED
    BY <1>6 DEF Flattens
<1>8. QED
  BY <1>7

\* ... and FlattenSeq is its last value.
LEMMA FlattenSeqIs ==
    ASSUME NEW seqs \in Seq(Seq(Char)), seqs # << >>
    PROVE  \E f : Flattens(f, seqs) /\ FlattenSeq(seqs) = f[Len(seqs)]
<1> DEFINE f == CHOOSE g : Flattens(g, seqs)
<1>1. Flattens(f, seqs)
  BY FlattensExists, Zenon
<1>2. FlattenSeq(seqs) = f[Len(seqs)]
  <2>1. Len(seqs) # 0
    OBVIOUS
  <2>2. QED
    BY <2>1, Zenon DEF FlattenSeq, Flattens
<1>3. QED
  BY <1>1, <1>2

\* What a concatenation has at its positions.
LEMMA ConcatAt ==
    ASSUME NEW s \in Seq(Char), NEW t \in Seq(Char)
    PROVE  /\ s \o t \in Seq(Char)
           /\ Len(s \o t) = Len(s) + Len(t)
           /\ \A i \in 1..Len(s) : (s \o t)[i] = s[i]
           /\ \A i \in 1..Len(t) : (s \o t)[Len(s) + i] = t[i]
  OBVIOUS

\* Offsets inside a part that ends before r.
LEMMA Inside ==
    ASSUME NEW p \in Nat, NEW q \in Nat, NEW r \in Nat, p + q <= r, NEW i \in 1..q
    PROVE  p + i \in 1..r
  OBVIOUS

\* Where each sequence ends in the concatenation: b gives the offsets.
LEMMA FlattenLayout ==
    ASSUME NEW seqs \in Seq(Seq(Char)), seqs # << >>
    PROVE  /\ FlattenSeq(seqs) \in Seq(Char)
           /\ \E b \in [0..Len(seqs) -> Nat] :
                /\ b[0] = 0 /\ b[Len(seqs)] = Len(FlattenSeq(seqs))
                /\ \A k \in 1..Len(seqs) :
                     /\ b[k] = b[k - 1] + Len(seqs[k]) /\ b[k] <= b[Len(seqs)]
                     /\ \A i \in 1..Len(seqs[k]) : FlattenSeq(seqs)[b[k - 1] + i] = seqs[k][i]
<1> DEFINE n == Len(seqs)
<1>1. n \in Nat /\ n # 0 /\ 1 \in 1..n /\ n \in 1..n /\ \A k \in 1..n : seqs[k] \in Seq(Char)
  BY EmptySeq
<1>2. PICK f : Flattens(f, seqs) /\ FlattenSeq(seqs) = f[n]
  BY FlattenSeqIs
<1>3. \A k \in 1..n : f[k] = IF k = 1 THEN seqs[k] ELSE f[k - 1] \o seqs[k]
  BY <1>2, Zenon DEF Flattens
<1> HIDE DEF n
<1>4. \A k \in 1..n : k + 1 <= n =>
        k + 1 \in 1..n /\ f[k + 1] = f[k] \o seqs[k + 1]
  <2> SUFFICES ASSUME NEW k \in 1..n, k + 1 <= n
               PROVE  k + 1 \in 1..n /\ f[k + 1] = f[k] \o seqs[k + 1]
    OBVIOUS
  <2>1. k + 1 \in 1..n /\ k + 1 # 1 /\ (k + 1) - 1 = k
    BY <1>1
  <2>2. QED
    BY <1>3, <2>1
<1>5. ASSUME NEW k \in 1..n PROVE f[k] \in Seq(Char)
  <2> DEFINE S == {m \in Nat : m + 1 <= n => f[m + 1] \in Seq(Char)}
  <2>1. 0 \in S
    BY <1>1, <1>3
  <2>2. ASSUME NEW m \in Nat, m \in S PROVE m + 1 \in S
    <3> SUFFICES ASSUME (m + 1) + 1 <= n PROVE f[(m + 1) + 1] \in Seq(Char)
      OBVIOUS
    <3>1. m + 1 \in 1..n /\ f[m + 1] \in Seq(Char)
      BY <1>1, <2>2
    <3>2. f[(m + 1) + 1] = f[m + 1] \o seqs[(m + 1) + 1] /\ (m + 1) + 1 \in 1..n
      BY <1>4, <3>1
    <3>3. seqs[(m + 1) + 1] \in Seq(Char)
      BY <1>1, <3>2
    <3>4. QED
      BY <3>1, <3>2, <3>3, ConcatAt
  <2>3. Nat \subseteq S
    <3> HIDE DEF S
    <3>1. QED
      BY <2>1, <2>2, SetInduction
  <2>4. k - 1 \in Nat /\ (k - 1) + 1 = k /\ (k - 1) + 1 <= n
    BY <1>1
  <2>5. k - 1 \in S
    BY <2>3, <2>4
  <2>6. QED
    BY <2>4, <2>5
<1>6. PICK b \in [0..n -> Nat] : b[0] = 0 /\ \A k \in 1..n : b[k] = Len(f[k])
  <2> DEFINE b == [k \in 0..n |-> IF k = 0 THEN 0 ELSE Len(f[k])]
  <2>1. b \in [0..n -> Nat] /\ b[0] = 0 /\ \A k \in 1..n : b[k] = Len(f[k])
    BY <1>1, <1>5
  <2> HIDE DEF b
  <2>2. QED
    BY <2>1
<1>7. ASSUME NEW k \in 1..n PROVE b[k] = b[k - 1] + Len(seqs[k])
  <2>1. CASE k = 1
    <3>1. f[1] = seqs[1]
      BY <1>1, <1>3
    <3>2. b[1] = Len(seqs[1]) /\ 1 - 1 = 0 /\ Len(seqs[1]) \in Nat
      BY <1>1, <1>6, <3>1
    <3>3. QED
      BY <1>6, <2>1, <3>2
  <2>2. CASE k # 1
    <3>1. k - 1 \in 1..n
      BY <1>1, <2>2
    <3>2. f[k] = f[k - 1] \o seqs[k]
      BY <1>3, <2>2
    <3>3. Len(f[k]) = Len(f[k - 1]) + Len(seqs[k])
      BY <1>1, <1>5, <3>1, <3>2, ConcatAt
    <3>4. QED
      BY <1>6, <3>1, <3>3
  <2>3. QED
    BY <2>1, <2>2
<1> DEFINE Laid(m) == \A k \in 1..m :
             b[k] <= b[m] /\ \A i \in 1..Len(seqs[k]) : f[m][b[k - 1] + i] = seqs[k][i]
           S == {m \in Nat : m + 1 <= n => Laid(m + 1)}
<1>8. 0 \in S
  <2>1. f[1] = seqs[1] /\ 1 - 1 = 0 /\ b[1] \in Nat /\ b[0] = 0
    BY <1>1, <1>3, <1>6
  <2>2. Laid(1)
    BY <1>1, <2>1
  <2> HIDE DEF Laid
  <2>3. QED
    BY <2>2
<1>9. ASSUME NEW m \in Nat, m \in S PROVE m + 1 \in S
  <2> SUFFICES ASSUME (m + 1) + 1 <= n PROVE Laid((m + 1) + 1)
    OBVIOUS
  <2>1. PICK j \in 1..n : j = m + 1 /\ Laid(j) /\ j + 1 <= n
    BY <1>1, <1>9
  <2>2. PICK l \in 1..n : l = j + 1
    BY <1>4, <2>1
  <2>3. l - 1 = j /\ f[l] = f[j] \o seqs[l]
    <3>1. l - 1 = j
      BY <2>2
    <3>2. f[j + 1] = f[j] \o seqs[j + 1]
      BY <1>4, <2>1
    <3>3. QED
      BY <2>2, <3>1, <3>2
  <2>4. PICK s \in Seq(Char), t \in Seq(Char) : s = f[j] /\ t = seqs[l] /\ Len(s) = b[j]
    BY <1>1, <1>5, <1>6
  <2>5. /\ b[l] = Len(s) + Len(t)
        /\ \A i \in 1..Len(s) : f[l][i] = s[i]
        /\ \A i \in 1..Len(t) : f[l][b[j] + i] = t[i]
    <3>1. b[l] = b[l - 1] + Len(seqs[l])
      BY <1>7
    <3>2. f[l] = s \o t
      BY <2>3, <2>4
    <3>3. /\ \A i \in 1..Len(s) : (s \o t)[i] = s[i]
          /\ \A i \in 1..Len(t) : (s \o t)[Len(s) + i] = t[i]
      BY ConcatAt
    <3>4. QED
      BY <2>3, <2>4, <3>1, <3>2, <3>3
  <2>6. ASSUME NEW k \in 1..l
        PROVE  b[k] <= b[l] /\ \A i \in 1..Len(seqs[k]) : f[l][b[k - 1] + i] = seqs[k][i]
    <3>1. CASE k = l
      <4>1. l \in 0..n
        OBVIOUS
      <4>2. PICK x \in Nat : x = b[l]
        BY <4>1, Zenon
      <4>3. b[k] <= b[l]
        BY <3>1, <4>2
      <4>4. QED
        BY <2>3, <2>4, <2>5, <3>1, <4>3, Zenon
    <3>2. CASE k # l
      <4>1. k \in 1..j /\ k \in 1..n /\ k - 1 \in 0..n
        BY <1>1, <2>2, <3>2
      <4>2. PICK p \in Nat : p = b[k - 1]
        BY <1>6, <4>1
      <4>3. PICK q \in Nat : q = Len(seqs[k])
        <5>1. seqs[k] \in Seq(Char)
          BY <1>1, <4>1
        <5>2. QED
          BY <5>1, LenProperties
      <4>4. p + q <= Len(s) /\ b[k] <= b[l]
        <5>1. b[k] = p + q /\ b[k] <= b[j]
          BY <1>7, <2>1, <4>1, <4>2, <4>3
        <5>2. QED
          BY <2>4, <2>5, <5>1
      <4>5. ASSUME NEW i \in 1..q PROVE f[l][p + i] = seqs[k][i]
        <5>1. p + i \in 1..Len(s)
          BY <4>4, Inside
        <5>2. f[l][p + i] = s[p + i]
          BY <2>5, <5>1
        <5>3. QED
          BY <2>1, <2>4, <4>1, <4>2, <4>3, <5>2
      <4>6. QED
        BY <4>2, <4>3, <4>4, <4>5
    <3>3. QED
      BY <3>1, <3>2
  <2>7. Laid(l)
    BY <2>6
  <2> HIDE DEF Laid
  <2>8. QED
    BY <2>1, <2>2, <2>7
<1>10. Laid(n)
  <2>1. Nat \subseteq S
    <3> HIDE DEF S
    <3>1. QED
      BY <1>8, <1>9, SetInduction
  <2>2. n - 1 \in Nat /\ (n - 1) + 1 = n /\ (n - 1) + 1 <= n
    BY <1>1
  <2>3. n - 1 \in S
    BY <2>1, <2>2
  <2> HIDE DEF Laid
  <2>4. QED
    BY <2>2, <2>3
<1>11. FlattenSeq(seqs) = f[n] /\ f[n] \in Seq(Char) /\ b[n] = Len(f[n])
  BY <1>1, <1>2, <1>5, <1>6
<1>12. \A k \in 1..n :
         /\ b[k] = b[k - 1] + Len(seqs[k]) /\ b[k] <= b[n]
         /\ \A i \in 1..Len(seqs[k]) : f[n][b[k - 1] + i] = seqs[k][i]
  BY <1>7, <1>10
<1>13. QED
  BY <1>6, <1>11, <1>12, Zenon DEF n

-----------------------------------------------------------------------------
(* The bytes of a response                                                 *)

\* A tuple of two characters is a text.
LEMMA TwoChars ==
    ASSUME NEW c \in Char, NEW d \in Char
    PROVE  /\ <<c, d>> \in Seq(Char) /\ Len(<<c, d>>) = 2
           /\ <<c, d>>[1] = c /\ <<c, d>>[2] = d
  OBVIOUS

\* What the scanner looks for are characters ...
LEMMA Delimiters == COLON \in Char /\ SPACE \in Char /\ CR \in Char /\ LF \in Char
  BY CharAssumption, Zenon

\* ... and CR LF is a sequence of two of them.
LEMMA EndOfLine == /\ <<CR, LF>> \in Seq(Char) /\ Len(<<CR, LF>>) = 2
                   /\ <<CR, LF>>[1] = CR /\ <<CR, LF>>[2] = LF
  BY Delimiters, TwoChars

\* A name for a concatenation, with what it has at its positions.
LEMMA Join ==
    ASSUME NEW s \in Seq(Char), NEW t \in Seq(Char)
    PROVE  \E c \in Seq(Char) :
             /\ c = s \o t /\ Len(c) = Len(s) + Len(t)
             /\ \A i \in 1..Len(s) : c[i] = s[i]
             /\ \A i \in 1..Len(t) : c[Len(s) + i] = t[i]
  BY ConcatAt

\* The line of a header: name, colon, space, value, CR, LF.
LEMMA HeaderLineAt ==
    ASSUME NEW h \in Header
    PROVE  \E line \in Seq(Char), n \in Nat, v \in Nat :
             /\ line = headerLine(h) /\ n = Len(h.name) /\ v = Len(h.value)
             /\ Len(line) = n + v + 4
             /\ \A i \in 1..n : line[i] = h.name[i]
             /\ line[n + 1] = COLON /\ line[n + 2] = SPACE
             /\ \A i \in 1..v : line[n + 2 + i] = h.value[i]
             /\ line[n + v + 3] = CR /\ line[n + v + 4] = LF
<1>1. PICK s1 \in Seq(Char), s3 \in Seq(Char) : s1 = h.name /\ s3 = h.value
  BY DEF Header
<1>2. PICK s2 \in Seq(Char) :
        s2 = <<COLON, SPACE>> /\ Len(s2) = 2 /\ s2[1] = COLON /\ s2[2] = SPACE
  <2>1. /\ <<COLON, SPACE>> \in Seq(Char) /\ Len(<<COLON, SPACE>>) = 2
        /\ <<COLON, SPACE>>[1] = COLON /\ <<COLON, SPACE>>[2] = SPACE
    BY Delimiters, TwoChars
  <2>2. QED
    BY <2>1, Zenon
<1>3. PICK s4 \in Seq(Char) : s4 = <<CR, LF>> /\ Len(s4) = 2 /\ s4[1] = CR /\ s4[2] = LF
  BY EndOfLine, Zenon
<1>4. headerLine(h) = ((s1 \o s2) \o s3) \o s4
  BY <1>1, <1>2, <1>3, Zenon DEF headerLine
<1>5. PICK n \in Nat, v \in Nat : Len(s1) = n /\ Len(s3) = v
  BY LenProperties
<1>6. PICK a \in Seq(Char) :
        /\ a = s1 \o s2 /\ Len(a) = Len(s1) + Len(s2)
        /\ \A i \in 1..Len(s1) : a[i] = s1[i]
        /\ \A i \in 1..Len(s2) : a[Len(s1) + i] = s2[i]
  BY Join
<1>7. PICK c \in Seq(Char) :
        /\ c = a \o s3 /\ Len(c) = Len(a) + Len(s3)
        /\ \A i \in 1..Len(a) : c[i] = a[i]
        /\ \A i \in 1..Len(s3) : c[Len(a) + i] = s3[i]
  BY Join
<1>8. PICK d \in Seq(Char) :
        /\ d = c \o s4 /\ Len(d) = Len(c) + Len(s4)
        /\ \A i \in 1..Len(c) : d[i] = c[i]
        /\ \A i \in 1..Len(s4) : d[Len(c) + i] = s4[i]
  BY Join
<1>9. /\ Len(a) = n + 2
      /\ \A i \in 1..n : a[i] = s1[i]
      /\ \A i \in 1..2 : a[n + i] = s2[i]
      /\ Len(c) = (n + 2) + v
  BY <1>5, <1>6, <1>7, <1>2
<1>10. /\ \A i \in 1..(n + 2) : c[i] = a[i]
       /\ \A i \in 1..v : c[(n + 2) + i] = s3[i]
       /\ Len(d) = ((n + 2) + v) + 2
       /\ \A i \in 1..((n + 2) + v) : d[i] = c[i]
       /\ \A i \in 1..2 : d[((n + 2) + v) + i] = s4[i]
  <2>1. Len(a) = n + 2 /\ Len(s3) = v /\ Len(c) = (n + 2) + v /\ Len(s4) = 2
    BY <1>3, <1>5, <1>9
  <2>2. QED
    BY <1>7, <1>8, <2>1, Zenon
<1>11. ASSUME NEW i \in 1..n PROVE d[i] = s1[i]
  <2>1. i \in 1..((n + 2) + v) /\ i \in 1..(n + 2)
    OBVIOUS
  <2>2. QED
    BY <1>9, <1>10, <2>1
<1>12. d[n + 1] = s2[1] /\ d[n + 2] = s2[2]
  <2>1. /\ n + 1 \in 1..((n + 2) + v) /\ n + 1 \in 1..(n + 2)
        /\ n + 2 \in 1..((n + 2) + v) /\ n + 2 \in 1..(n + 2)
    OBVIOUS
  <2>2. a[n + 1] = s2[1] /\ a[n + 2] = s2[2]
    BY <1>9
  <2>3. c[n + 1] = s2[1] /\ c[n + 2] = s2[2]
    BY <1>10, <2>1, <2>2
  <2>4. QED
    BY <1>10, <2>1, <2>3
<1>13. ASSUME NEW i \in 1..v PROVE d[n + 2 + i] = s3[i]
  <2>1. n + 2 + i \in 1..((n + 2) + v)
    OBVIOUS
  <2>2. c[n + 2 + i] = s3[i]
    BY <1>10
  <2>3. QED
    BY <1>10, <2>1, <2>2
<1>14. d[n + v + 3] = s4[1] /\ d[n + v + 4] = s4[2]
  <2>1. n + v + 3 = ((n + 2) + v) + 1 /\ n + v + 4 = ((n + 2) + v) + 2
    OBVIOUS
  <2>2. d[((n + 2) + v) + 1] = s4[1] /\ d[((n + 2) + v) + 2] = s4[2]
    BY <1>10
  <2>3. QED
    BY <2>1, <2>2
<1>15. d = headerLine(h) /\ Len(d) = n + v + 4
  <2>1. d = headerLine(h)
    BY <1>4, <1>6, <1>7, <1>8, Zenon
  <2>2. QED
    BY <1>10, <2>1
<1>16. /\ d[n + 1] = COLON /\ d[n + 2] = SPACE
       /\ d[n + v + 3] = CR /\ d[n + v + 4] = LF
  BY <1>2, <1>3, <1>12, <1>14, Zenon
<1>17. /\ n = Len(h.name) /\ v = Len(h.value)
       /\ \A i \in 1..n : d[i] = h.name[i]
       /\ \A i \in 1..v : d[n + 2 + i] = h.value[i]
  BY <1>1, <1>5, <1>11, <1>13, Zenon
<1>18. QED
  BY <1>15, <1>16, <1>17, Zenon

\* The headers of a response end with the length of its body.
LEMMA SentHeadersAre ==
    ASSUME NEW resp \in Response, Len(resp.body) < Len(Numerals)
    PROVE  LET H == sentHeaders(resp)
           IN  /\ H \in Seq(Header) /\ Len(H) \in Nat /\ Len(H) # 0
               /\ H[Len(H)].name = contentLengthName
               /\ H[Len(H)].value = <<Numerals[Len(resp.body) + 1]>>
<1> DEFINE last == [name |-> contentLengthName, value |-> <<Numerals[Len(resp.body) + 1]>>]
<1>1. resp.headers \in Seq(Header) /\ resp.body \in Seq(Char)
  BY DEF Response
<1>2. Numerals[Len(resp.body) + 1] \in Char
  <2>1. PICK m \in Nat, n \in Nat : m = Len(resp.body) /\ n = Len(Numerals)
    BY <1>1, NumeralsAssumption, LenProperties
  <2>2. m + 1 \in 1..n
    BY <2>1
  <2>3. QED
    BY <2>1, <2>2, NumeralsAssumption, ElementOfSeq
<1>3. contentLengthName \in Seq(Char) /\ <<Numerals[Len(resp.body) + 1]>> \in Seq(Char)
  BY <1>2, WordsAssumption DEF contentLengthName
<1>4. last \in Header
  BY <1>3, Zenon DEF Header
<1>5. last.name = contentLengthName /\ last.value = <<Numerals[Len(resp.body) + 1]>>
  OBVIOUS
<1>6. sentHeaders(resp) = Append(resp.headers, last)
  BY Zenon DEF sentHeaders
<1> HIDE DEF last
<1>7. QED
  BY <1>1, <1>4, <1>5, <1>6

\* Where the parts of a response are in the bytes D of it: the status st, the
\* headers H, the last of which ends at b[Len(H)], and the body B.
Layout(D, st, H, B, b) ==
    /\ D[1] = "HTTP/1.0" /\ D[2] = SPACE /\ D[3] = st
    /\ D[4] = SPACE /\ D[5] = "Request" /\ D[6] = SPACE /\ D[7] = "failed"
    /\ D[8] = CR /\ D[9] = LF
    /\ b[0] = 9
    /\ \A k \in 1..Len(H) :
         /\ b[k] = b[k - 1] + Len(headerLine(H[k])) /\ b[k] <= b[Len(H)]
         /\ \A i \in 1..Len(headerLine(H[k])) : D[b[k - 1] + i] = headerLine(H[k])[i]
    /\ D[b[Len(H)] + 1] = CR /\ D[b[Len(H)] + 2] = LF
    /\ Len(D) = b[Len(H)] + 2 + Len(B)
    /\ \A i \in 1..Len(B) : D[b[Len(H)] + 2 + i] = B[i]

\* The five parts of a response put together.
Parts(p1, p2, p3, p4, p5, D) ==
    /\ D = (((p1 \o p2) \o p3) \o p4) \o p5
    /\ Len(D) = 9 + Len(p3) + 2 + Len(p5)
    /\ D[1] = p1[1] /\ D[2] = p1[2] /\ D[3] = p1[3]
    /\ D[4] = p2[1] /\ D[5] = p2[2] /\ D[6] = p2[3]
    /\ D[7] = p2[4] /\ D[8] = p2[5] /\ D[9] = p2[6]
    /\ \A i \in 1..Len(p3) : D[9 + i] = p3[i]
    /\ D[9 + Len(p3) + 1] = p4[1] /\ D[9 + Len(p3) + 2] = p4[2]
    /\ \A i \in 1..Len(p5) : D[9 + Len(p3) + 2 + i] = p5[i]

\* Their positions follow from their lengths.
LEMMA PartsAt ==
    ASSUME NEW p1 \in Seq(Char), Len(p1) = 3, NEW p2 \in Seq(Char), Len(p2) = 6,
           NEW p3 \in Seq(Char), NEW p4 \in Seq(Char), Len(p4) = 2, NEW p5 \in Seq(Char)
    PROVE  \E D \in Seq(Char) : Parts(p1, p2, p3, p4, p5, D)
<1>1. PICK a \in Seq(Char) :
        /\ a = p1 \o p2 /\ Len(a) = Len(p1) + Len(p2)
        /\ \A i \in 1..Len(p1) : a[i] = p1[i]
        /\ \A i \in 1..Len(p2) : a[Len(p1) + i] = p2[i]
  BY Join
<1>2. PICK c \in Seq(Char) :
        /\ c = a \o p3 /\ Len(c) = Len(a) + Len(p3)
        /\ \A i \in 1..Len(a) : c[i] = a[i]
        /\ \A i \in 1..Len(p3) : c[Len(a) + i] = p3[i]
  BY Join
<1>3. PICK d \in Seq(Char) :
        /\ d = c \o p4 /\ Len(d) = Len(c) + Len(p4)
        /\ \A i \in 1..Len(c) : d[i] = c[i]
        /\ \A i \in 1..Len(p4) : d[Len(c) + i] = p4[i]
  BY Join
<1>4. PICK D \in Seq(Char) :
        /\ D = d \o p5 /\ Len(D) = Len(d) + Len(p5)
        /\ \A i \in 1..Len(d) : D[i] = d[i]
        /\ \A i \in 1..Len(p5) : D[Len(d) + i] = p5[i]
  BY Join
<1>5. PICK m \in Nat, n \in Nat : m = Len(p3) /\ n = Len(p5)
  BY LenProperties
<1>6. Len(a) = 9 /\ Len(c) = 9 + m /\ Len(d) = 9 + m + 2 /\ Len(D) = 9 + m + 2 + n
  BY <1>1, <1>2, <1>3, <1>4, <1>5
<1>7. /\ a[1] = p1[1] /\ a[2] = p1[2] /\ a[3] = p1[3]
      /\ a[4] = p2[1] /\ a[5] = p2[2] /\ a[6] = p2[3]
      /\ a[7] = p2[4] /\ a[8] = p2[5] /\ a[9] = p2[6]
  <2>1. /\ \A i \in 1..3 : a[i] = p1[i]
        /\ \A i \in 1..6 : a[3 + i] = p2[i]
    BY <1>1
  <2>2. a[1] = p1[1] /\ a[2] = p1[2] /\ a[3] = p1[3]
    BY <2>1
  <2>3. a[4] = p2[1] /\ a[5] = p2[2] /\ a[6] = p2[3]
    BY <2>1
  <2>4. a[7] = p2[4] /\ a[8] = p2[5] /\ a[9] = p2[6]
    BY <2>1
  <2>5. QED
    BY <2>2, <2>3, <2>4
<1>8. ASSUME NEW i \in 1..9 PROVE D[i] = a[i]
  <2>1. i \in 1..(9 + m) /\ i \in 1..(9 + m + 2)
    OBVIOUS
  <2>2. QED
    BY <1>2, <1>3, <1>4, <1>6, <2>1
<1>9. ASSUME NEW i \in 1..m PROVE D[9 + i] = p3[i]
  <2>1. 9 + i \in 1..(9 + m) /\ 9 + i \in 1..(9 + m + 2)
    OBVIOUS
  <2>2. c[9 + i] = p3[i]
    BY <1>2, <1>5, <1>6
  <2>3. QED
    BY <1>3, <1>4, <1>6, <2>1, <2>2
<1>10. D[9 + m + 1] = p4[1] /\ D[9 + m + 2] = p4[2]
  <2>1. 9 + m + 1 \in 1..(9 + m + 2) /\ 9 + m + 2 \in 1..(9 + m + 2)
    OBVIOUS
  <2>2. \A i \in 1..2 : d[(9 + m) + i] = p4[i]
    BY <1>3, <1>6
  <2>3. d[9 + m + 1] = p4[1] /\ d[9 + m + 2] = p4[2]
    BY <2>2
  <2>4. QED
    BY <1>4, <1>6, <2>1, <2>3
<1>11. ASSUME NEW i \in 1..n PROVE D[9 + m + 2 + i] = p5[i]
  BY <1>4, <1>5, <1>6
<1>12. /\ D[1] = p1[1] /\ D[2] = p1[2] /\ D[3] = p1[3]
       /\ D[4] = p2[1] /\ D[5] = p2[2] /\ D[6] = p2[3]
       /\ D[7] = p2[4] /\ D[8] = p2[5] /\ D[9] = p2[6]
  <2>1. D[1] = a[1] /\ D[2] = a[2] /\ D[3] = a[3]
    BY <1>8
  <2>2. D[4] = a[4] /\ D[5] = a[5] /\ D[6] = a[6]
    BY <1>8
  <2>3. D[7] = a[7] /\ D[8] = a[8] /\ D[9] = a[9]
    BY <1>8
  <2>4. QED
    BY <1>7, <2>1, <2>2, <2>3
<1>13. D = (((p1 \o p2) \o p3) \o p4) \o p5
  BY <1>1, <1>2, <1>3, <1>4, Zenon
<1>14. QED
  BY <1>5, <1>6, <1>9, <1>10, <1>11, <1>12, <1>13 DEF Parts

\* The lines of the headers.
LEMMA HeaderLines ==
    ASSUME NEW H \in Seq(Header), Len(H) # 0
    PROVE  \E lines \in Seq(Seq(Char)) :
             /\ lines = [k \in 1..Len(H) |-> headerLine(H[k])]
             /\ Len(lines) = Len(H) /\ lines # << >>
             /\ \A k \in 1..Len(H) : lines[k] = headerLine(H[k])
<1> DEFINE lines == [k \in 1..Len(H) |-> headerLine(H[k])]
<1>1. PICK n \in Nat : n = Len(H)
  BY LenProperties
<1>2. \A k \in 1..n : headerLine(H[k]) \in Seq(Char)
  <2> SUFFICES ASSUME NEW k \in 1..n PROVE headerLine(H[k]) \in Seq(Char)
    OBVIOUS
  <2>1. H[k] \in Header
    BY <1>1
  <2>2. QED
    BY <2>1, HeaderLineAt, Zenon
<1>3. lines \in Seq(Seq(Char)) /\ Len(lines) = n
  BY <1>1, <1>2
<1>4. \A k \in 1..n : lines[k] = headerLine(H[k])
  BY <1>1
<1>5. lines # << >>
  <2> HIDE DEF lines
  <2>1. QED
    BY <1>1, <1>3, EmptySeq
<1> HIDE DEF lines
<1>6. lines = [k \in 1..Len(H) |-> headerLine(H[k])]
  BY DEF lines
<1>7. QED
  BY <1>1, <1>3, <1>4, <1>5, <1>6

\* -deliverResponse:toRequest:onStream: lays a response out that way.
LEMMA DeliverLayout ==
    ASSUME NEW resp \in Responses, NEW head
    PROVE  /\ deliver(resp, head) \in Seq(Char)
           /\ sentHeaders(resp) \in Seq(Header) /\ Len(sentHeaders(resp)) # 0
           /\ \E b \in [0..Len(sentHeaders(resp)) -> Nat] :
                Layout(deliver(resp, head), resp.status, sentHeaders(resp),
                       IF head THEN << >> ELSE resp.body, b)
<1>1. resp \in Response /\ Len(resp.body) < Len(Numerals)
  BY ResponsesAssumption
<1>2. resp.status \in Char /\ resp.body \in Seq(Char)
  BY <1>1 DEF Response
<1>3. PICK H \in Seq(Header) : H = sentHeaders(resp) /\ Len(H) # 0
  BY <1>1, SentHeadersAre, Zenon
<1>4. PICK lines \in Seq(Seq(Char)) :
        /\ lines = [k \in 1..Len(H) |-> headerLine(H[k])]
        /\ Len(lines) = Len(H) /\ lines # << >>
        /\ \A k \in 1..Len(H) : lines[k] = headerLine(H[k])
  BY <1>3, HeaderLines
<1>5. PICK p3 \in Seq(Char), c \in [0..Len(lines) -> Nat] :
        /\ p3 = FlattenSeq(lines)
        /\ c[0] = 0 /\ c[Len(lines)] = Len(p3)
        /\ \A k \in 1..Len(lines) :
             /\ c[k] = c[k - 1] + Len(lines[k]) /\ c[k] <= c[Len(lines)]
             /\ \A i \in 1..Len(lines[k]) : p3[c[k - 1] + i] = lines[k][i]
  BY <1>4, FlattenLayout, Zenon
<1>6. PICK p5 \in Seq(Char) : p5 = IF head THEN << >> ELSE resp.body
  <2>1. << >> \in Seq(Char)
    OBVIOUS
  <2>2. QED
    BY <1>2, <2>1, Zenon
<1>7. PICK p1 \in Seq(Char) :
        /\ p1 = <<"HTTP/1.0", SPACE, resp.status>> /\ Len(p1) = 3
        /\ p1[1] = "HTTP/1.0" /\ p1[2] = SPACE /\ p1[3] = resp.status
  <2>1. "HTTP/1.0" \in Char /\ SPACE \in Char
    BY WordsAssumption, CharAssumption, Zenon
  <2>2. PICK st \in Char : st = resp.status
    BY <1>2
  <2>3. /\ <<"HTTP/1.0", SPACE, st>> \in Seq(Char) /\ Len(<<"HTTP/1.0", SPACE, st>>) = 3
        /\ <<"HTTP/1.0", SPACE, st>>[1] = "HTTP/1.0"
        /\ <<"HTTP/1.0", SPACE, st>>[2] = SPACE /\ <<"HTTP/1.0", SPACE, st>>[3] = st
    BY <2>1
  <2>4. QED
    BY <2>2, <2>3, Zenon
<1>8. PICK p2 \in Seq(Char) :
        /\ p2 = <<SPACE, "Request", SPACE, "failed", CR, LF>> /\ Len(p2) = 6
        /\ p2[1] = SPACE /\ p2[2] = "Request" /\ p2[3] = SPACE /\ p2[4] = "failed"
        /\ p2[5] = CR /\ p2[6] = LF
  <2>1. "Request" \in Char /\ SPACE \in Char /\ "failed" \in Char /\ CR \in Char /\ LF \in Char
    BY WordsAssumption, CharAssumption, Zenon
  <2> DEFINE t == <<SPACE, "Request", SPACE, "failed", CR, LF>>
  <2>2. /\ t \in Seq(Char) /\ Len(t) = 6
        /\ t[1] = SPACE /\ t[2] = "Request" /\ t[3] = SPACE /\ t[4] = "failed"
        /\ t[5] = CR /\ t[6] = LF
    BY <2>1
  <2>3. QED
    BY <2>2, Zenon
<1>9. PICK p4 \in Seq(Char) : p4 = <<CR, LF>> /\ Len(p4) = 2 /\ p4[1] = CR /\ p4[2] = LF
  BY EndOfLine, Zenon
<1>10. PICK D \in Seq(Char) : Parts(p1, p2, p3, p4, p5, D)
  <2>1. Len(p1) = 3 /\ Len(p2) = 6 /\ Len(p4) = 2
    BY <1>7, <1>8, <1>9
  <2>2. QED
    BY <2>1, PartsAt, Zenon
<1>11. D = deliver(resp, head)
  BY <1>3, <1>4, <1>5, <1>6, <1>7, <1>8, <1>9, <1>10, Zenon DEF deliver, Parts
<1>12. PICK K \in Nat \ {0} : K = Len(H) /\ K = Len(lines)
  BY <1>3, <1>4, LenProperties
<1>13. PICK b \in [0..K -> Nat] : \A k \in 0..K : b[k] = c[k] + 9
  <2> DEFINE b == [k \in 0..K |-> c[k] + 9]
  <2>1. b \in [0..K -> Nat] /\ \A k \in 0..K : b[k] = c[k] + 9
    BY <1>12
  <2> HIDE DEF b
  <2>2. QED
    BY <2>1
<1>14. b[0] = 9 /\ b[K] = 9 + Len(p3)
  <2>1. 0 \in 0..K /\ K \in 0..K
    OBVIOUS
  <2>2. c[0] = 0 /\ c[K] = Len(p3)
    BY <1>5, <1>12, Zenon
  <2>3. PICK m \in Nat : m = Len(p3)
    BY LenProperties
  <2>4. b[0] = 0 + 9 /\ b[K] = m + 9
    BY <1>13, <2>1, <2>2, <2>3, Zenon
  <2>5. QED
    BY <2>3, <2>4
<1>15. ASSUME NEW k \in 1..K
       PROVE  /\ b[k] = b[k - 1] + Len(headerLine(H[k])) /\ b[k] <= b[K]
              /\ \A i \in 1..Len(headerLine(H[k])) : D[b[k - 1] + i] = headerLine(H[k])[i]
  <2>1. k - 1 \in 0..K /\ k \in 0..K /\ K \in 0..K
    OBVIOUS
  <2>2. PICK p \in Nat, q \in Nat, r \in Nat : p = c[k - 1] /\ q = c[k] /\ r = c[K]
    BY <1>12, <2>1
  <2>3. b[k - 1] = p + 9 /\ b[k] = q + 9 /\ b[K] = r + 9
    BY <1>13, <2>1, <2>2
  <2>4. PICK l \in Seq(Char) : l = lines[k] /\ l = headerLine(H[k])
    <3>1. lines[k] \in Seq(Char)
      BY <1>12
    <3>2. QED
      BY <1>4, <1>12, <3>1
  <2>5. PICK m \in Nat : m = Len(l)
    BY LenProperties
  <2>6. q = p + m /\ q <= r /\ r = Len(p3)
    BY <1>5, <1>12, <2>2, <2>4, <2>5
  <2>7. ASSUME NEW i \in 1..m PROVE D[b[k - 1] + i] = l[i]
    <3>1. p + i \in 1..Len(p3)
      BY <2>6, Inside
    <3>2. D[9 + (p + i)] = p3[p + i]
      BY <1>10, <3>1 DEF Parts
    <3>3. p3[p + i] = l[i]
      <4>1. \A j \in 1..Len(lines[k]) : p3[c[k - 1] + j] = lines[k][j]
        BY <1>5, <1>12
      <4>2. QED
        BY <2>2, <2>4, <2>5, <4>1
    <3>4. b[k - 1] + i = 9 + (p + i)
      BY <2>3
    <3>5. QED
      BY <3>2, <3>3, <3>4
  <2>8. b[k] = b[k - 1] + m /\ b[k] <= b[K]
    BY <2>3, <2>6
  <2>9. QED
    BY <2>4, <2>5, <2>7, <2>8
<1>16. /\ D[b[K] + 1] = CR /\ D[b[K] + 2] = LF
       /\ Len(D) = b[K] + 2 + Len(p5)
       /\ \A i \in 1..Len(p5) : D[b[K] + 2 + i] = p5[i]
  BY <1>9, <1>10, <1>14 DEF Parts
<1>17. /\ D[1] = "HTTP/1.0" /\ D[2] = SPACE /\ D[3] = resp.status
       /\ D[4] = SPACE /\ D[5] = "Request" /\ D[6] = SPACE /\ D[7] = "failed"
       /\ D[8] = CR /\ D[9] = LF
  BY <1>7, <1>8, <1>10, Zenon DEF Parts
<1>18. Layout(D, resp.status, H, p5, b)
  BY <1>12, <1>14, <1>15, <1>16, <1>17, Zenon DEF Layout
<1>19. QED
  BY <1>3, <1>6, <1>11, <1>12, <1>18, Zenon

-----------------------------------------------------------------------------
(* The scanner                                                             *)

\* A run that begins anywhere ends somewhere.
LEMMA RunExists ==
    ASSUME NEW n \in Nat, NEW run, NEW max \in Nat, NEW from \in 0..n
    PROVE  \E e \in from..n :
             /\ e - from <= max /\ \A k \in (from + 1)..e : k \in run
             /\ e - from = max \/ e = n \/ e + 1 \notin run
<1> DEFINE T == {e \in from..n : e - from = max \/ e = n \/ e + 1 \notin run}
<1>1. T \in SUBSET Nat /\ n \in T
  OBVIOUS
<1>2. PICK e \in T : \A y \in T : e <= y
  <2> HIDE DEF T
  <2>1. QED
    BY <1>1, NatLeast
<1>3. e \in from..n /\ (e - from = max \/ e = n \/ e + 1 \notin run)
  OBVIOUS
<1>4. ASSUME NEW k \in (from + 1)..e PROVE k \in run
  <2>1. k - 1 \in from..n /\ ~(e <= k - 1) /\ (k - 1) + 1 = k
    BY <1>3
  <2>2. k - 1 \notin T
    <3> HIDE DEF T
    <3>1. QED
      BY <1>2, <2>1
  <2>3. QED
    BY <2>1, <2>2
<1>5. e - from <= max
  <2> SUFFICES ASSUME e - from > max PROVE FALSE
    BY <1>3
  <2>1. from + max \in from..n /\ (from + max) - from = max /\ ~(e <= from + max)
    BY <1>3
  <2>2. from + max \in T
    BY <2>1
  <2> HIDE DEF T
  <2>3. QED
    BY <1>2, <2>1, <2>2
<1>6. QED
  BY <1>3, <1>4, <1>5

\* The loops stay within the stream.
LEMMA SpanEndRange ==
    ASSUME NEW s \in Seq(Char), NEW C, NEW max \in Nat, NEW from \in 0..Len(s)
    PROVE  spanEnd(s, C, max)[from] \in from..Len(s)
<1>1. PICK n \in Nat : n = Len(s)
  BY LenProperties
<1> DEFINE run == {k \in 1..n : s[k] \in C}
<1>2. PICK e \in from..n :
        /\ e - from <= max /\ \A k \in (from + 1)..e : k \in run
        /\ e - from = max \/ e = n \/ e + 1 \notin run
  <2> HIDE DEF run
  <2>1. from \in 0..n
    BY <1>1
  <2>2. QED
    BY <2>1, RunExists
<1>3. /\ \A k \in (from + 1)..e : s[k] \in C
      /\ e - from = max \/ e = n \/ s[e + 1] \notin C
  BY <1>1, <1>2
<1>4. spanEnd(s, C, max)[from] = e
  BY <1>1, <1>2, <1>3, SpanEnds
<1>5. QED
  BY <1>1, <1>4

\* The loops that look for a character do too.
LEMMA SpanUntilRange ==
    ASSUME NEW s \in Seq(Char), NEW C, NEW max \in Nat, NEW from \in 0..Len(s)
    PROVE  spanUntil(s, C, max)[from] \in from..Len(s)
<1>1. PICK n \in Nat : n = Len(s)
  BY LenProperties
<1> DEFINE run == {k \in 1..n : s[k] \notin C}
<1>2. PICK e \in from..n :
        /\ e - from <= max /\ \A k \in (from + 1)..e : k \in run
        /\ e - from = max \/ e = n \/ e + 1 \notin run
  <2> HIDE DEF run
  <2>1. from \in 0..n
    BY <1>1
  <2>2. QED
    BY <2>1, RunExists
<1>3. /\ \A k \in (from + 1)..e : s[k] \notin C
      /\ e - from = max \/ e = n \/ s[e + 1] \in C
  BY <1>1, <1>2
<1>4. spanUntil(s, C, max)[from] = e
  BY <1>1, <1>2, <1>3, SpanUntilEnds
<1>5. QED
  BY <1>1, <1>4

\* The text between two offsets.
LEMMA TextIs ==
    ASSUME NEW s \in Seq(Char), NEW t \in Seq(Char), NEW from \in Nat,
           from + Len(t) <= Len(s), \A i \in 1..Len(t) : s[from + i] = t[i]
    PROVE  text(s, from, from + Len(t)) = t
<1>1. PICK n \in Nat, m \in Nat : n = Len(s) /\ m = Len(t)
  BY LenProperties
<1>2. ASSUME NEW i \in (from + 1)..(from + m) PROVE s[i] \in Char
  <2>1. i \in 1..n
    BY <1>1
  <2>2. QED
    BY <1>1, <2>1
<1>3. PICK u : u = SubSeq(s, from + 1, from + m)
  OBVIOUS
<1>4. /\ u \in Seq(Char)
      /\ Len(u) = IF from + 1 <= from + m THEN (from + m) - (from + 1) + 1 ELSE 0
      /\ \A i \in 1..((from + m) - (from + 1) + 1) : u[i] = s[(from + 1) + i - 1]
  BY <1>2, <1>3, SubSeqProperties
<1>5. Len(u) = m
  BY <1>4
<1>6. ASSUME NEW i \in 1..m PROVE u[i] = t[i]
  <2>1. i \in 1..((from + m) - (from + 1) + 1) /\ (from + 1) + i - 1 = from + i
    OBVIOUS
  <2>2. u[i] = s[from + i]
    BY <1>4, <2>1
  <2>3. QED
    BY <1>1, <2>2
<1>7. u = t
  BY <1>1, <1>4, <1>5, <1>6, SeqEqual
<1>8. QED
  BY <1>1, <1>3, <1>7 DEF text

\* A complete status line is read to its end, and gives the status.
LEMMA StatusLineRead ==
    ASSUME NEW s \in Seq(Char), NEW st \in Char, st \notin spaces, Len(s) >= 9,
           s[1] = "HTTP/1.0", s[2] = SPACE, s[3] = st, s[4] = SPACE, s[5] = "Request",
           s[6] = SPACE, s[7] = "failed", s[8] = CR, s[9] = LF
    PROVE  /\ NGScanResponseLine(s).ok /\ NGScanResponseLine(s).at = 9
           /\ NGScanResponseLine(s).status = <<st>>
<1> DEFINE L == Len(s)
<1>1. L \in Nat /\ L >= 9 /\ MaxVersion \in Nat \ {0} /\ MaxWord \in Nat \ {0}
  BY ScanLimits
<1>2. s[1] \notin spaces /\ s[2] \in spaces /\ s[3] \notin spaces /\ s[4] \in spaces
  BY DEF spaces, SPACE, CR, LF
<1>3. s[5] \notin spaces /\ s[6] \in spaces /\ s[8] # LF /\ s[9] = LF
  BY DEF spaces, SPACE, CR, LF
<1>4. s[6] # LF /\ s[7] # LF
  BY DEF SPACE, LF
<1>5. spanUntil(s, spaces, MaxVersion)[0] = 1
  <2>1. 0 \in 0..L /\ 1 \in 0..L /\ 1 - 0 <= MaxVersion
    BY <1>1
  <2>2. \A k \in (0 + 1)..1 : s[k] \notin spaces
    BY <1>2
  <2>3. s[1 + 1] \in spaces
    BY <1>2
  <2>4. QED
    BY <1>1, <2>1, <2>2, <2>3, SpanUntilEnds
<1>6. skipSpaces(s)[1] = 2
  <2>1. 1 \in 0..L /\ 2 \in 1..L /\ 2 - 1 <= L
    BY <1>1
  <2>2. \A k \in (1 + 1)..2 : s[k] \in spaces
    BY <1>2
  <2>3. s[2 + 1] \notin spaces
    BY <1>2
  <2>4. QED
    BY <1>1, <2>1, <2>2, <2>3, SpanEnds DEF skipSpaces
<1>7. spanUntil(s, spaces, MaxWord)[2] = 3
  <2>1. 2 \in 0..L /\ 3 \in 2..L /\ 3 - 2 <= MaxWord
    BY <1>1
  <2>2. \A k \in (2 + 1)..3 : s[k] \notin spaces
    BY <1>2
  <2>3. s[3 + 1] \in spaces
    BY <1>2
  <2>4. QED
    BY <1>1, <2>1, <2>2, <2>3, SpanUntilEnds
<1>8. skipSpaces(s)[3] = 4
  <2>1. 3 \in 0..L /\ 4 \in 3..L /\ 4 - 3 <= L
    BY <1>1
  <2>2. \A k \in (3 + 1)..4 : s[k] \in spaces
    BY <1>2
  <2>3. s[4 + 1] \notin spaces
    BY <1>3
  <2>4. QED
    BY <1>1, <2>1, <2>2, <2>3, SpanEnds DEF skipSpaces
<1>9. spanUntil(s, spaces, MaxWord)[4] = 5
  <2>1. 4 \in 0..L /\ 5 \in 4..L /\ 5 - 4 <= MaxWord
    BY <1>1
  <2>2. \A k \in (4 + 1)..5 : s[k] \notin spaces
    BY <1>3
  <2>3. s[5 + 1] \in spaces
    BY <1>3
  <2>4. QED
    BY <1>1, <2>1, <2>2, <2>3, SpanUntilEnds
<1>10. spanUntil(s, endOfLine, L)[5] = 8
  <2>1. 5 \in 0..L /\ 8 \in 5..L /\ 8 - 5 <= L
    BY <1>1
  <2>2. \A k \in (5 + 1)..8 : s[k] \notin endOfLine
    <3>1. \A k \in (5 + 1)..8 : k = 6 \/ k = 7 \/ k = 8
      OBVIOUS
    <3>2. QED
      BY <1>3, <1>4, <3>1 DEF endOfLine
  <2>3. s[8 + 1] \in endOfLine
    BY <1>3 DEF endOfLine
  <2>4. QED
    BY <1>1, <2>1, <2>2, <2>3, SpanUntilEnds
<1>11. NGScanResponseLine(s) = [ok |-> more(s, 8), status |-> text(s, 2, 3), at |-> 8 + 1]
  BY <1>5, <1>6, <1>7, <1>8, <1>9, <1>10, Zenon DEF NGScanResponseLine
<1>12. more(s, 8) /\ text(s, 2, 3) = <<st>>
  <2>1. more(s, 8)
    BY <1>1 DEF more
  <2>2. SubSeq(s, 2 + 1, 3) = <<st>>
    <3>1. PICK t \in Seq(Char) : t = <<st>> /\ Len(t) = 1 /\ t[1] = st
      <4>1. <<st>> \in Seq(Char) /\ Len(<<st>>) = 1 /\ <<st>>[1] = st
        OBVIOUS
      <4>2. QED
        BY <4>1, Zenon
    <3>2. 2 + Len(t) <= L /\ \A k \in 1..Len(t) : s[2 + k] = t[k]
      BY <1>1, <3>1
    <3>3. text(s, 2, 2 + Len(t)) = t
      BY <3>2, TextIs
    <3>4. QED
      BY <3>1, <3>3 DEF text
  <2>3. QED
    BY <2>1, <2>2 DEF text
<1>13. QED
  BY <1>11, <1>12

\* A stream that ends within the status line is no response.
LEMMA StatusLineShort ==
    ASSUME NEW s \in Seq(Char), \A i \in 1..Len(s) : s[i] # LF
    PROVE  ~NGScanResponseLine(s).ok
<1>1. PICK n \in Nat : n = Len(s)
  BY LenProperties
<1>2. MaxVersion \in Nat /\ MaxWord \in Nat
  BY ScanLimits
<1>3. PICK e1 \in 0..n : e1 = spanUntil(s, spaces, MaxVersion)[0]
  BY <1>1, <1>2, SpanUntilRange
<1>4. PICK e2 \in 0..n : e2 = skipSpaces(s)[e1]
  BY <1>1, SpanEndRange DEF skipSpaces
<1>5. PICK e3 \in 0..n : e3 = spanUntil(s, spaces, MaxWord)[e2]
  BY <1>1, <1>2, SpanUntilRange
<1>6. PICK e4 \in 0..n : e4 = skipSpaces(s)[e3]
  BY <1>1, SpanEndRange DEF skipSpaces
<1>7. PICK e5 \in 0..n : e5 = spanUntil(s, spaces, MaxWord)[e4]
  BY <1>1, <1>2, SpanUntilRange
<1>8. spanUntil(s, endOfLine, Len(s))[e5] = Len(s)
  <2>1. e5 \in 0..Len(s) /\ Len(s) \in e5..Len(s) /\ Len(s) - e5 <= Len(s) /\ Len(s) \in Nat
    BY <1>1
  <2>2. \A k \in (e5 + 1)..Len(s) : s[k] \notin endOfLine
    BY <1>1 DEF endOfLine
  <2>3. QED
    BY <2>1, <2>2, SpanUntilEnds
<1>9. NGScanResponseLine(s).ok = more(s, Len(s))
  BY <1>3, <1>4, <1>5, <1>6, <1>7, <1>8, Zenon DEF NGScanResponseLine
<1>10. ~more(s, Len(s))
  BY <1>1 DEF more
<1>11. QED
  BY <1>9, <1>10, Zenon

\* The first part, at least, of the line of a header that fits is behind the
\* first p characters of s; its name has n characters, its value v.
LineIn(s, p, h, n, v) ==
    /\ n \in 1..MaxName /\ v \in 1..MaxValue /\ n = Len(h.name) /\ v = Len(h.value)
    /\ \A i \in 1..n : p + i <= Len(s) =>
         s[p + i] = h.name[i] /\ s[p + i] \notin {COLON, CR, LF}
    /\ p + n + 1 <= Len(s) => s[p + n + 1] = COLON
    /\ p + n + 2 <= Len(s) => s[p + n + 2] = SPACE
    /\ \A i \in 1..v : p + n + 2 + i <= Len(s) =>
         s[p + n + 2 + i] = h.value[i] /\ s[p + n + 2 + i] # CR
    /\ p + n + 2 + 1 <= Len(s) => s[p + n + 2 + 1] \notin spaces
    /\ p + n + v + 3 <= Len(s) => s[p + n + v + 3] = CR
    /\ p + n + v + 4 <= Len(s) => s[p + n + v + 4] = LF

\* How far the scanner gets in it: to the end of the name ...
LEMMA NameScanned ==
    ASSUME NEW s \in Seq(Char), NEW p \in 0..Len(s), NEW h, NEW n, NEW v,
           LineIn(s, p, h, n, v)
    PROVE  spanUntil(s, endOfName, MaxName)[p] = IF p + n <= Len(s) THEN p + n ELSE Len(s)
<1>1. PICK L \in Nat : L = Len(s)
  BY LenProperties
<1>2. n \in Nat /\ n <= MaxName /\ MaxName \in Nat /\ p \in 0..L
  BY <1>1, ScanLimits DEF LineIn
<1>3. \A i \in 1..n : p + i <= L => s[p + i] \notin endOfName
  BY <1>1 DEF LineIn, endOfName
<1>4. ASSUME NEW e \in p..L, e <= p + n, e = p + n \/ e = L
      PROVE  spanUntil(s, endOfName, MaxName)[p] = e
  <2>1. e - p <= MaxName
    BY <1>2, <1>4
  <2>2. ASSUME NEW k \in (p + 1)..e PROVE s[k] \notin endOfName
    <3>1. k - p \in 1..n /\ p + (k - p) <= L /\ p + (k - p) = k
      BY <1>2, <1>4
    <3>2. s[p + (k - p)] \notin endOfName
      BY <1>3, <3>1
    <3>3. QED
      BY <3>1, <3>2
  <2>3. e = L \/ s[e + 1] \in endOfName
    <3>1. CASE e # L
      <4>1. e = p + n /\ p + n + 1 <= L
        BY <1>2, <1>4, <3>1
      <4>2. s[p + n + 1] = COLON
        BY <1>1, <4>1 DEF LineIn
      <4>3. QED
        BY <4>1, <4>2 DEF endOfName
    <3>2. QED
      BY <3>1
  <2>4. QED
    BY <1>1, <1>2, <2>1, <2>2, <2>3, SpanUntilEnds
<1>5. CASE p + n <= L
  <2>1. p + n \in p..L /\ p + n <= p + n
    BY <1>2, <1>5
  <2>2. QED
    BY <1>1, <1>4, <1>5, <2>1
<1>6. CASE ~(p + n <= L)
  <2>1. L \in p..L /\ L <= p + n
    BY <1>2, <1>6
  <2>2. QED
    BY <1>1, <1>4, <1>6, <2>1
<1>7. QED
  BY <1>5, <1>6

\* ... over the space behind the colon ...
LEMMA SpaceSkipped ==
    ASSUME NEW s \in Seq(Char), NEW p \in 0..Len(s), NEW h, NEW n, NEW v,
           LineIn(s, p, h, n, v), p + n + 1 <= Len(s)
    PROVE  skipSpaces(s)[p + n + 1] = IF p + n + 2 <= Len(s) THEN p + n + 2 ELSE Len(s)
<1>1. PICK L \in Nat : L = Len(s)
  BY LenProperties
<1>2. n \in Nat /\ p \in 0..L /\ p + n + 1 \in 0..L
  BY <1>1, ScanLimits DEF LineIn
<1>3. CASE p + n + 2 <= L
  <2>1. p + n + 2 \in (p + n + 1)..L /\ (p + n + 2) - (p + n + 1) <= L
    BY <1>2, <1>3
  <2>2. ASSUME NEW k \in (p + n + 1 + 1)..(p + n + 2) PROVE s[k] \in spaces
    <3>1. k = p + n + 2
      BY <1>2
    <3>2. s[p + n + 2] = SPACE
      BY <1>1, <1>3 DEF LineIn
    <3>3. QED
      BY <3>1, <3>2 DEF spaces
  <2>3. p + n + 2 = L \/ s[p + n + 2 + 1] \notin spaces
    <3>1. CASE p + n + 2 # L
      <4>1. p + n + 2 + 1 <= L
        BY <1>2, <1>3, <3>1
      <4>2. QED
        BY <1>1, <4>1 DEF LineIn
    <3>2. QED
      BY <3>1
  <2>4. spanEnd(s, spaces, L)[p + n + 1] = p + n + 2
    BY <1>1, <1>2, <2>1, <2>2, <2>3, SpanEnds
  <2>5. QED
    BY <1>1, <1>3, <2>4 DEF skipSpaces
<1>4. CASE ~(p + n + 2 <= L)
  <2>1. p + n + 1 = L /\ L \in (p + n + 1)..L /\ L - (p + n + 1) <= L
    BY <1>2, <1>4
  <2>2. \A k \in (p + n + 1 + 1)..L : s[k] \in spaces
    BY <1>2, <2>1
  <2>3. spanEnd(s, spaces, L)[p + n + 1] = L
    BY <1>1, <1>2, <2>1, <2>2, SpanEnds
  <2>4. QED
    BY <1>1, <1>4, <2>3 DEF skipSpaces
<1>5. QED
  BY <1>3, <1>4

\* ... and to the end of the value.
LEMMA ValueScanned ==
    ASSUME NEW s \in Seq(Char), NEW p \in 0..Len(s), NEW h, NEW n, NEW v,
           LineIn(s, p, h, n, v), p + n + 2 <= Len(s)
    PROVE  spanUntil(s, endOfValue, MaxValue)[p + n + 2]
             = IF p + n + 2 + v <= Len(s) THEN p + n + 2 + v ELSE Len(s)
<1>1. PICK L \in Nat : L = Len(s)
  BY LenProperties
<1>2. n \in Nat /\ v \in Nat /\ v <= MaxValue /\ MaxValue \in Nat /\ p \in 0..L
  BY <1>1, ScanLimits DEF LineIn
<1>3. PICK w \in 0..L : w = p + n + 2
  BY <1>1, <1>2
<1>4. \A i \in 1..v : w + i <= L => s[w + i] \notin endOfValue
  BY <1>1, <1>3 DEF LineIn, endOfValue
<1>5. ASSUME NEW e \in w..L, e <= w + v, e = w + v \/ e = L
      PROVE  spanUntil(s, endOfValue, MaxValue)[w] = e
  <2>1. e - w <= MaxValue
    BY <1>2, <1>5
  <2>2. ASSUME NEW k \in (w + 1)..e PROVE s[k] \notin endOfValue
    <3>1. k - w \in 1..v /\ w + (k - w) <= L /\ w + (k - w) = k
      BY <1>2, <1>5
    <3>2. s[w + (k - w)] \notin endOfValue
      BY <1>4, <3>1
    <3>3. QED
      BY <3>1, <3>2
  <2>3. e = L \/ s[e + 1] \in endOfValue
    <3>1. CASE e # L
      <4>1. e + 1 = p + n + v + 3 /\ p + n + v + 3 <= L
        BY <1>2, <1>3, <1>5, <3>1
      <4>2. s[p + n + v + 3] = CR
        BY <1>1, <4>1 DEF LineIn
      <4>3. QED
        BY <4>1, <4>2 DEF endOfValue
    <3>2. QED
      BY <3>1
  <2>4. QED
    BY <1>1, <1>2, <2>1, <2>2, <2>3, SpanUntilEnds
<1>6. CASE w + v <= L
  <2>1. w + v \in w..L /\ w + v <= w + v
    BY <1>2, <1>6
  <2>2. QED
    BY <1>1, <1>3, <1>5, <1>6, <2>1
<1>7. CASE ~(w + v <= L)
  <2>1. L \in w..L /\ L <= w + v
    BY <1>2, <1>7
  <2>2. QED
    BY <1>1, <1>3, <1>5, <1>7, <2>1
<1>8. QED
  BY <1>6, <1>7

\* What a turn that stores nothing answers after it asked for m characters.
stopped(s, m) ==
    [stored |-> FALSE, name |-> << >>, value |-> << >>,
     at |-> IF m <= Len(s) THEN m ELSE Len(s), short |-> m > Len(s)]

\* A complete line is taken and its header stored.
LEMMA HeaderRead ==
    ASSUME NEW s \in Seq(Char), NEW p \in 0..Len(s), NEW h \in Header, NEW n, NEW v,
           LineIn(s, p, h, n, v), p + n + v + 4 <= Len(s)
    PROVE  ScanHeader(s, p) = [stored |-> TRUE, name |-> h.name, value |-> h.value,
                               at |-> p + n + v + 4, short |-> FALSE]
<1>1. PICK L \in Nat : L = Len(s)
  BY LenProperties
<1>2. n \in Nat /\ v \in Nat /\ n # 0 /\ v # 0 /\ p \in 0..L /\ p + n + v + 4 <= L
  <2>1. n \in 1..MaxName /\ v \in 1..MaxValue /\ MaxName \in Nat /\ MaxValue \in Nat
    BY ScanLimits DEF LineIn
  <2>2. QED
    BY <1>1, <2>1
<1>3. PICK c \in 0..L, w \in 0..L, e \in 0..L :
        c = p + n /\ w = p + n + 2 /\ e = p + n + 2 + v
  BY <1>2
<1>4. spanUntil(s, endOfName, MaxName)[p] = c
  <2>1. p + n <= L
    BY <1>2
  <2>2. QED
    BY <1>1, <1>3, <2>1, NameScanned
<1>5. skipSpaces(s)[c + 1] = w
  <2>1. p + n + 2 <= L /\ p + n + 1 <= L
    BY <1>2
  <2>2. QED
    BY <1>1, <1>3, <2>1, SpaceSkipped
<1>6. spanUntil(s, endOfValue, MaxValue)[w] = e
  <2>1. p + n + 2 + v <= L /\ p + n + 2 <= L
    BY <1>2
  <2>2. QED
    BY <1>1, <1>3, <2>1, ValueScanned
<1>7. more(s, p) /\ ~nextIs(s, p, LF) /\ ~nextIs(s, p, CR)
  <2>1. 1 \in 1..n /\ p + 1 <= L
    BY <1>2
  <2>2. s[p + 1] \notin {COLON, CR, LF}
    BY <1>1, <2>1 DEF LineIn
  <2>3. QED
    BY <1>1, <2>1, <2>2 DEF more, nextIs
<1>8. c # p /\ nextIs(s, c, COLON) /\ e # w
  <2>1. p + n + 1 <= L
    BY <1>2
  <2>2. s[p + n + 1] = COLON
    BY <1>1, <2>1 DEF LineIn
  <2>3. QED
    BY <1>1, <1>2, <1>3, <2>1, <2>2 DEF more, nextIs
<1>9. ~lineEnd(s, e) /\ nextIs(s, e, CR) /\ lineEnd(s, e + 1)
  <2>1. /\ e + 1 = p + n + v + 3 /\ p + n + v + 3 <= L
        /\ e + 1 + 1 = p + n + v + 4 /\ p + n + v + 4 <= L
    BY <1>2, <1>3
  <2>2. s[p + n + v + 3] = CR /\ s[p + n + v + 4] = LF
    BY <1>1, <2>1 DEF LineIn
  <2>3. s[e + 1] = CR /\ s[e + 1 + 1] = LF /\ e < L /\ e + 1 < L /\ CR # LF
    BY <2>1, <2>2 DEF CR, LF
  <2>4. QED
    BY <1>1, <2>3 DEF more, nextIs, lineEnd
<1>10. ScanHeader(s, p) = [stored |-> TRUE, name |-> text(s, p, c), value |-> text(s, w, e),
                           at |-> e + 2, short |-> FALSE]
  BY <1>4, <1>5, <1>6, <1>7, <1>8, <1>9, Zenon DEF ScanHeader
<1>11. h.name \in Seq(Char) /\ h.value \in Seq(Char)
  BY DEF Header
<1>12. text(s, p, c) = h.name
  <2>1. PICK t \in Seq(Char) : t = h.name /\ Len(t) = n
    BY <1>11 DEF LineIn
  <2>2. ASSUME NEW i \in 1..n PROVE s[p + i] = t[i]
    <3>1. p + i <= L
      BY <1>2
    <3>2. QED
      BY <1>1, <2>1, <3>1 DEF LineIn
  <2>3. text(s, p, p + Len(t)) = t
    <3>1. p \in Nat /\ p + Len(t) <= Len(s)
      BY <1>1, <1>2, <2>1
    <3>2. QED
      BY <2>1, <2>2, <3>1, TextIs
  <2>4. QED
    BY <1>3, <2>1, <2>3
<1>13. text(s, w, e) = h.value
  <2>1. PICK t \in Seq(Char) : t = h.value /\ Len(t) = v
    BY <1>11 DEF LineIn
  <2>2. ASSUME NEW i \in 1..v PROVE s[w + i] = t[i]
    <3>1. p + n + 2 + i <= L
      BY <1>2
    <3>2. s[p + n + 2 + i] = h.value[i]
      BY <1>1, <3>1 DEF LineIn
    <3>3. QED
      BY <1>3, <2>1, <3>2
  <2>3. text(s, w, w + Len(t)) = t
    <3>1. w \in Nat /\ w + Len(t) <= Len(s)
      BY <1>1, <1>2, <1>3, <2>1
    <3>2. QED
      BY <2>1, <2>2, <3>1, TextIs
  <2>4. QED
    BY <1>3, <2>1, <2>3
<1>14. e + 2 = p + n + v + 4
  BY <1>2, <1>3
<1>15. QED
  BY <1>10, <1>12, <1>13, <1>14, Zenon

\* A line the stream cuts off stores nothing, and the end of the stream is met.
LEMMA HeaderCut ==
    ASSUME NEW s \in Seq(Char), NEW p \in 0..Len(s), NEW h, NEW n, NEW v,
           LineIn(s, p, h, n, v), ~(p + n + v + 4 <= Len(s))
    PROVE  ScanHeader(s, p) = stopped(s, Len(s) + 1)
<1>1. PICK L \in Nat : L = Len(s)
  BY LenProperties
<1>2. n \in Nat /\ v \in Nat /\ n # 0 /\ v # 0 /\ p \in 0..L /\ L < p + n + v + 4
  <2>1. n \in 1..MaxName /\ v \in 1..MaxValue /\ MaxName \in Nat /\ MaxValue \in Nat
    BY ScanLimits DEF LineIn
  <2>2. QED
    BY <1>1, <2>1
<1>3. CASE L = p
  <2>1. ~more(s, p) /\ ~nextIs(s, p, LF) /\ ~nextIs(s, p, CR)
    BY <1>1, <1>3 DEF more, nextIs
  <2>2. ScanHeader(s, p) = stopped(s, p + 1)
    BY <2>1, Zenon DEF ScanHeader, stopped
  <2>3. QED
    BY <1>1, <1>3, <2>2
<1>4. CASE L # p
  <2>1. more(s, p) /\ ~nextIs(s, p, LF) /\ ~nextIs(s, p, CR)
    <3>1. 1 \in 1..n /\ p + 1 <= L
      BY <1>2, <1>4
    <3>2. s[p + 1] \notin {COLON, CR, LF}
      BY <1>1, <3>1 DEF LineIn
    <3>3. QED
      BY <1>1, <3>1, <3>2 DEF more, nextIs
  <2>2. CASE L <= p + n
    <3>1. spanUntil(s, endOfName, MaxName)[p] = L
      <4>1. CASE p + n <= L
        <5>1. p + n = L
          BY <1>2, <2>2, <4>1
        <5>2. QED
          BY <1>1, <4>1, <5>1, NameScanned
      <4>2. CASE ~(p + n <= L)
        BY <1>1, <4>2, NameScanned
      <4>3. QED
        BY <4>1, <4>2
    <3>2. ~nextIs(s, L, COLON)
      BY <1>1 DEF nextIs, more
    <3>3. ScanHeader(s, p) = stopped(s, L + 1)
      BY <2>1, <3>1, <3>2, Zenon DEF ScanHeader, stopped
    <3>4. QED
      BY <1>1, <3>3
  <2>3. CASE ~(L <= p + n)
    <3>1. PICK c \in 0..L : c = p + n
      BY <1>2, <2>3
    <3>2. spanUntil(s, endOfName, MaxName)[p] = c
      <4>1. p + n <= L
        BY <1>2, <2>3
      <4>2. QED
        BY <1>1, <3>1, <4>1, NameScanned
    <3>3. c # p /\ nextIs(s, c, COLON)
      <4>1. p + n + 1 <= L
        BY <1>2, <2>3
      <4>2. s[p + n + 1] = COLON
        BY <1>1, <4>1 DEF LineIn
      <4>3. QED
        BY <1>1, <1>2, <3>1, <4>1, <4>2 DEF more, nextIs
    <3>4. CASE L <= p + n + 2
      <4>1. skipSpaces(s)[c + 1] = L
        <5>1. p + n + 1 <= L /\ c + 1 = p + n + 1
          BY <1>2, <2>3, <3>1
        <5>2. skipSpaces(s)[p + n + 1] = IF p + n + 2 <= Len(s) THEN p + n + 2 ELSE Len(s)
          BY <1>1, <5>1, SpaceSkipped
        <5>3. (IF p + n + 2 <= L THEN p + n + 2 ELSE L) = L
          BY <1>2, <3>4
        <5>4. QED
          BY <1>1, <5>1, <5>2, <5>3
      <4>2. spanUntil(s, endOfValue, MaxValue)[L] = L
        <5>1. L \in 0..L /\ MaxValue \in Nat
          BY ScanLimits
        <5>2. spanUntil(s, endOfValue, MaxValue)[L] \in L..L
          BY <1>1, <5>1, SpanUntilRange
        <5>3. QED
          BY <5>2
      <4>3. ScanHeader(s, p) = stopped(s, L + 1)
        BY <2>1, <3>2, <3>3, <4>1, <4>2, Zenon DEF ScanHeader, stopped
      <4>4. QED
        BY <1>1, <4>3
    <3>5. CASE ~(L <= p + n + 2)
      <4>1. PICK w \in 0..L : w = p + n + 2 /\ c + 1 = p + n + 1
        BY <1>2, <3>1, <3>5
      <4>2. skipSpaces(s)[c + 1] = w
        <5>1. p + n + 1 <= L /\ p + n + 2 <= L
          BY <1>2, <3>5
        <5>2. QED
          BY <1>1, <4>1, <5>1, SpaceSkipped
      <4>3. PICK e \in 0..L : e = IF p + n + 2 + v <= L THEN p + n + 2 + v ELSE L
        BY <1>2
      <4>4. spanUntil(s, endOfValue, MaxValue)[w] = e
        <5>1. p + n + 2 <= L
          BY <1>2, <3>5
        <5>2. QED
          BY <1>1, <4>1, <4>3, <5>1, ValueScanned
      <4>5. e # w
        BY <1>2, <3>5, <4>1, <4>3
      <4>6. CASE e = L
        <5>1. ~nextIs(s, L, CR) /\ ~lineEnd(s, L)
          BY <1>1 DEF nextIs, more, lineEnd
        <5>2. ScanHeader(s, p) = stopped(s, L + 1)
          BY <2>1, <3>2, <3>3, <4>2, <4>4, <4>5, <4>6, <5>1, Zenon DEF ScanHeader, stopped
        <5>3. QED
          BY <1>1, <5>2
      <4>7. CASE e # L
        <5>1. e = p + n + 2 + v /\ e + 1 = p + n + v + 3 /\ p + n + v + 3 <= L /\ e + 1 = L
          BY <1>2, <4>3, <4>7
        <5>2. s[e + 1] = CR
          BY <1>1, <5>1 DEF LineIn
        <5>3. ~lineEnd(s, e) /\ nextIs(s, e, CR) /\ ~lineEnd(s, e + 1)
          BY <1>1, <5>1, <5>2 DEF nextIs, more, lineEnd, CR, LF
        <5>4. ScanHeader(s, p) = stopped(s, e + 2)
          BY <2>1, <3>2, <3>3, <4>2, <4>4, <4>5, <5>3, Zenon DEF ScanHeader, stopped
        <5>5. e + 2 = L + 1
          BY <5>1
        <5>6. QED
          BY <1>1, <5>4, <5>5
      <4>8. QED
        BY <4>6, <4>7
    <3>6. QED
      BY <3>4, <3>5
  <2>4. QED
    BY <2>2, <2>3
<1>5. QED
  BY <1>3, <1>4

\* The empty line behind the headers ends them.
LEMMA HeadersEnd ==
    ASSUME NEW s \in Seq(Char), NEW p \in 0..Len(s), p < Len(s) => s[p + 1] = CR
    PROVE  ScanHeader(s, p) = stopped(s, IF p < Len(s) THEN p + 2 ELSE p + 1)
<1>1. CASE p < Len(s)
  <2>1. more(s, p) /\ ~nextIs(s, p, LF) /\ nextIs(s, p, CR)
    BY <1>1 DEF more, nextIs, CR, LF
  <2>2. ScanHeader(s, p) = stopped(s, p + 2)
    BY <2>1, Zenon DEF ScanHeader, stopped
  <2>3. QED
    BY <1>1, <2>2
<1>2. CASE ~(p < Len(s))
  <2>1. ~more(s, p) /\ ~nextIs(s, p, LF) /\ ~nextIs(s, p, CR)
    BY <1>2 DEF more, nextIs
  <2>2. ScanHeader(s, p) = stopped(s, p + 1)
    BY <2>1, Zenon DEF ScanHeader, stopped
  <2>3. QED
    BY <1>2, <2>2
<1>3. QED
  BY <1>1, <1>2

\* The first bytes of a response, all of them perhaps.
Prefix(s, D) == Len(s) <= Len(D) /\ \A i \in 1..Len(s) : s[i] = D[i]

\* What the instance has sent of a response with the status st, the headers H and
\* the body B, whose lines end at the offsets b.
Received(s, D, st, H, B, b) ==
    /\ H \in Seq(Header) /\ \A i \in 1..Len(H) : fits(H[i])
    /\ b \in [0..Len(H) -> Nat] /\ Layout(D, st, H, B, b)
    /\ s \in Seq(Char) /\ Prefix(s, D)

\* The line of a header, as far as the stream has it, follows the one before.
LEMMA PrefixLine ==
    ASSUME NEW s, NEW D, NEW st, NEW H, NEW B, NEW b, Received(s, D, st, H, B, b),
           NEW k \in 1..Len(H)
    PROVE  \E n \in Nat, v \in Nat :
             LineIn(s, b[k - 1], H[k], n, v) /\ b[k] = b[k - 1] + n + v + 4
<1>0. /\ H \in Seq(Header) /\ fits(H[k]) /\ b \in [0..Len(H) -> Nat]
      /\ Layout(D, st, H, B, b) /\ s \in Seq(Char) /\ Prefix(s, D)
  BY Zenon DEF Received
<1> USE <1>0
<1>1. PICK L \in Nat, K \in Nat : L = Len(s) /\ K = Len(H)
  BY LenProperties
<1>2. PICK h \in Header : h = H[k]
  BY <1>1
<1>3. PICK line \in Seq(Char), n \in Nat, v \in Nat :
        /\ line = headerLine(h) /\ n = Len(h.name) /\ v = Len(h.value)
        /\ Len(line) = n + v + 4
        /\ \A i \in 1..n : line[i] = h.name[i]
        /\ line[n + 1] = COLON /\ line[n + 2] = SPACE
        /\ \A i \in 1..v : line[n + 2 + i] = h.value[i]
        /\ line[n + v + 3] = CR /\ line[n + v + 4] = LF
  BY HeaderLineAt
<1>4. PICK p \in Nat : p = b[k - 1]
  <2>1. k - 1 \in 0..K
    BY <1>1
  <2>2. QED
    BY <1>1, <2>1
<1>5. b[k] = p + n + v + 4
  <2>1. b[k] = b[k - 1] + Len(headerLine(H[k]))
    BY DEF Layout
  <2>2. headerLine(H[k]) = line
    BY <1>2, <1>3
  <2>3. b[k] = p + Len(line)
    BY <1>4, <2>1, <2>2
  <2>4. Len(line) = n + v + 4
    BY <1>3
  <2>5. QED
    BY <2>3, <2>4
<1>6. ASSUME NEW i \in 1..(n + v + 4), p + i <= L PROVE s[p + i] = line[i]
  <2>1. p + i \in 1..L
    BY <1>6
  <2>2. s[p + i] = D[p + i]
    BY <1>1, <2>1 DEF Prefix
  <2>3. \A j \in 1..Len(headerLine(H[k])) : D[b[k - 1] + j] = headerLine(H[k])[j]
    BY DEF Layout
  <2>4. D[p + i] = line[i]
    BY <1>2, <1>3, <1>4, <2>3
  <2>5. QED
    BY <2>2, <2>4
<1>7. /\ n \in 1..MaxName /\ v \in 1..MaxValue
      /\ \A j \in 1..n : h.name[j] \notin {COLON, CR, LF}
      /\ \A j \in 1..v : h.value[j] # CR
      /\ h.value[1] \notin spaces
  BY <1>2, <1>3 DEF fits
<1>8. ASSUME NEW i \in 1..n, p + i <= L
      PROVE  s[p + i] = h.name[i] /\ s[p + i] \notin {COLON, CR, LF}
  <2>1. i \in 1..(n + v + 4)
    OBVIOUS
  <2>2. s[p + i] = line[i] /\ line[i] = h.name[i]
    BY <1>3, <1>6, <1>8, <2>1
  <2>3. QED
    BY <1>7, <2>2
<1>9. ASSUME NEW i \in 1..v, p + n + 2 + i <= L
      PROVE  s[p + n + 2 + i] = h.value[i] /\ s[p + n + 2 + i] # CR
  <2>1. n + 2 + i \in 1..(n + v + 4) /\ p + (n + 2 + i) = p + n + 2 + i
    OBVIOUS
  <2>2. s[p + (n + 2 + i)] = line[n + 2 + i]
    BY <1>6, <1>9, <2>1
  <2>3. line[n + 2 + i] = h.value[i]
    BY <1>3
  <2>4. QED
    BY <1>7, <2>1, <2>2, <2>3
<1>10. /\ p + n + 1 <= L => s[p + n + 1] = COLON
       /\ p + n + 2 <= L => s[p + n + 2] = SPACE
  <2>1. /\ n + 1 \in 1..(n + v + 4) /\ p + (n + 1) = p + n + 1
        /\ n + 2 \in 1..(n + v + 4) /\ p + (n + 2) = p + n + 2
    OBVIOUS
  <2>2. /\ p + (n + 1) <= L => s[p + (n + 1)] = line[n + 1]
        /\ p + (n + 2) <= L => s[p + (n + 2)] = line[n + 2]
    BY <1>6, <2>1
  <2>3. QED
    BY <1>3, <2>1, <2>2
<1>11. /\ p + n + v + 3 <= L => s[p + n + v + 3] = CR
       /\ p + n + v + 4 <= L => s[p + n + v + 4] = LF
  <2>1. /\ n + v + 3 \in 1..(n + v + 4) /\ p + (n + v + 3) = p + n + v + 3
        /\ n + v + 4 \in 1..(n + v + 4) /\ p + (n + v + 4) = p + n + v + 4
    OBVIOUS
  <2>2. /\ p + (n + v + 3) <= L => s[p + (n + v + 3)] = line[n + v + 3]
        /\ p + (n + v + 4) <= L => s[p + (n + v + 4)] = line[n + v + 4]
    BY <1>6, <2>1
  <2>3. QED
    BY <1>3, <2>1, <2>2
<1>12. p + n + 2 + 1 <= L => s[p + n + 2 + 1] \notin spaces
  <2>1. 1 \in 1..v
    BY <1>7
  <2>2. QED
    BY <1>7, <1>9, <2>1
<1>13. LineIn(s, p, h, n, v)
  BY <1>1, <1>3, <1>7, <1>8, <1>9, <1>10, <1>11, <1>12, Zenon DEF LineIn
<1>14. QED
  BY <1>2, <1>4, <1>5, <1>13

\* A turn of the loop of NGScanHeaders, behind k headers, that returns r.
Turn(r, s, H, b, k) ==
    \/ /\ k < Len(H) /\ b[k + 1] <= Len(s) /\ r.stored /\ r.at = b[k + 1]
       /\ r.name = H[k + 1].name /\ r.value = H[k + 1].value
    \/ /\ k = Len(H) /\ b[Len(H)] + 2 <= Len(s)
       /\ ~r.stored /\ r.at = b[Len(H)] + 2
    \/ Len(s) < b[Len(H)] + 2 /\ ~r.stored /\ r.at = Len(s)

\* The scanner goes from header to header, each of which it stores, to the
\* empty line behind the last; or it stores nothing and is at the end of what
\* the instance sent.
LEMMA ScanSteps ==
    ASSUME NEW s, NEW D, NEW st, NEW H, NEW B, NEW b, Received(s, D, st, H, B, b),
           NEW k \in 0..Len(H), b[k] <= Len(s)
    PROVE  Turn(ScanHeader(s, b[k]), s, H, b, k)
<1>0. /\ H \in Seq(Header) /\ b \in [0..Len(H) -> Nat]
      /\ Layout(D, st, H, B, b) /\ s \in Seq(Char) /\ Prefix(s, D)
  BY Zenon DEF Received
<1> USE <1>0
<1> SUFFICES \/ /\ k < Len(H) /\ b[k + 1] <= Len(s)
                /\ ScanHeader(s, b[k]).stored /\ ScanHeader(s, b[k]).at = b[k + 1]
                /\ ScanHeader(s, b[k]).name = H[k + 1].name
                /\ ScanHeader(s, b[k]).value = H[k + 1].value
             \/ /\ k = Len(H) /\ b[Len(H)] + 2 <= Len(s)
                /\ ~ScanHeader(s, b[k]).stored /\ ScanHeader(s, b[k]).at = b[Len(H)] + 2
             \/ /\ Len(s) < b[Len(H)] + 2
                /\ ~ScanHeader(s, b[k]).stored /\ ScanHeader(s, b[k]).at = Len(s)
  BY Zenon DEF Turn
<1>1. PICK L \in Nat, K \in Nat : L = Len(s) /\ K = Len(H)
  BY LenProperties
<1>2. PICK p \in 0..L, z \in Nat : p = b[k] /\ z = b[K]
  <2>1. b \in [0..K -> Nat] /\ k \in 0..K /\ b[k] <= L
    BY <1>1, Zenon
  <2>2. K \in 0..K
    OBVIOUS
  <2>3. PICK p \in Nat, z \in Nat : p = b[k] /\ z = b[K]
    BY <2>1, <2>2, Zenon
  <2>4. p \in 0..L
    BY <2>1, <2>3
  <2>5. QED
    BY <2>3, <2>4, Zenon
<1>3. CASE k < K
  <2>1. PICK j \in 1..K : j = k + 1 /\ j - 1 = k
    BY <1>1, <1>3
  <2>2. PICK n \in Nat, v \in Nat : LineIn(s, p, H[j], n, v) /\ b[j] = p + n + v + 4
    <3>1. PICK n \in Nat, v \in Nat :
            LineIn(s, b[j - 1], H[j], n, v) /\ b[j] = b[j - 1] + n + v + 4
      <4>1. j \in 1..Len(H)
        BY <1>1, Zenon
      <4>2. QED
        BY <4>1, PrefixLine
    <3>2. QED
      BY <1>2, <2>1, <3>1
  <2>3. PICK h \in Header : h = H[j]
    BY <1>1
  <2>4. CASE p + n + v + 4 <= L
    <3>1. ScanHeader(s, p) = [stored |-> TRUE, name |-> h.name, value |-> h.value,
                              at |-> p + n + v + 4, short |-> FALSE]
      BY <1>1, <2>2, <2>3, <2>4, HeaderRead
    <3>2. /\ ScanHeader(s, p).stored /\ ScanHeader(s, p).at = p + n + v + 4
          /\ ScanHeader(s, p).name = h.name /\ ScanHeader(s, p).value = h.value
      BY <3>1
    <3>3. QED
      BY <1>1, <1>2, <1>3, <2>1, <2>2, <2>3, <2>4, <3>2
  <2>5. CASE ~(p + n + v + 4 <= L)
    <3>1. ScanHeader(s, p) = stopped(s, L + 1)
      BY <1>1, <2>2, <2>5, HeaderCut
    <3>2. ~ScanHeader(s, p).stored /\ ScanHeader(s, p).at = L
      BY <1>1, <3>1 DEF stopped
    <3>3. b[j] <= z
      BY <1>1, <1>2 DEF Layout
    <3>4. L < z + 2
      BY <2>2, <2>5, <3>3
    <3>5. QED
      BY <1>1, <1>2, <3>2, <3>4
  <2>6. QED
    BY <2>4, <2>5
<1>4. CASE k = K
  <2>1. p = z
    BY <1>2, <1>4
  <2>2. z < L => s[z + 1] = CR
    <3> SUFFICES ASSUME z < L PROVE s[z + 1] = CR
      OBVIOUS
    <3>1. z + 1 \in 1..L
      BY <2>1
    <3>2. s[z + 1] = D[z + 1]
      BY <1>1, <3>1 DEF Prefix
    <3>3. D[z + 1] = CR
      BY <1>1, <1>2 DEF Layout
    <3>4. QED
      BY <3>2, <3>3
  <2>3. ScanHeader(s, z) = stopped(s, IF z < Len(s) THEN z + 2 ELSE z + 1)
    <3>1. z \in 0..Len(s) /\ (z < Len(s) => s[z + 1] = CR)
      BY <1>1, <2>1, <2>2
    <3>2. QED
      BY <3>1, HeadersEnd
  <2>4. CASE z + 2 <= L
    <3>1. ScanHeader(s, z) = stopped(s, z + 2)
      BY <1>1, <2>3, <2>4
    <3>2. ~ScanHeader(s, z).stored /\ ScanHeader(s, z).at = z + 2
      BY <1>1, <2>4, <3>1 DEF stopped
    <3>3. QED
      BY <1>1, <1>2, <1>4, <2>1, <2>4, <3>2
  <2>5. CASE ~(z + 2 <= L)
    <3>1. ~ScanHeader(s, z).stored /\ ScanHeader(s, z).at = L
      BY <1>1, <2>1, <2>3, <2>5 DEF stopped
    <3>2. L < z + 2
      BY <2>5
    <3>3. QED
      BY <1>1, <1>2, <2>1, <3>1, <3>2
  <2>6. QED
    BY <2>4, <2>5
<1>5. QED
  BY <1>1, <1>3, <1>4

-----------------------------------------------------------------------------
(* The length of the content                                               *)

\* A plain response has one header for a name.
LEMMA UniqueNames ==
    ASSUME NEW resp, plain(resp), NEW H \in Seq(Header), H = sentHeaders(resp),
           NEW i \in 1..Len(H), NEW j \in 1..Len(H), H[i].name = H[j].name
    PROVE  i = j
<1>1. PICK K \in Nat : K = Len(H)
  BY LenProperties
<1> DEFINE S == 1..K
           N == {h.name : h \in headerSet(resp)}
           f == [k \in S |-> H[k].name]
<1>2. N = {H[k].name : k \in S}
  BY <1>1 DEF headerSet
<1>3. f \in Surjection(S, N)
  BY <1>2 DEF Surjection
<1>4. IsFiniteSet(S) /\ Cardinality(S) = K
  <2>1. 1 \in Int /\ K \in Int
    OBVIOUS
  <2>2. IsFiniteSet(1..K) /\ Cardinality(1..K) = IF 1 > K THEN 0 ELSE K - 1 + 1
    BY <2>1, FS_Interval, Zenon
  <2>3. (IF 1 > K THEN 0 ELSE K - 1 + 1) = K
    OBVIOUS
  <2>4. QED
    BY <2>2, <2>3
<1>5. Cardinality(N) = K
  BY <1>1, Zenon DEF plain
<1>6. f \in Injection(S, N)
  <2> HIDE DEF S, N, f
  <2>1. QED
    BY <1>3, <1>4, <1>5, FS_SurjSameCardinalityImpliesInj
<1>7. i \in S /\ j \in S /\ f[i] = f[j]
  BY <1>1
<1> HIDE DEF S, N
<1>8. QED
  BY <1>6, <1>7 DEF Injection, IsInjective

\* atoi reads a numeral back.
LEMMA AtoiNumeral ==
    ASSUME NEW m \in 1..Len(Numerals)
    PROVE  atoi(<<Numerals[m]>>) = m - 1
<1>1. ASSUME NEW n \in 1..Len(Numerals), <<Numerals[m]>> = <<Numerals[n]>> PROVE n = m
  <2>1. Numerals[m] = Numerals[n]
    BY <1>1
  <2>2. QED
    BY <2>1, NumeralsAssumption, Zenon
<1> DEFINE P(n) == <<Numerals[m]>> = <<Numerals[n]>>
<1>2. P(m)
  OBVIOUS
<1>3. ASSUME NEW n \in 1..Len(Numerals), P(n) PROVE n = m
  BY <1>1, <1>3
<1> HIDE DEF P
<1>4. (CHOOSE n \in 1..Len(Numerals) : P(n)) = m
  BY <1>2, <1>3
<1>5. atoi(<<Numerals[m]>>) = (CHOOSE n \in 1..Len(Numerals) : P(n)) - 1
  BY <1>2, Zenon DEF P, atoi
<1>6. QED
  BY <1>4, <1>5

\* contentLength, of any table.
lengthIn(T) ==
    IF \E h \in T : h.name = contentLengthName
    THEN atoi((CHOOSE h \in T : h.name = contentLengthName).value) ELSE 0

\* The handler finds the length of the body, or takes it for 0 where the
\* header was not read.
LEMMA LengthIs ==
    ASSUME NEW resp \in Responses, plain(resp), NEW T, T \subseteq headerSet(resp)
    PROVE  /\ lengthIn(T) \in {0, Len(resp.body)} /\ Len(resp.body) \in Nat
           /\ T = headerSet(resp) => lengthIn(T) = Len(resp.body)
<1>1. resp \in Response /\ Len(resp.body) < Len(Numerals)
  BY ResponsesAssumption
<1>2. PICK H \in Seq(Header) :
        /\ H = sentHeaders(resp) /\ Len(H) \in Nat /\ Len(H) # 0
        /\ H[Len(H)].name = contentLengthName
        /\ H[Len(H)].value = <<Numerals[Len(resp.body) + 1]>>
  BY <1>1, SentHeadersAre, Zenon
<1>3. PICK m \in Nat : m = Len(resp.body) /\ m + 1 \in 1..Len(Numerals)
  <2>1. resp.body \in Seq(Char)
    BY <1>1 DEF Response
  <2>2. PICK m \in Nat : m = Len(resp.body)
    BY <2>1, LenProperties
  <2>3. Len(Numerals) \in Nat
    BY NumeralsAssumption, LenProperties
  <2>4. QED
    BY <1>1, <2>2, <2>3
<1>4. ASSUME NEW h \in T, h.name = contentLengthName PROVE atoi(h.value) = m
  <2>1. PICK i \in 1..Len(H) : h = H[i]
    BY <1>2 DEF headerSet
  <2>2. Len(H) \in 1..Len(H)
    BY <1>2
  <2>3. i = Len(H)
    BY <1>2, <1>4, <2>1, <2>2, UniqueNames
  <2>4. h.value = <<Numerals[m + 1]>>
    BY <1>2, <1>3, <2>1, <2>3
  <2>5. atoi(<<Numerals[m + 1]>>) = (m + 1) - 1
    BY <1>3, AtoiNumeral
  <2>6. QED
    BY <2>4, <2>5
<1>5. CASE \E h \in T : h.name = contentLengthName
  <2>1. PICK h \in T : h = (CHOOSE g \in T : g.name = contentLengthName)
                         /\ h.name = contentLengthName
    BY <1>5
  <2>2. lengthIn(T) = atoi(h.value)
    BY <1>5, <2>1, Zenon DEF lengthIn
  <2>3. QED
    BY <1>3, <1>4, <2>1, <2>2
<1>6. CASE ~\E h \in T : h.name = contentLengthName
  <2>1. lengthIn(T) = 0
    BY <1>6, Zenon DEF lengthIn
  <2>2. T # headerSet(resp)
    BY <1>2, <1>6 DEF headerSet
  <2>3. QED
    BY <1>3, <2>1, <2>2
<1>7. QED
  BY <1>5, <1>6

-----------------------------------------------------------------------------
(* Relaying a response                                                     *)

\* All that the instance has to send, and the body in it.
sent == deliver(answer, req.head)
content == IF req.head THEN << >> ELSE answer.body

\* Nothing is relayed before the instance has closed the connection; what it
\* sent by then is the response, or the beginning of it.
StreamInv ==
    /\ answer \in Responses \cup {NoAnswer}
    /\ conn # "closed" =>
         /\ out = NoOutput /\ pc \notin {"headers", "content"}
         /\ ~(pc = "idle" /\ result = "OK")
    /\ conn = "closed" =>
         /\ answer \in Responses /\ stream \in Seq(Char) /\ Prefix(stream, sent)
         /\ whole => Len(stream) = Len(sent)
    /\ pc \notin {"idle", "headers", "content"} => out = NoOutput /\ headers = {}

\* At p the stream is between two headers, and T holds those before.
Between(D, st, H, B, s, p, T) ==
    \E b \in [0..Len(H) -> Nat], k \in 0..Len(H) :
        /\ Layout(D, st, H, B, b)
        /\ p = b[k] /\ b[k] <= Len(s) /\ T = {H[i] : i \in 1..k}

\* The scanner is always between two headers, and its table holds those before.
HeadersInv ==
    pc = "headers" /\ plain(answer) =>
        /\ out = [status |-> <<answer.status>>, headers |-> {}, body |-> << >>]
        /\ Between(sent, answer.status, sentHeaders(answer), content, stream, at, headers)

\* It leaves with all of them, before the body, or at the end of the stream.
ContentInv ==
    pc = "content" /\ plain(answer) =>
        /\ out = [status |-> <<answer.status>>, headers |-> headers, body |-> << >>]
        /\ headers \subseteq headerSet(answer)
        /\ \E b \in [0..Len(sentHeaders(answer)) -> Nat] :
             /\ Layout(sent, answer.status, sentHeaders(answer), content, b)
             /\ \/ /\ headers = headerSet(answer) /\ at = b[Len(sentHeaders(answer))] + 2
                   /\ at <= Len(stream)
                \/ at = Len(stream) /\ at < b[Len(sentHeaders(answer))] + 2

\* The inductive invariant.
RelayInv == StreamInv /\ HeadersInv /\ ContentInv /\ ResponseRelayed /\ NothingInvented

\* All that it speaks of.
relayVars == <<pc, req, result, conn, answer, whole, stream, outVars>>

\* An answer, or the absence of one, has a body.
LEMMA AnswerBody ==
    ASSUME NEW a \in Responses \cup {NoAnswer}
    PROVE  a.body \in Seq(Char)
<1>1. CASE a \in Responses
  BY <1>1, ResponsesAssumption DEF Response
<1>2. CASE a = NoAnswer
  BY <1>2 DEF NoAnswer
<1>3. QED
  BY <1>1, <1>2

\* As long as nothing is relayed, nothing can be wrong with it.
LEMMA NoOutputInvents ==
    ASSUME NEW a \in Responses \cup {NoAnswer}, NEW o, o.headers = {}, o.body = << >>
    PROVE  /\ o.headers \subseteq headerSet(a) /\ Len(o.body) <= Len(a.body)
           /\ \A k \in 1..Len(o.body) : o.body[k] \in {a.body[k], ZERO}
<1>1. PICK m \in Nat : m = Len(a.body)
  BY AnswerBody, LenProperties
<1>2. Len(o.body) = 0
  OBVIOUS
<1>3. QED
  BY <1>1, <1>2

\* Nothing is relayed at the start.
LEMMA RelayInit == Init => RelayInv
<1> SUFFICES ASSUME Init PROVE RelayInv
  OBVIOUS
<1>1. pc = "idle" /\ result = "none" /\ conn = "none" /\ answer = NoAnswer /\ out = NoOutput
  BY DEF Init
<1>2. StreamInv /\ HeadersInv /\ ContentInv /\ ResponseRelayed
  BY <1>1 DEF StreamInv, HeadersInv, ContentInv, ResponseRelayed
<1>3. NothingInvented
  <2>1. out.headers = {} /\ out.body = << >>
    BY <1>1 DEF NoOutput
  <2>2. QED
    BY <1>1, <2>1, NoOutputInvents DEF NothingInvented
<1>4. QED
  BY <1>2, <1>3 DEF RelayInv

\* A state in which nothing has been relayed.
LEMMA QuietState ==
    ASSUME answer \in Responses \cup {NoAnswer}, out = NoOutput,
           pc \notin {"headers", "content"}, ~(pc = "idle" /\ result = "OK")
    PROVE  HeadersInv /\ ContentInv /\ ResponseRelayed /\ NothingInvented
<1>1. HeadersInv /\ ContentInv /\ ResponseRelayed
  BY DEF HeadersInv, ContentInv, ResponseRelayed
<1>2. out.headers = {} /\ out.body = << >>
  BY DEF NoOutput
<1>3. QED
  BY <1>1, <1>2, NoOutputInvents DEF NothingInvented

\* A new request, and the steps before the response is read, relay nothing.
LEMMA RelayBegin ==
    ASSUME RelayInv, NEW r, NEW c, Begin(r, c)
    PROVE  RelayInv'
<1>1. /\ pc' \in {"readBody", "idle"} /\ (pc' = "idle" => result' = "DECLINED")
      /\ conn' = "none" /\ answer' = NoAnswer /\ out' = NoOutput /\ headers' = {}
  <2>1. CASE r.ours
    BY <2>1, Zenon DEF Begin, Goto
  <2>2. CASE ~r.ours
    BY <2>2, Zenon DEF Begin, Return
  <2>3. QED
    BY <2>1, <2>2
<1>2. StreamInv'
  BY <1>1 DEF StreamInv
<1>3. (HeadersInv /\ ContentInv /\ ResponseRelayed /\ NothingInvented)'
  <2>1. (/\ answer \in Responses \cup {NoAnswer} /\ out = NoOutput
         /\ pc \notin {"headers", "content"} /\ ~(pc = "idle" /\ result = "OK"))'
    BY <1>1
  <2>2. QED
    BY <2>1, QuietState, PTL
<1>4. QED
  BY <1>2, <1>3 DEF RelayInv

\* The steps before the response is read relay nothing.
LEMMA RelayQuiet ==
    ASSUME RelayInv, pc \notin {"idle", "headers", "content"},
           pc' \notin {"headers", "content"}, ~(pc' = "idle" /\ result' = "OK"),
           UNCHANGED <<req, answer, whole, stream, outVars>>,
           conn' = conn \/ conn' = "open"
    PROVE  RelayInv'
<1>1. out' = NoOutput /\ headers' = {} /\ answer' \in Responses \cup {NoAnswer}
  BY DEF RelayInv, StreamInv, outVars
<1>2. conn' = "closed" =>
        /\ answer' \in Responses /\ stream' \in Seq(Char) /\ Prefix(stream', sent')
        /\ whole' => Len(stream') = Len(sent')
  <2>1. sent' = sent
    BY DEF sent
  <2>2. conn' = "closed" => conn = "closed"
    OBVIOUS
  <2>3. QED
    BY <2>1, <2>2 DEF RelayInv, StreamInv
<1>3. StreamInv'
  BY <1>1, <1>2 DEF StreamInv
<1>4. (HeadersInv /\ ContentInv /\ ResponseRelayed /\ NothingInvented)'
  <2>1. (/\ answer \in Responses \cup {NoAnswer} /\ out = NoOutput
         /\ pc \notin {"headers", "content"} /\ ~(pc = "idle" /\ result = "OK"))'
    BY <1>1
  <2>2. QED
    BY <2>1, QuietState, PTL
<1>5. QED
  BY <1>3, <1>4 DEF RelayInv

\* These are all the steps up to the flush behind the body.
LEMMA RelayBefore ==
    ASSUME RelayInv,
           \/ (\E n \in 1..MaxBody : ReadBody(n)) \/ ReadBodyEnd \/ ReadBodyError
           \/ ReadBodyDone \/ Address \/ SNSConnect \/ SNSConnectFails \/ SNSReply
           \/ SNSQueryFails \/ SNSReadError \/ SNSReplySuspect \/ Socket \/ SocketFails \/ Connect
           \/ ConnectFails \/ NewDescriptor \/ NewDescriptorFails \/ WriteHead
           \/ WriteBody \/ WriteFails
    PROVE  RelayInv'
<1> DEFINE quiet ==
      /\ pc \notin {"idle", "headers", "content"}
      /\ pc' \notin {"headers", "content"} /\ ~(pc' = "idle" /\ result' = "OK")
      /\ UNCHANGED <<req, answer, whole, stream, outVars>>
      /\ conn' = conn \/ conn' = "open"
<1>1. ASSUME \/ (\E n \in 1..MaxBody : ReadBody(n)) \/ ReadBodyEnd \/ ReadBodyError
             \/ ReadBodyDone
      PROVE  quiet
  BY <1>1 DEF ReadBody, ReadBodyEnd, ReadBodyError, ReadBodyDone, Return, Goto, instanceVars
<1>2. ASSUME \/ Address \/ SNSConnect \/ SNSConnectFails \/ SNSReply
             \/ SNSQueryFails \/ SNSReadError \/ SNSReplySuspect
      PROVE  quiet
  BY <1>2 DEF Address, SNSConnect, SNSConnectFails, SNSReply, SNSQueryFails, SNSReadError,
              SNSReplySuspect, Crash, Return, FreeAndReturn, Goto, unchangedButPc, instanceVars
<1>3. ASSUME \/ Socket \/ SocketFails \/ Connect \/ ConnectFails
      PROVE  quiet
  BY <1>3 DEF Socket, SocketFails, Connect, ConnectFails,
              Return, FreeAndReturn, Goto, unchangedButPc, instanceVars
<1>4. ASSUME \/ NewDescriptor \/ NewDescriptorFails \/ WriteHead \/ WriteBody \/ WriteFails
      PROVE  quiet
  BY <1>4 DEF NewDescriptor, NewDescriptorFails, WriteHead, WriteBody, WriteFails,
              Return, FreeAndReturn, Goto, unchangedButPc, instanceVars
<1>5. quiet
  <2> HIDE DEF quiet
  <2>1. QED
    BY <1>1, <1>2, <1>3, <1>4
<1>6. QED
  BY <1>5, RelayQuiet

\* Neither do steps that touch nothing of this.
LEMMA RelayUnchanged ==
    ASSUME RelayInv, UNCHANGED relayVars
    PROVE  RelayInv'
  BY DEF relayVars, outVars, RelayInv, StreamInv, HeadersInv, ContentInv, ResponseRelayed,
         NothingInvented, sent, content

\* The instance sends its response or a part of it.
LEMMA RelaySends ==
    ASSUME RelayInv, conn = "open", conn' = "closed", UNCHANGED <<pc, req, result, outVars>>,
           answer' \in Responses, stream' \in Seq(Char), Prefix(stream', sent'),
           whole' => Len(stream') = Len(sent')
    PROVE  RelayInv'
<1>1. /\ out' = NoOutput /\ pc' \notin {"headers", "content"}
      /\ ~(pc' = "idle" /\ result' = "OK")
      /\ pc' \notin {"idle", "headers", "content"} => headers' = {}
  BY DEF RelayInv, StreamInv, outVars
<1>2. StreamInv'
  BY <1>1 DEF StreamInv
<1>3. (HeadersInv /\ ContentInv /\ ResponseRelayed /\ NothingInvented)'
  <2>1. (/\ answer \in Responses \cup {NoAnswer} /\ out = NoOutput
         /\ pc \notin {"headers", "content"} /\ ~(pc = "idle" /\ result = "OK"))'
    BY <1>1
  <2>2. QED
    BY <2>1, QuietState, PTL
<1>4. QED
  BY <1>2, <1>3 DEF RelayInv

\* It sends a response, or dies within one; its other steps do not matter here.
LEMMA RelayInstance ==
    ASSUME RelayInv, Instance \/ InstanceStops \/ InstanceStarts
    PROVE  RelayInv'
<1>1. ASSUME NEW resp \in Responses, SendResponse(resp) PROVE RelayInv'
  <2>1. /\ conn = "open" /\ conn' = "closed" /\ answer' = resp
        /\ UNCHANGED <<pc, req, result, outVars>>
    BY <1>1 DEF SendResponse, handlerVars
  <2>2. stream' = sent' /\ sent' = deliver(resp, req.head)
    BY <1>1, <2>1 DEF SendResponse, sent
  <2>3. stream' \in Seq(Char) /\ Prefix(stream', sent') /\ Len(stream') = Len(sent')
    <3>1. PICK D \in Seq(Char) : D = sent' /\ D = stream'
      BY <2>2, DeliverLayout, Zenon
    <3>2. Prefix(D, D)
      BY LenProperties DEF Prefix
    <3>3. QED
      BY <3>1, <3>2
  <2>4. QED
    BY <2>1, <2>3, RelaySends
<1>2. ASSUME NEW resp \in Responses, NEW n \in 0..Len(deliver(resp, req.head)),
             NEW error \in BOOLEAN, InstanceDies(resp, n, error)
      PROVE  RelayInv'
  <2>1. /\ conn = "open" /\ conn' = "closed" /\ answer' = resp /\ ~whole'
        /\ UNCHANGED <<pc, req, result, outVars>>
    BY <1>2 DEF InstanceDies, handlerVars
  <2>2. PICK D \in Seq(Char) : D = deliver(resp, req.head)
    BY DeliverLayout, Zenon
  <2>3. sent' = D /\ stream' = SubSeq(D, 1, n)
    BY <1>2, <2>1, <2>2, Zenon DEF InstanceDies, sent
  <2>4. SubSeq(D, 1, n) \in Seq(Char) /\ Prefix(SubSeq(D, 1, n), D)
    <3>1. PICK L \in Nat : L = Len(D) /\ n \in 0..L
      BY <2>2, LenProperties
    <3>2. \A i \in 1..n : D[i] \in Char
      BY <3>1
    <3>3. PICK t : t = SubSeq(D, 1, n)
      OBVIOUS
    <3>4. /\ t \in Seq(Char) /\ Len(t) = IF 1 <= n THEN n - 1 + 1 ELSE 0
          /\ \A i \in 1..(n - 1 + 1) : t[i] = D[1 + i - 1]
      BY <3>1, <3>2, <3>3, SubSeqProperties
    <3>5. Len(t) = n /\ \A i \in 1..n : t[i] = D[i]
      BY <3>1, <3>4
    <3>6. Prefix(t, D)
      BY <3>1, <3>5 DEF Prefix
    <3>7. QED
      BY <3>3, <3>4, <3>6
  <2>5. QED
    BY <2>1, <2>3, <2>4, RelaySends
<1>3. CASE InstanceStops \/ InstanceStarts
  <2>1. UNCHANGED relayVars
    BY <1>3 DEF InstanceStops, InstanceStarts, handlerVars, relayVars
  <2>2. QED
    BY <2>1, RelayUnchanged
<1>4. QED
  BY <1>1, <1>2, <1>3 DEF Instance

\* What is known of a plain answer once the connection is closed.
LEMMA ClosedAnswer ==
    ASSUME RelayInv, conn = "closed", plain(answer)
    PROVE  /\ answer \in Responses /\ answer.status \in Char /\ answer.status \notin spaces
           /\ answer.body \in Seq(Char) /\ content \in Seq(Char)
           /\ stream \in Seq(Char) /\ Prefix(stream, sent) /\ sent \in Seq(Char)
           /\ whole => Len(stream) = Len(sent)
           /\ sentHeaders(answer) \in Seq(Header) /\ Len(sentHeaders(answer)) # 0
           /\ \A i \in 1..Len(sentHeaders(answer)) : fits(sentHeaders(answer)[i])
<1>1. /\ answer \in Responses /\ stream \in Seq(Char) /\ Prefix(stream, sent)
      /\ whole => Len(stream) = Len(sent)
  BY DEF RelayInv, StreamInv
<1>2. answer.status \in Char /\ answer.body \in Seq(Char)
  BY <1>1, ResponsesAssumption DEF Response
<1>3. content \in Seq(Char)
  <2>1. << >> \in Seq(Char)
    OBVIOUS
  <2>2. QED
    BY <1>2, <2>1, Zenon DEF content
<1>4. /\ sent \in Seq(Char)
      /\ sentHeaders(answer) \in Seq(Header) /\ Len(sentHeaders(answer)) # 0
  BY <1>1, DeliverLayout, Zenon DEF sent
<1>5. answer.status \notin spaces
  BY DEF plain
<1>6. ASSUME NEW i \in 1..Len(sentHeaders(answer)) PROVE fits(sentHeaders(answer)[i])
  <2>1. sentHeaders(answer)[i] \in headerSet(answer)
    BY DEF headerSet
  <2>2. QED
    BY <2>1, Zenon DEF plain
<1>7. QED
  BY <1>1, <1>2, <1>3, <1>4, <1>5, <1>6

\* NGScanResponseLine finds the status, and stops behind its line.
LEMMA StatusFound ==
    ASSUME RelayInv, conn = "closed", plain(answer), NGScanResponseLine(stream).ok
    PROVE  /\ NGScanResponseLine(stream).status = <<answer.status>>
           /\ NGScanResponseLine(stream).at = 9 /\ 9 <= Len(stream)
<1>1. PICK s \in Seq(Char), D \in Seq(Char), st \in Char :
        s = stream /\ D = sent /\ st = answer.status /\ st \notin spaces /\ Prefix(s, D)
  BY ClosedAnswer
<1>2. PICK L \in Nat : L = Len(s)
  BY LenProperties
<1>3. /\ D[1] = "HTTP/1.0" /\ D[2] = SPACE /\ D[3] = st
      /\ D[4] = SPACE /\ D[5] = "Request" /\ D[6] = SPACE /\ D[7] = "failed"
      /\ D[8] = CR /\ D[9] = LF
  <2>1. answer \in Responses
    BY ClosedAnswer
  <2>2. PICK b : Layout(sent, answer.status, sentHeaders(answer), content, b)
    BY <2>1, DeliverLayout, Zenon DEF sent, content
  <2>3. QED
    BY <1>1, <2>2, Zenon DEF Layout
<1>4. \A i \in 1..L : s[i] = D[i]
  BY <1>1, <1>2 DEF Prefix
<1>5. L >= 9
  <2> SUFFICES ASSUME L < 9 PROVE FALSE
    OBVIOUS
  <2>1. ASSUME NEW i \in 1..L PROVE s[i] # LF
    <3>1. i \in {1, 2, 3, 4, 5, 6, 7, 8} /\ s[i] = D[i]
      BY <1>4
    <3>2. st # LF
      BY <1>1 DEF spaces
    <3>3. QED
      BY <1>3, <3>1, <3>2 DEF SPACE, CR, LF
  <2>2. ~NGScanResponseLine(s).ok
    BY <1>2, <2>1, StatusLineShort
  <2>3. QED
    BY <1>1, <2>2, Zenon
<1>6. /\ s[1] = "HTTP/1.0" /\ s[2] = SPACE /\ s[3] = st
      /\ s[4] = SPACE /\ s[5] = "Request" /\ s[6] = SPACE /\ s[7] = "failed"
      /\ s[8] = CR /\ s[9] = LF
  <2>1. s[1] = D[1] /\ s[2] = D[2] /\ s[3] = D[3]
    BY <1>4, <1>5
  <2>2. s[4] = D[4] /\ s[5] = D[5] /\ s[6] = D[6]
    BY <1>4, <1>5
  <2>3. s[7] = D[7] /\ s[8] = D[8] /\ s[9] = D[9]
    BY <1>4, <1>5
  <2>4. QED
    BY <1>3, <2>1, <2>2, <2>3
<1>7. NGScanResponseLine(s).at = 9 /\ NGScanResponseLine(s).status = <<st>>
  <2>1. Len(s) >= 9 /\ st \notin spaces
    BY <1>1, <1>2, <1>5
  <2>2. QED
    BY <1>6, <2>1, StatusLineRead
<1>8. QED
  BY <1>1, <1>2, <1>5, <1>7

\* The status line: the handler goes on to the headers, or gives up.
LEMMA RelayStatus ==
    ASSUME RelayInv, ScanStatus
    PROVE  RelayInv'
<1> DEFINE line == NGScanResponseLine(stream)
<1>1. /\ pc = "status" /\ conn = "closed" /\ UNCHANGED <<headers, unchangedButOut>>
  BY DEF ScanStatus
<1>2. out = NoOutput /\ headers = {}
  BY <1>1 DEF RelayInv, StreamInv
<1>3. CASE ~line.ok
  <2>1. pc' = "idle" /\ result' \in {"500", "crashed"} /\ UNCHANGED <<at, out>>
    BY <1>3 DEF ScanStatus, Crash, FreeAndReturn
  <2>2. UNCHANGED <<req, answer, whole, stream, outVars>> /\ conn' = conn
    BY <1>1, <2>1 DEF unchangedButOut, instanceVars, outVars
  <2>3. QED
    BY <1>1, <2>1, <2>2, RelayQuiet
<1>4. CASE line.ok
  <2>1. /\ pc' = "headers" /\ result' = result /\ at' = line.at
        /\ out' = [out EXCEPT !.status = line.status]
    BY <1>4, Zenon DEF ScanStatus, Goto
  <2>2. UNCHANGED <<req, answer, whole, stream, conn, headers>>
    BY <1>1 DEF unchangedButOut, instanceVars
  <2>3. sent' = sent /\ content' = content
    BY <2>2 DEF sent, content
  <2>4. out' = [status |-> line.status, headers |-> {}, body |-> << >>]
    BY <1>2, <2>1 DEF NoOutput
  <2> HIDE DEF line
  <2>5. StreamInv'
    BY <1>1, <2>1, <2>2, <2>3 DEF RelayInv, StreamInv
  <2>6. ContentInv' /\ ResponseRelayed'
    BY <2>1 DEF ContentInv, ResponseRelayed
  <2>7. NothingInvented'
    <3>1. out'.headers = {} /\ out'.body = << >>
      BY <2>4
    <3>2. answer' \in Responses \cup {NoAnswer}
      BY <2>2 DEF RelayInv, StreamInv
    <3>3. QED
      BY <3>1, <3>2, NoOutputInvents DEF NothingInvented
  <2>8. HeadersInv'
    <3> SUFFICES ASSUME plain(answer)
                 PROVE  /\ out' = [status |-> <<answer.status>>, headers |-> {}, body |-> << >>]
                        /\ Between(sent, answer.status, sentHeaders(answer), content,
                                   stream, at', headers')
      BY <2>2, <2>3 DEF HeadersInv
    <3>1. line.status = <<answer.status>> /\ line.at = 9 /\ 9 <= Len(stream)
      BY <1>1, <1>4, StatusFound DEF line
    <3> DEFINE H == sentHeaders(answer)
    <3>2. H \in Seq(Header) /\ answer \in Responses
      BY <1>1, ClosedAnswer
    <3>3. PICK b \in [0..Len(H) -> Nat] : Layout(sent, answer.status, H, content, b)
      BY <3>2, DeliverLayout, Zenon DEF sent, content
    <3>4. b[0] = 9
      BY <3>3 DEF Layout
    <3>5. 0 \in 0..Len(H) /\ headers' = {H[i] : i \in 1..0}
      BY <1>2, <2>2, <3>2, LenProperties
    <3>6. at' = b[0] /\ b[0] <= Len(stream)
      BY <2>1, <3>1, <3>4
    <3>7. \E k \in 0..Len(H) : at' = b[k] /\ b[k] <= Len(stream) /\ headers' = {H[i] : i \in 1..k}
      BY <3>5, <3>6
    <3>8. out' = [status |-> <<answer.status>>, headers |-> {}, body |-> << >>]
      BY <2>4, <3>1, Zenon
    <3>9. QED
      BY <3>3, <3>7, <3>8, Zenon DEF Between
  <2>9. QED
    BY <2>5, <2>6, <2>7, <2>8 DEF RelayInv
<1>5. QED
  BY <1>3, <1>4

\* The table has one more header after each turn: no earlier one has its name.
LEMMA TableGrows ==
    ASSUME NEW resp, plain(resp), sentHeaders(resp) \in Seq(Header),
           NEW k \in 0..Len(sentHeaders(resp)), k < Len(sentHeaders(resp))
    PROVE  tableSet({sentHeaders(resp)[i] : i \in 1..k},
                    sentHeaders(resp)[k + 1].name, sentHeaders(resp)[k + 1].value)
             = {sentHeaders(resp)[i] : i \in 1..(k + 1)}
<1> DEFINE H == sentHeaders(resp)
           T == {H[i] : i \in 1..k}
           U == {H[i] : i \in 1..(k + 1)}
<1>1. PICK K \in Nat : K = Len(H)
  BY LenProperties
<1>2. PICK j \in 1..K : j = k + 1
  BY <1>1
<1>3. ASSUME NEW i \in 1..k PROVE H[i].name # H[j].name
  <2>1. i \in 1..K /\ i # j
    BY <1>1, <1>2
  <2>2. QED
    BY <1>1, <2>1, UniqueNames
<1>4. {h \in T : h.name # H[j].name} = T
  BY <1>3
<1>5. [name |-> H[j].name, value |-> H[j].value] = H[j]
  <2>1. H[j] \in Header
    BY <1>1
  <2>2. QED
    BY <2>1 DEF Header
<1>6. tableSet(T, H[j].name, H[j].value) = T \cup {H[j]}
  BY <1>4, <1>5, Zenon DEF tableSet
<1>7. T \cup {H[j]} = U
  <2>1. \A i \in 1..(k + 1) : i \in 1..k \/ i = j
    BY <1>2
  <2>2. \A i \in 1..k : i \in 1..(k + 1)
    OBVIOUS
  <2>3. j \in 1..(k + 1)
    BY <1>2
  <2>4. QED
    BY <2>1, <2>2, <2>3
<1>8. QED
  BY <1>2, <1>6, <1>7

\* A turn of NGScanHeaders.
LEMMA RelayHeaders ==
    ASSUME RelayInv, ScanHeaders
    PROVE  RelayInv'
<1> DEFINE r == ScanHeader(stream, at)
           H == sentHeaders(answer)
<1>1. pc = "headers" /\ UNCHANGED <<req, answer, whole, stream, conn>>
  BY DEF ScanHeaders, unchangedButOut, instanceVars
<1>2. sent' = sent /\ content' = content
  BY <1>1 DEF sent, content
<1>3. conn = "closed" /\ answer \in Responses
  BY <1>1 DEF RelayInv, StreamInv
<1>4. \/ pc' = "idle" /\ result' = "crashed" /\ UNCHANGED <<at, headers, out>>
      \/ /\ r.stored /\ pc' = "headers" /\ UNCHANGED out /\ at' = r.at
         /\ headers' = tableSet(headers, r.name, r.value)
      \/ /\ ~r.stored /\ pc' = "content" /\ out' = [out EXCEPT !.headers = headers]
         /\ at' = r.at /\ headers' = headers
  BY <1>1, Zenon DEF ScanHeaders, Crash, Goto
<1> HIDE DEF r
<1>5. StreamInv'
  BY <1>1, <1>2, <1>3, <1>4 DEF RelayInv, StreamInv
<1>6. ResponseRelayed'
  BY <1>4 DEF ResponseRelayed
<1>7. CASE ~plain(answer)
  BY <1>1, <1>5, <1>6, <1>7 DEF RelayInv, HeadersInv, ContentInv, NothingInvented
<1>8. CASE plain(answer)
  <2>1. /\ stream \in Seq(Char) /\ Prefix(stream, sent) /\ H \in Seq(Header)
        /\ \A i \in 1..Len(H) : fits(H[i])
        /\ content \in Seq(Char)
    BY <1>3, <1>8, ClosedAnswer
  <2>2. out = [status |-> <<answer.status>>, headers |-> {}, body |-> << >>]
    BY <1>1, <1>8 DEF RelayInv, HeadersInv
  <2>3. PICK b \in [0..Len(H) -> Nat], k \in 0..Len(H) :
          /\ Layout(sent, answer.status, H, content, b)
          /\ at = b[k] /\ b[k] <= Len(stream)
          /\ headers = {H[i] : i \in 1..k}
    BY <1>1, <1>8, Zenon DEF RelayInv, HeadersInv, Between
  <2>4. headers \subseteq headerSet(answer)
    <3>1. \A i \in 1..k : i \in 1..Len(H)
      BY <2>1, LenProperties
    <3>2. QED
      BY <2>3, <3>1 DEF headerSet
  <2>5. \/ /\ k < Len(H) /\ b[k + 1] <= Len(stream) /\ r.stored /\ r.at = b[k + 1]
           /\ r.name = H[k + 1].name /\ r.value = H[k + 1].value
        \/ /\ k = Len(H) /\ b[Len(H)] + 2 <= Len(stream)
           /\ ~r.stored /\ r.at = b[Len(H)] + 2
        \/ /\ Len(stream) < b[Len(H)] + 2 /\ ~r.stored /\ r.at = Len(stream)
    <3> HIDE DEF H
    <3>1. Received(stream, sent, answer.status, H, content, b)
      BY <2>1, <2>3, Zenon DEF Received
    <3>2. Turn(ScanHeader(stream, b[k]), stream, H, b, k)
      BY <2>3, <3>1, ScanSteps, Zenon
    <3>3. Turn(r, stream, H, b, k)
      BY <2>3, <3>2, Zenon DEF r
    <3>4. QED
      BY <3>3, Zenon DEF Turn
  <2>6. NothingInvented'
    <3>1. out'.headers \subseteq headerSet(answer) /\ out'.body = << >>
      BY <1>4, <2>2, <2>4
    <3>2. PICK m \in Nat : m = Len(answer.body)
      BY <1>3, AnswerBody, LenProperties
    <3>3. Len(out'.body) = 0
      BY <3>1
    <3>4. QED
      BY <1>1, <3>1, <3>2, <3>3 DEF NothingInvented
  <2>7. HeadersInv'
    <3> SUFFICES ASSUME pc' = "headers"
                 PROVE  /\ out' = [status |-> <<answer.status>>, headers |-> {}, body |-> << >>]
                        /\ Between(sent, answer.status, H, content, stream, at', headers')
      BY <1>1, <1>2 DEF HeadersInv
    <3>1. /\ r.stored /\ UNCHANGED out /\ at' = r.at
          /\ headers' = tableSet(headers, r.name, r.value)
      BY <1>4
    <3>2. /\ k < Len(H) /\ b[k + 1] <= Len(stream) /\ r.at = b[k + 1]
          /\ r.name = H[k + 1].name /\ r.value = H[k + 1].value
      BY <2>5, <3>1
    <3>3. headers' = {H[i] : i \in 1..(k + 1)}
      BY <1>8, <2>1, <2>3, <3>1, <3>2, TableGrows
    <3>4. k + 1 \in 0..Len(H)
      BY <2>1, <3>2, LenProperties
    <3>5. at' = b[k + 1]
      BY <3>1, <3>2
    <3>6. \E j \in 0..Len(H) : at' = b[j] /\ b[j] <= Len(stream) /\ headers' = {H[i] : i \in 1..j}
      BY <3>2, <3>3, <3>4, <3>5, Zenon
    <3>7. QED
      BY <2>2, <2>3, <3>1, <3>6, Zenon DEF Between
  <2>8. ContentInv'
    <3> SUFFICES ASSUME pc' = "content"
                 PROVE  /\ out' = [status |-> <<answer.status>>, headers |-> headers', body |-> << >>]
                        /\ headers' \subseteq headerSet(answer)
                        /\ \E c \in [0..Len(H) -> Nat] :
                             /\ Layout(sent, answer.status, H, content, c)
                             /\ \/ /\ headers' = headerSet(answer) /\ at' = c[Len(H)] + 2
                                   /\ at' <= Len(stream)
                                \/ at' = Len(stream) /\ at' < c[Len(H)] + 2
      BY <1>1, <1>2, Zenon DEF ContentInv
    <3>1. /\ ~r.stored /\ out' = [out EXCEPT !.headers = headers]
          /\ at' = r.at /\ headers' = headers
      BY <1>4
    <3>2. out' = [status |-> <<answer.status>>, headers |-> headers', body |-> << >>]
      BY <2>2, <3>1
    <3>3. \/ /\ headers' = headerSet(answer) /\ at' = b[Len(H)] + 2
             /\ at' <= Len(stream)
          \/ at' = Len(stream) /\ at' < b[Len(H)] + 2
      <4>1. CASE k = Len(H) /\ b[Len(H)] + 2 <= Len(stream) /\ r.at = b[Len(H)] + 2
        <5>1. headers = headerSet(answer)
          BY <2>3, <4>1, Zenon DEF headerSet
        <5>2. QED
          BY <3>1, <4>1, <5>1
      <4>2. CASE Len(stream) < b[Len(H)] + 2 /\ r.at = Len(stream)
        BY <3>1, <4>2
      <4>3. QED
        BY <2>5, <3>1, <4>1, <4>2
    <3>4. headers' \subseteq headerSet(answer)
      BY <2>4, <3>1
    <3>5. QED
      BY <2>3, <3>2, <3>3, <3>4, Zenon
  <2>9. QED
    BY <1>5, <1>6, <2>6, <2>7, <2>8 DEF RelayInv
<1>9. QED
  BY <1>7, <1>8

\* What is left of the stream behind the first p bytes.
LEMMA RestIs ==
    ASSUME NEW s \in Seq(Char), NEW p \in 0..Len(s)
    PROVE  /\ SubSeq(s, p + 1, Len(s)) \in Seq(Char)
           /\ Len(SubSeq(s, p + 1, Len(s))) = Len(s) - p
           /\ \A k \in 1..(Len(s) - p) : SubSeq(s, p + 1, Len(s))[k] = s[p + k]
<1>1. PICK L \in Nat : L = Len(s)
  BY LenProperties
<1>2. PICK t : t = SubSeq(s, p + 1, L)
  OBVIOUS
<1>3. p \in 0..L /\ p + 1 \in Int /\ L \in Int /\ \A i \in (p + 1)..L : s[i] \in Char
  BY <1>1
<1>4. /\ t \in Seq(Char) /\ Len(t) = IF p + 1 <= L THEN L - (p + 1) + 1 ELSE 0
      /\ \A i \in 1..(L - (p + 1) + 1) : t[i] = s[(p + 1) + i - 1]
  BY <1>2, <1>3, SubSeqProperties
<1>5. Len(t) = L - p
  BY <1>3, <1>4
<1>6. ASSUME NEW k \in 1..(L - p) PROVE t[k] = s[p + k]
  <2>1. k \in 1..(L - (p + 1) + 1) /\ (p + 1) + k - 1 = p + k
    BY <1>3
  <2>2. QED
    BY <1>4, <2>1
<1>7. QED
  BY <1>1, <1>2, <1>4, <1>5, <1>6

\* Behind the headers the stream holds the body, or the beginning of it.
LEMMA AtContent ==
    ASSUME RelayInv, pc = "content", plain(answer)
    PROVE  /\ answer \in Responses /\ answer.body \in Seq(Char) /\ content \in Seq(Char)
           /\ out = [status |-> <<answer.status>>, headers |-> headers, body |-> << >>]
           /\ headers \subseteq headerSet(answer)
           /\ rest \in Seq(Char) /\ Len(rest) <= Len(content)
           /\ \A k \in 1..Len(rest) : rest[k] = content[k]
           /\ whole => headers = headerSet(answer) /\ Len(rest) = Len(content)
           /\ contentLength \in {0, Len(answer.body)}
<1>1. conn = "closed"
  BY DEF RelayInv, StreamInv
<1>2. PICK s \in Seq(Char), D \in Seq(Char), B \in Seq(Char), H \in Seq(Header) :
        /\ s = stream /\ D = sent /\ B = content /\ H = sentHeaders(answer)
        /\ Prefix(s, D) /\ (whole => Len(s) = Len(D))
  BY <1>1, ClosedAnswer
<1>3. answer \in Responses /\ answer.body \in Seq(Char)
  BY <1>1, ClosedAnswer
<1>4. /\ out = [status |-> <<answer.status>>, headers |-> headers, body |-> << >>]
      /\ headers \subseteq headerSet(answer)
  BY DEF RelayInv, ContentInv
<1>5. PICK b \in [0..Len(H) -> Nat] :
        /\ Layout(D, answer.status, H, B, b)
        /\ \/ /\ headers = headerSet(answer) /\ at = b[Len(H)] + 2 /\ at <= Len(s)
           \/ at = Len(s) /\ at < b[Len(H)] + 2
  <2>1. PICK b \in [0..Len(sentHeaders(answer)) -> Nat] :
          /\ Layout(sent, answer.status, sentHeaders(answer), content, b)
          /\ \/ /\ headers = headerSet(answer) /\ at = b[Len(sentHeaders(answer))] + 2
                /\ at <= Len(stream)
             \/ at = Len(stream) /\ at < b[Len(sentHeaders(answer))] + 2
    BY Zenon DEF RelayInv, ContentInv
  <2>2. QED
    BY <1>2, <2>1
<1>6. PICK L \in Nat, M \in Nat, K \in Nat : L = Len(s) /\ M = Len(B) /\ K = Len(H)
  BY LenProperties
<1>7. PICK z \in Nat : z = b[K]
  <2>1. b \in [0..K -> Nat]
    BY <1>6, Zenon
  <2>2. K \in 0..K
    OBVIOUS
  <2>3. QED
    BY <2>1, <2>2, Zenon
<1>8. Len(D) = z + 2 + M /\ \A i \in 1..M : D[z + 2 + i] = B[i]
  BY <1>5, <1>6, <1>7 DEF Layout
<1>9. L <= z + 2 + M /\ \A i \in 1..L : s[i] = D[i]
  BY <1>2, <1>6, <1>8 DEF Prefix
<1>10. PICK p \in 0..L : p = at
  BY <1>5, <1>6, <1>7
<1>11. PICK t \in Seq(Char) :
         t = rest /\ Len(t) = L - p /\ \A k \in 1..(L - p) : t[k] = s[p + k]
  <2>1. /\ SubSeq(s, p + 1, Len(s)) \in Seq(Char)
        /\ Len(SubSeq(s, p + 1, Len(s))) = Len(s) - p
        /\ \A k \in 1..(Len(s) - p) : SubSeq(s, p + 1, Len(s))[k] = s[p + k]
    BY <1>6, RestIs
  <2>2. rest = SubSeq(s, p + 1, Len(s))
    BY <1>2, <1>10 DEF rest
  <2>3. QED
    BY <1>6, <2>1, <2>2
<1>12. L - p <= M
  BY <1>5, <1>6, <1>7, <1>9, <1>10
<1>13. ASSUME NEW k \in 1..(L - p) PROVE t[k] = B[k]
  <2>1. CASE p = z + 2
    <3>1. p + k \in 1..L /\ k \in 1..M
      BY <1>12
    <3>2. t[k] = s[p + k] /\ s[p + k] = D[p + k]
      BY <1>9, <1>11, <3>1
    <3>3. D[z + 2 + k] = B[k]
      BY <1>8, <3>1
    <3>4. QED
      BY <2>1, <3>2, <3>3
  <2>2. CASE p # z + 2
    BY <1>5, <1>6, <1>7, <1>10, <2>2
  <2>3. QED
    BY <2>1, <2>2
<1>14. whole => headers = headerSet(answer) /\ L - p = M
  <2> SUFFICES ASSUME whole PROVE headers = headerSet(answer) /\ L - p = M
    OBVIOUS
  <2>1. L = z + 2 + M
    BY <1>2, <1>6, <1>8
  <2>2. QED
    BY <1>5, <1>6, <1>7, <1>10, <2>1
<1>15. contentLength \in {0, Len(answer.body)}
  <2>1. contentLength = lengthIn(headers)
    BY Zenon DEF contentLength, lengthIn
  <2>2. QED
    BY <1>3, <1>4, <2>1, LengthIs
<1>16. /\ rest \in Seq(Char) /\ Len(rest) <= Len(content)
       /\ \A k \in 1..Len(rest) : rest[k] = content[k]
  BY <1>2, <1>6, <1>11, <1>12, <1>13
<1>17. whole => headers = headerSet(answer) /\ Len(rest) = Len(content)
  BY <1>2, <1>6, <1>11, <1>14
<1>18. QED
  BY <1>2, <1>3, <1>4, <1>15, <1>16, <1>17

\* The handler is done: the invariant holds if the body is right.
LEMMA RelayDone ==
    ASSUME RelayInv, pc = "content", pc' = "idle",
           UNCHANGED <<req, answer, whole, stream, conn, headers>>,
           plain(answer) =>
             /\ out'.status = out.status /\ out'.headers = out.headers
             /\ Len(out'.body) <= Len(answer.body)
             /\ \A k \in 1..Len(out'.body) : out'.body[k] \in {answer.body[k], ZERO}
             /\ whole /\ result' = "OK" => out'.body = content
    PROVE  RelayInv'
<1>1. sent' = sent /\ conn = "closed"
  BY DEF sent, RelayInv, StreamInv
<1>2. StreamInv'
  BY <1>1 DEF RelayInv, StreamInv
<1>3. HeadersInv' /\ ContentInv'
  BY DEF HeadersInv, ContentInv
<1>4. CASE ~plain(answer)
  BY <1>2, <1>3, <1>4 DEF RelayInv, ResponseRelayed, NothingInvented
<1>5. CASE plain(answer)
  <2>1. /\ out.status = <<answer.status>> /\ out.headers = headers
        /\ headers \subseteq headerSet(answer) /\ (whole => headers = headerSet(answer))
    <3>1. /\ out = [status |-> <<answer.status>>, headers |-> headers, body |-> << >>]
          /\ headers \subseteq headerSet(answer) /\ (whole => headers = headerSet(answer))
      BY <1>5, AtContent
    <3>2. QED
      BY <3>1
  <2>2. NothingInvented'
    BY <1>5, <2>1 DEF NothingInvented
  <2>3. ResponseRelayed'
    BY <1>5, <2>1 DEF ResponseRelayed, content
  <2>4. QED
    BY <1>2, <1>3, <2>2, <2>3 DEF RelayInv
<1>6. QED
  BY <1>4, <1>5

\* The four ways in which the content is sent.
LEMMA RelayContent ==
    ASSUME RelayInv, SendHeaderOnly \/ SendContent \/ SendContentShort \/ SendUntilEOF
    PROVE  RelayInv'
<1> DEFINE right ==
      /\ out'.status = out.status /\ out'.headers = out.headers
      /\ Len(out'.body) <= Len(answer.body)
      /\ \A k \in 1..Len(out'.body) : out'.body[k] \in {answer.body[k], ZERO}
      /\ whole /\ result' = "OK" => out'.body = content
<1>1. /\ pc = "content" /\ pc' = "idle"
      /\ UNCHANGED <<req, answer, whole, stream, conn, headers>>
  <2>1. CASE SendHeaderOnly
    BY <2>1 DEF SendHeaderOnly, Return, outVars, unchangedButOut, instanceVars
  <2>2. CASE SendContent
    BY <2>2 DEF SendContent, FreeAndReturn, unchangedButOut, instanceVars
  <2>3. CASE SendContentShort
    BY <2>3 DEF SendContentShort, FreeAndReturn, Crash, unchangedButOut, instanceVars
  <2>4. CASE SendUntilEOF
    BY <2>4 DEF SendUntilEOF, Return, unchangedButOut, instanceVars
  <2>5. QED
    BY <2>1, <2>2, <2>3, <2>4
<1>2. ASSUME plain(answer) PROVE right
  <2>1. PICK B \in Seq(Char), t \in Seq(Char), a \in Seq(Char) :
          /\ B = content /\ t = rest /\ a = answer.body
          /\ Len(t) <= Len(B) /\ \A k \in 1..Len(t) : t[k] = B[k]
          /\ whole => Len(t) = Len(B)
    BY <1>1, <1>2, AtContent
  <2>2. PICK c : c = contentLength /\ c \in {0, Len(a)}
    BY <1>1, <1>2, <2>1, AtContent
  <2>3. out = [status |-> <<answer.status>>, headers |-> headers, body |-> << >>]
    BY <1>1, <1>2, AtContent
  <2>4. PICK n \in Nat, m \in Nat : n = Len(t) /\ m = Len(a)
    BY LenProperties
  <2>5. CASE UNCHANGED out /\ (req.head \/ result' # "OK")
    <3>1. out'.body = << >> /\ Len(out'.body) = 0
      BY <2>3, <2>5
    <3>2. result' = "OK" => content = << >>
      BY <2>5 DEF content
    <3>3. QED
      BY <2>1, <2>4, <2>5, <3>1, <3>2
  <2>6. ASSUME NEW body, out' = [out EXCEPT !.body = body],
               Len(body) <= m, \A k \in 1..Len(body) : body[k] \in {a[k], ZERO},
               whole => body = content
        PROVE  right
    <3>1. out'.status = out.status /\ out'.headers = out.headers /\ out'.body = body
      BY <2>3, <2>6
    <3>2. QED
      BY <2>1, <2>4, <2>6, <3>1
  <2>7. ~req.head => B = a
    BY <2>1 DEF content
  <2> HIDE DEF right
  <2>8. CASE SendHeaderOnly
    <3>1. right
      <4>1. UNCHANGED out /\ req.head
        BY <2>8 DEF SendHeaderOnly, outVars
      <4>2. QED
        BY <2>5, <4>1
    <3>2. QED
      BY <3>1
  <2>9. CASE SendContent
    <3>1. /\ ~req.head /\ c > 0 /\ c <= Len(t)
          /\ out' = [out EXCEPT !.body = SubSeq(t, 1, c)]
      BY <2>1, <2>2, <2>9 DEF SendContent
    <3>2. c = m /\ n = m /\ B = a
      BY <2>1, <2>2, <2>4, <2>7, <3>1
    <3>3. SubSeq(t, 1, c) = a
      <4>1. \A k \in 1..Len(a) : t[0 + k] = a[k]
        BY <2>1, <2>4, <3>2
      <4>2. 0 \in Nat /\ 0 + Len(a) <= Len(t)
        BY <2>4, <3>2
      <4>3. text(t, 0, 0 + Len(a)) = a
        BY <4>1, <4>2, TextIs
      <4>4. 0 + 1 = 1 /\ 0 + Len(a) = c
        BY <2>4, <3>2
      <4>5. QED
        BY <4>3, <4>4 DEF text
    <3>4. /\ Len(a) <= m /\ (\A k \in 1..Len(a) : a[k] \in {a[k], ZERO})
          /\ (whole => a = content)
      BY <2>1, <2>4, <3>2
    <3>5. QED
      BY <2>6, <3>1, <3>3, <3>4
  <2>10. CASE SendContentShort
    <3> DEFINE body == [k \in 1..c |-> IF k <= Len(t) THEN t[k] ELSE ZERO]
    <3>1. /\ ~req.head /\ c > Len(t)
          /\ \/ result' = "crashed" /\ UNCHANGED out
             \/ out' = [out EXCEPT !.body = body]
      BY <2>1, <2>2, <2>10, Zenon DEF SendContentShort, Crash
    <3>2. c = m /\ n < m /\ B = a
      BY <2>1, <2>2, <2>4, <2>7, <3>1
    <3>3. ~whole
      BY <2>1, <2>4, <3>2
    <3>4. Len(body) = m
      BY <3>2
    <3>5. ASSUME NEW k \in 1..m PROVE body[k] \in {a[k], ZERO}
      <4>1. body[k] = IF k <= Len(t) THEN t[k] ELSE ZERO
        BY <3>2
      <4>2. k <= n => t[k] = a[k]
        BY <2>1, <2>4, <3>2
      <4>3. QED
        BY <2>4, <4>1, <4>2
    <3> HIDE DEF body
    <3>6. CASE out' = [out EXCEPT !.body = body]
      BY <2>6, <3>3, <3>4, <3>5, <3>6
    <3>7. CASE result' = "crashed" /\ UNCHANGED out
      BY <2>5, <3>7
    <3>8. QED
      BY <3>1, <3>6, <3>7
  <2>11. CASE SendUntilEOF
    <3>1. ~req.head /\ out' = [out EXCEPT !.body = t]
      BY <2>1, <2>11 DEF SendUntilEOF
    <3>2. B = a /\ Len(t) <= m /\ \A k \in 1..Len(t) : t[k] \in {a[k], ZERO}
      BY <2>1, <2>4, <2>7, <3>1
    <3>3. whole => t = content
      <4> SUFFICES ASSUME whole PROVE t = B
        BY <2>1
      <4>1. Len(t) = Len(B) /\ \A k \in 1..Len(t) : t[k] = B[k]
        BY <2>1
      <4>2. QED
        BY <4>1, SeqEqual
    <3>4. QED
      BY <2>6, <3>1, <3>2, <3>3
  <2>12. QED
    BY <2>8, <2>9, <2>10, <2>11
<1>3. QED
  BY <1>1, <1>2, RelayDone

\* Every step keeps the invariant.
LEMMA RelayInductive == Spec => []RelayInv
<1>1. RelayInv /\ [Next]_vars => RelayInv'
  <2>1. CASE UNCHANGED vars
    <3>1. UNCHANGED relayVars
      BY <2>1 DEF vars, handlerVars, instanceVars, outVars, relayVars
    <3>2. QED
      BY <3>1, RelayUnchanged
  <2>2. CASE Next
    BY <2>2, RelayBegin, RelayBefore, RelayStatus, RelayHeaders, RelayContent, RelayInstance
    DEF Next, Handler
  <2>3. QED
    BY <2>1, <2>2
<1>2. QED
  BY RelayInit, <1>1, PTL DEF Spec

\* A response the instance sent completely reaches the client as it was sent.
THEOREM RelayedCorrect == Spec => []ResponseRelayed
<1>1. RelayInv => ResponseRelayed
  BY DEF RelayInv
<1>2. QED
  BY <1>1, RelayInductive, PTL

\* Of one that was cut off the client gets nothing the instance did not send,
\* but zeros.
THEOREM NothingInventedCorrect == Spec => []NothingInvented
<1>1. RelayInv => NothingInvented
  BY DEF RelayInv
<1>2. QED
  BY <1>1, RelayInductive, PTL
-----------------------------------------------------------------------------
(***************************************************************************)
(* Coming to an end, whatever the instance sends: the body, the retries and *)
(* the headers are the handler's only loops.                                *)
(***************************************************************************)

\* A status line that is found ends within the stream.
LEMMA StatusLineRange ==
    ASSUME NEW s \in Seq(Char), NGScanResponseLine(s).ok
    PROVE  NGScanResponseLine(s).at \in 1..Len(s)
<1>1. PICK L \in Nat : L = Len(s)
  BY LenProperties
<1>2. MaxVersion \in Nat /\ MaxWord \in Nat
  BY ScanLimits
<1>3. PICK v \in 0..L : v = spanUntil(s, spaces, MaxVersion)[0]
  <2>1. 0 \in 0..L
    OBVIOUS
  <2>2. spanUntil(s, spaces, MaxVersion)[0] \in 0..L
    BY <1>1, <1>2, <2>1, SpanUntilRange
  <2>3. QED
    BY <2>2
<1>4. PICK c \in 0..L : c = skipSpaces(s)[v]
  <2>1. skipSpaces(s)[v] \in v..L
    BY <1>1, SpanEndRange DEF skipSpaces
  <2>2. QED
    BY <2>1
<1>5. PICK d \in 0..L : d = spanUntil(s, spaces, MaxWord)[c]
  <2>1. spanUntil(s, spaces, MaxWord)[c] \in c..L
    BY <1>1, <1>2, SpanUntilRange
  <2>2. QED
    BY <2>1
<1>6. PICK r \in 0..L : r = skipSpaces(s)[d]
  <2>1. skipSpaces(s)[d] \in d..L
    BY <1>1, SpanEndRange DEF skipSpaces
  <2>2. QED
    BY <2>1
<1>7. PICK e \in 0..L : e = spanUntil(s, spaces, MaxWord)[r]
  <2>1. spanUntil(s, spaces, MaxWord)[r] \in r..L
    BY <1>1, <1>2, SpanUntilRange
  <2>2. QED
    BY <2>1
<1>8. PICK f \in 0..L : f = spanUntil(s, endOfLine, Len(s))[e]
  <2>1. spanUntil(s, endOfLine, L)[e] \in e..L
    BY <1>1, SpanUntilRange
  <2>2. QED
    BY <1>1, <2>1
<1>9. NGScanResponseLine(s) = [ok |-> more(s, f), status |-> text(s, c, d), at |-> f + 1]
  BY <1>3, <1>4, <1>5, <1>6, <1>7, <1>8, Zenon DEF NGScanResponseLine
<1>10. more(s, f) /\ NGScanResponseLine(s).at = f + 1
  BY <1>9
<1>11. QED
  BY <1>1, <1>10 DEF more

\* What a turn that stores a header answers.
storing(n, v, m) ==
    [stored |-> TRUE, name |-> n, value |-> v, at |-> m, short |-> FALSE]

\* A turn of the scanner takes a character at least, and stores a header only
\* when all of it is there.
LEMMA TurnTakes ==
    ASSUME NEW s \in Seq(Char), NEW p \in 0..Len(s)
    PROVE  \E m \in Nat :
             /\ m > p
             /\ \/ ScanHeader(s, p) = stopped(s, m)
                \/ m <= Len(s) /\ \E n, v : ScanHeader(s, p) = storing(n, v, m)
<1>1. PICK L \in Nat : L = Len(s)
  BY LenProperties
<1>2. MaxName \in Nat /\ MaxValue \in Nat /\ p \in 0..L
  BY <1>1, ScanLimits
<1>3. \A i \in Nat : more(s, i) => i + 1 <= L
  BY <1>1 DEF more
<1>4. p + 1 \in Nat /\ p + 1 > p /\ p + 2 \in Nat /\ p + 2 > p
  BY <1>2
<1>5. CASE ~more(s, p)
  <2>1. ~nextIs(s, p, LF) /\ ~nextIs(s, p, CR)
    BY <1>5, Zenon DEF nextIs
  <2>2. ScanHeader(s, p) = stopped(s, p + 1)
    BY <1>5, <2>1, Zenon DEF ScanHeader, stopped
  <2>3. QED
    BY <1>4, <2>2, Zenon
<1>6. CASE nextIs(s, p, LF)
  <2>1. more(s, p) /\ ~nextIs(s, p, CR)
    BY <1>6 DEF nextIs, CR, LF
  <2>2. ScanHeader(s, p) = stopped(s, p + 1)
    BY <1>6, <2>1, Zenon DEF ScanHeader, stopped
  <2>3. QED
    BY <1>4, <2>2, Zenon
<1>7. CASE nextIs(s, p, CR)
  <2>1. more(s, p) /\ ~nextIs(s, p, LF)
    BY <1>7 DEF nextIs, CR, LF
  <2>2. ScanHeader(s, p) = stopped(s, p + 2)
    BY <1>7, <2>1, Zenon DEF ScanHeader, stopped
  <2>3. QED
    BY <1>4, <2>2, Zenon
<1>8. CASE more(s, p) /\ ~nextIs(s, p, LF) /\ ~nextIs(s, p, CR)
  <2>1. PICK c \in p..L : c = spanUntil(s, endOfName, MaxName)[p]
    <3>1. spanUntil(s, endOfName, MaxName)[p] \in p..L
      BY <1>1, <1>2, SpanUntilRange
    <3>2. QED
      BY <3>1
  <2>2. CASE c = p \/ ~nextIs(s, c, COLON)
    <3>1. ScanHeader(s, p) = stopped(s, c + 1)
      BY <1>8, <2>1, <2>2, Zenon DEF ScanHeader, stopped
    <3>2. c + 1 \in Nat /\ c + 1 > p
      BY <1>2, <2>1
    <3>3. QED
      BY <3>1, <3>2, Zenon
  <2>3. CASE c # p /\ nextIs(s, c, COLON)
    <3>1. c + 1 \in 0..L
      <4>1. c \in Nat /\ more(s, c)
        BY <1>2, <2>1, <2>3 DEF nextIs
      <4>2. QED
        BY <1>3, <4>1
    <3>2. PICK w \in (c + 1)..L : w = skipSpaces(s)[c + 1]
      <4>1. skipSpaces(s)[c + 1] \in (c + 1)..L
        BY <1>1, <3>1, SpanEndRange DEF skipSpaces
      <4>2. QED
        BY <4>1
    <3>3. w \in 0..L /\ w > p
      BY <1>2, <2>1, <3>2
    <3>4. PICK e \in w..L : e = spanUntil(s, endOfValue, MaxValue)[w]
      <4>1. spanUntil(s, endOfValue, MaxValue)[w] \in w..L
        BY <1>1, <1>2, <3>3, SpanUntilRange
      <4>2. QED
        BY <4>1
    <3>5. /\ e + 1 \in Nat /\ e + 1 > p /\ e + 2 \in Nat /\ e + 2 > p
          /\ (e + 1) + 1 = e + 2
      BY <1>2, <3>3, <3>4
    <3>6. CASE e = w
      <4>1. ScanHeader(s, p) = stopped(s, e + 1)
        BY <1>8, <2>1, <2>3, <3>2, <3>4, <3>6, Zenon DEF ScanHeader, stopped
      <4>2. QED
        BY <3>5, <4>1, Zenon
    <3>7. CASE e # w /\ lineEnd(s, e)
      <4>1. ScanHeader(s, p) = storing(text(s, p, c), text(s, w, e), e + 1)
        BY <1>8, <2>1, <2>3, <3>2, <3>4, <3>7, Zenon DEF ScanHeader, storing
      <4>2. e + 1 <= Len(s)
        <5>1. e \in Nat /\ more(s, e)
          BY <3>3, <3>4, <3>7 DEF lineEnd, nextIs
        <5>2. QED
          BY <1>1, <1>3, <5>1
      <4>3. QED
        BY <3>5, <4>1, <4>2, Zenon
    <3>8. CASE e # w /\ ~lineEnd(s, e) /\ ~nextIs(s, e, CR)
      <4>1. ScanHeader(s, p) = stopped(s, e + 1)
        BY <1>8, <2>1, <2>3, <3>2, <3>4, <3>8, Zenon DEF ScanHeader, stopped
      <4>2. QED
        BY <3>5, <4>1, Zenon
    <3>9. CASE e # w /\ ~lineEnd(s, e) /\ nextIs(s, e, CR) /\ lineEnd(s, e + 1)
      <4>1. ScanHeader(s, p) = storing(text(s, p, c), text(s, w, e), e + 2)
        BY <1>8, <2>1, <2>3, <3>2, <3>4, <3>9, Zenon DEF ScanHeader, storing
      <4>2. e + 2 <= Len(s)
        <5>1. more(s, e + 1)
          BY <3>9 DEF lineEnd, nextIs
        <5>2. QED
          BY <1>1, <1>3, <3>5, <5>1
      <4>3. QED
        BY <3>5, <4>1, <4>2, Zenon
    <3>10. CASE e # w /\ ~lineEnd(s, e) /\ nextIs(s, e, CR) /\ ~lineEnd(s, e + 1)
      <4>1. ScanHeader(s, p) = stopped(s, e + 2)
        BY <1>8, <2>1, <2>3, <3>2, <3>4, <3>10, Zenon DEF ScanHeader, stopped
      <4>2. QED
        BY <3>5, <4>1, Zenon
    <3>11. QED
      BY <3>6, <3>7, <3>8, <3>9, <3>10
  <2>4. QED
    BY <2>2, <2>3
<1>9. QED
  BY <1>5, <1>6, <1>7, <1>8

\* The scanner stays within what the instance sent.
AtInv == pc \in {"headers", "content"} => at \in 0..Len(stream)

\* A turn of the loop goes on behind the header it stored; the last one ends
\* within the stream.
LEMMA TurnAt ==
    ASSUME NEW s \in Seq(Char), NEW p \in 0..Len(s)
    PROVE  /\ ScanHeader(s, p).at \in 0..Len(s)
           /\ ScanHeader(s, p).stored => ScanHeader(s, p).at > p
<1>1. PICK L \in Nat : L = Len(s)
  BY LenProperties
<1>2. PICK m \in Nat :
        /\ m > p
        /\ \/ ScanHeader(s, p) = stopped(s, m)
           \/ m <= Len(s) /\ \E n, v : ScanHeader(s, p) = storing(n, v, m)
  BY TurnTakes
<1>3. CASE ScanHeader(s, p) = stopped(s, m)
  <2>1. /\ ScanHeader(s, p).at = IF m <= L THEN m ELSE L
        /\ ScanHeader(s, p).stored = FALSE
    BY <1>1, <1>3 DEF stopped
  <2>2. QED
    BY <1>1, <2>1
<1>4. CASE m <= Len(s) /\ \E n, v : ScanHeader(s, p) = storing(n, v, m)
  <2>1. ScanHeader(s, p).at = m
    BY <1>4 DEF storing
  <2>2. QED
    BY <1>1, <1>2, <1>4, <2>1
<1>5. QED
  BY <1>2, <1>3, <1>4

\* Before the status line is found, and after the request, nothing is scanned.
LEMMA AtElsewhere == ASSUME pc' \notin {"headers", "content"} PROVE AtInv'
  BY DEF AtInv

\* A step of the instance finds nobody reading headers or content, or changes
\* nothing they depend on.
LEMMA AtInstance ==
    ASSUME RelayInv, AtInv, Instance \/ InstanceStops \/ InstanceStarts
    PROVE  /\ AtInv' /\ UNCHANGED <<pc, toBeRead, tryCount, at, clientError>>
           /\ pc = "headers" => UNCHANGED stream
<1>1. UNCHANGED <<pc, toBeRead, tryCount, at, clientError>>
  BY Zenon DEF Instance, SendResponse, InstanceDies, InstanceStops, InstanceStarts,
               handlerVars, outVars
<1>2. pc \in {"headers", "content"} => UNCHANGED stream
  <2>1. conn = "open" => pc \notin {"headers", "content"}
    BY DEF RelayInv, StreamInv
  <2>2. Instance => conn = "open"
    BY Zenon DEF Instance, SendResponse, InstanceDies
  <2>3. InstanceStops \/ InstanceStarts => UNCHANGED stream
    BY Zenon DEF InstanceStops, InstanceStarts
  <2>4. QED
    BY <2>1, <2>2, <2>3, Zenon
<1>3. AtInv'
  BY <1>1, <1>2 DEF AtInv
<1>4. QED
  BY <1>1, <1>2, <1>3

\* Where the steps of the handler lead.
LEMMA AtStatus ==
    ASSUME RelayInv, ScanStatus
    PROVE  AtInv' /\ pc = "status" /\ pc' \in {"headers", "idle"}
<1>1. conn = "closed" /\ pc = "status" /\ UNCHANGED stream
  BY Zenon DEF ScanStatus, unchangedButOut, instanceVars
<1>2. stream \in Seq(Char)
  BY <1>1 DEF RelayInv, StreamInv
<1>3. CASE NGScanResponseLine(stream).ok
  <2>1. pc' = "headers" /\ at' = NGScanResponseLine(stream).at
    BY <1>3, Zenon DEF ScanStatus, Goto
  <2>2. NGScanResponseLine(stream).at \in 1..Len(stream)
    BY <1>2, <1>3, StatusLineRange
  <2>3. PICK L \in Nat : L = Len(stream)
    BY <1>2, LenProperties
  <2>4. at' \in 0..Len(stream)
    BY <2>1, <2>2, <2>3
  <2>5. QED
    BY <1>1, <2>1, <2>4, Zenon DEF AtInv
<1>4. CASE ~NGScanResponseLine(stream).ok
  <2>1. pc' = "idle"
    BY <1>4, Zenon DEF ScanStatus, Crash, FreeAndReturn
  <2>2. QED
    BY <1>1, <2>1 DEF AtInv
<1>5. QED
  BY <1>3, <1>4

\* A turn of the header loop ends it, or leaves fewer characters to scan.
LEMMA AtHeaders ==
    ASSUME RelayInv, AtInv, ScanHeaders
    PROVE  /\ AtInv' /\ pc = "headers"
           /\ \/ pc' \in {"idle", "content"}
              \/ pc' = "headers" /\ UNCHANGED stream /\ at' > at
<1>1. pc = "headers" /\ UNCHANGED stream
  BY Zenon DEF ScanHeaders, unchangedButOut, instanceVars
<1>2. stream \in Seq(Char) /\ at \in 0..Len(stream)
  BY <1>1 DEF RelayInv, StreamInv, AtInv
<1>3. PICK h : h = ScanHeader(stream, at)
  OBVIOUS
<1>4. h.at \in 0..Len(stream) /\ (h.stored => h.at > at)
  BY <1>2, <1>3, TurnAt
<1>5. CASE h.short /\ reset
  <2>1. pc' = "idle"
    BY <1>3, <1>5, Zenon DEF ScanHeaders, Crash
  <2>2. QED
    BY <1>1, <2>1, AtElsewhere
<1>6. CASE ~(h.short /\ reset)
  <2>1. at' = h.at /\ pc' = IF h.stored THEN pc ELSE "content"
    BY <1>3, <1>6, Zenon DEF ScanHeaders, Goto
  <2>2. AtInv'
    BY <1>1, <1>4, <2>1 DEF AtInv
  <2>3. QED
    BY <1>1, <1>4, <2>1, <2>2
<1>7. QED
  BY <1>5, <1>6

\* the stages a request has ahead of it ...
stagesLeft ==
    IF pc = "readBody" THEN 12
    ELSE IF pc = "address" THEN 11
    ELSE IF pc = "sns" THEN 10
    ELSE IF pc = "snsQuery" THEN 9
    ELSE IF pc = "socket" THEN 8
    ELSE IF pc = "connect" THEN 7
    ELSE IF pc = "wrap" THEN 6
    ELSE IF pc = "writeHead" THEN 5
    ELSE IF pc = "writeBody" THEN 4
    ELSE IF pc = "status" THEN 3
    ELSE IF pc = "headers" THEN 2
    ELSE IF pc = "content" THEN 1
    ELSE 0

\* ... and the turns its loop can still take in this one
turnsLeft ==
    IF pc = "readBody" THEN toBeRead
    ELSE IF pc = "connect" THEN 3 - tryCount
    ELSE IF pc = "headers" THEN Len(stream) - at
    ELSE 0

\* the handler enters a later stage, or takes one of the turns it has left
Advance ==
    \/ stagesLeft' < stagesLeft
    \/ stagesLeft' = stagesLeft /\ turnsLeft' < turnsLeft

\* Every step of the handler brings the request nearer to its end, and nobody
\* else takes it further away.
AnswerNearer ==
    \/ Advance
    \/ ~Handler /\ stagesLeft' = stagesLeft /\ turnsLeft' = turnsLeft

\* The loop that reads the body, unless the client's connection breaks.
LEMMA BodyAdvances ==
    ASSUME IInv, ~clientError',
           (\E n \in 1..MaxBody : ReadBody(n)) \/ ReadBodyEnd \/ ReadBodyError \/ ReadBodyDone
    PROVE  Advance /\ pc' \notin {"headers", "content"}
<1>1. ASSUME NEW n \in 1..MaxBody, ReadBody(n)
      PROVE  Advance /\ pc' \notin {"headers", "content"}
  <2>1. pc = "readBody" /\ pc' = "readBody" /\ toBeRead' = toBeRead - n
    BY <1>1, Zenon DEF ReadBody
  <2>2. toBeRead \in Int /\ n \in Int /\ n > 0
    BY HandlerBounds DEF IInv, TypeOK
  <2>3. turnsLeft' = toBeRead - n /\ turnsLeft = toBeRead /\ stagesLeft' = stagesLeft
    BY <2>1 DEF turnsLeft, stagesLeft
  <2>4. QED
    BY <2>1, <2>2, <2>3 DEF Advance
<1>2. CASE ReadBodyEnd
  BY <1>2 DEF ReadBodyEnd, Return, Advance, stagesLeft
<1>3. CASE ReadBodyError
  BY <1>3 DEF ReadBodyError
<1>4. CASE ReadBodyDone
  BY <1>4 DEF ReadBodyDone, Goto, Advance, stagesLeft
<1>5. QED
  BY <1>1, <1>2, <1>3, <1>4

\* Finding the instance, with its retries.
LEMMA FindAdvances ==
    ASSUME IInv,
           \/ Address \/ SNSConnect \/ SNSConnectFails \/ SNSReply \/ SNSQueryFails
           \/ SNSReadError \/ SNSReplySuspect \/ Socket \/ SocketFails \/ Connect
           \/ ConnectFails
    PROVE  Advance /\ pc' \notin {"headers", "content"}
<1> USE DEF Goto, Return, FreeAndReturn, Advance, stagesLeft
<1>1. CASE Address
  BY <1>1 DEF Address
<1>2. CASE SNSConnect
  BY <1>2 DEF SNSConnect
<1>3. CASE SNSConnectFails
  BY <1>3 DEF SNSConnectFails
<1>4. CASE SNSReply
  BY <1>4 DEF SNSReply
<1>5. CASE SNSQueryFails
  BY <1>5 DEF SNSQueryFails
<1>6. CASE SNSReplySuspect
  BY <1>6 DEF SNSReplySuspect
<1>7. CASE Socket
  BY <1>7 DEF Socket
<1>8. CASE SocketFails
  BY <1>8 DEF SocketFails
<1>9. CASE Connect
  BY <1>9 DEF Connect
<1>10. CASE ConnectFails
  BY <1>10 DEF ConnectFails, turnsLeft, IInv, TypeOK
<1>11. CASE SNSReadError
  BY <1>11 DEF SNSReadError, Crash
<1>12. QED
  BY <1>1, <1>2, <1>3, <1>4, <1>5, <1>6, <1>7, <1>8, <1>9, <1>10, <1>11

\* Sending the request.
LEMMA WriteAdvances ==
    ASSUME NewDescriptor \/ NewDescriptorFails \/ WriteHead \/ WriteBody \/ WriteFails
    PROVE  Advance /\ pc' \notin {"headers", "content"}
<1> USE DEF Goto, FreeAndReturn, Advance, stagesLeft
<1>1. CASE NewDescriptor
  BY <1>1 DEF NewDescriptor
<1>2. CASE NewDescriptorFails
  BY <1>2 DEF NewDescriptorFails
<1>3. CASE WriteHead
  BY <1>3 DEF WriteHead
<1>4. CASE WriteBody
  BY <1>4 DEF WriteBody
<1>5. CASE WriteFails
  BY <1>5 DEF WriteFails
<1>6. QED
  BY <1>1, <1>2, <1>3, <1>4, <1>5

\* Relaying the response: of the header loop every turn but the last stores a
\* header.
LEMMA RelayAdvances ==
    ASSUME RelayInv, AtInv,
           \/ ScanStatus \/ ScanHeaders \/ SendHeaderOnly \/ SendContent
           \/ SendContentShort \/ SendUntilEOF
    PROVE  Advance /\ AtInv'
<1>1. CASE ScanStatus
  BY <1>1, AtStatus DEF Advance, stagesLeft
<1>2. CASE ScanHeaders
  <2>1. /\ AtInv' /\ pc = "headers"
        /\ \/ pc' \in {"idle", "content"}
           \/ pc' = "headers" /\ UNCHANGED stream /\ at' > at
    BY <1>2, AtHeaders
  <2>2. CASE pc' \in {"idle", "content"}
    BY <2>1, <2>2 DEF Advance, stagesLeft
  <2>3. CASE pc' = "headers" /\ UNCHANGED stream /\ at' > at
    <3>1. PICK L \in Nat : L = Len(stream) /\ L = Len(stream)'
      <4>1. stream \in Seq(Char)
        BY <2>1 DEF RelayInv, StreamInv
      <4>2. QED
        BY <2>3, <4>1, LenProperties
    <3>2. at \in Nat /\ at' \in Nat
      <4>1. at \in 0..Len(stream) /\ at' \in 0..Len(stream)'
        BY <2>1, <2>3, Zenon DEF AtInv
      <4>2. at \in 0..L /\ at' \in 0..L
        BY <3>1, <4>1, Zenon
      <4>3. QED
        BY <4>2
    <3>3. turnsLeft = L - at /\ turnsLeft' = L - at' /\ stagesLeft' = stagesLeft
      BY <2>1, <2>3, <3>1 DEF turnsLeft, stagesLeft
    <3>4. \A i, j \in Nat : j > i => L - j < L - i
      OBVIOUS
    <3>5. L - at' < L - at
      BY <2>3, <3>2, <3>4, Zenon
    <3>6. QED
      BY <2>1, <3>3, <3>5, Zenon DEF Advance
  <2>4. QED
    BY <2>1, <2>2, <2>3
<1>3. ASSUME pc = "content", pc' = "idle" PROVE Advance /\ AtInv'
  BY <1>3, AtElsewhere DEF Advance, stagesLeft
<1>4. CASE SendHeaderOnly \/ SendContent \/ SendContentShort \/ SendUntilEOF
  <2>1. pc = "content" /\ pc' = "idle"
    BY <1>4, Zenon DEF SendHeaderOnly, SendContent, SendContentShort, SendUntilEOF, Return,
                       FreeAndReturn, Crash
  <2>2. QED
    BY <1>3, <2>1
<1>5. QED
  BY <1>1, <1>2, <1>4

\* Every step of the handler advances the request.
LEMMA HandlerAdvances ==
    ASSUME IInv, RelayInv, AtInv, Handler
    PROVE  AtInv' /\ (~clientError' => Advance)
<1>1. CASE (\E n \in 1..MaxBody : ReadBody(n)) \/ ReadBodyEnd \/ ReadBodyError \/ ReadBodyDone
  <2>1. pc' \notin {"headers", "content"}
    BY <1>1 DEF ReadBody, ReadBodyEnd, ReadBodyError, ReadBodyDone, Return, Goto
  <2>2. QED
    BY <1>1, <2>1, BodyAdvances, AtElsewhere
<1>2. CASE \/ Address \/ SNSConnect \/ SNSConnectFails \/ SNSReply \/ SNSQueryFails
           \/ SNSReadError \/ SNSReplySuspect \/ Socket \/ SocketFails \/ Connect
           \/ ConnectFails
  BY <1>2, FindAdvances, AtElsewhere
<1>3. CASE NewDescriptor \/ NewDescriptorFails \/ WriteHead \/ WriteBody \/ WriteFails
  BY <1>3, WriteAdvances, AtElsewhere
<1>4. CASE \/ ScanStatus \/ ScanHeaders \/ SendHeaderOnly \/ SendContent
           \/ SendContentShort \/ SendUntilEOF
  BY <1>4, RelayAdvances
<1>5. QED
  BY <1>1, <1>2, <1>3, <1>4 DEF Handler

\* The scanner stays within the stream in every behaviour.
LEMMA AtInductive == Spec => []AtInv
<1>1. Init => AtInv
  BY DEF Init, AtInv
<1>2. IInv /\ RelayInv /\ AtInv /\ [Next]_vars => AtInv'
  <2> SUFFICES ASSUME IInv, RelayInv, AtInv, [Next]_vars PROVE AtInv'
    OBVIOUS
  <2>1. CASE UNCHANGED vars
    BY <2>1 DEF vars, handlerVars, instanceVars, outVars, AtInv
  <2>2. ASSUME NEW r \in Requests, NEW c \in Locations, Begin(r, c) PROVE AtInv'
    BY <2>2, AtElsewhere DEF Begin, Goto, Return
  <2>3. QED
    BY <2>1, <2>2, HandlerAdvances, AtInstance DEF Next
<1>3. QED
  BY <1>1, <1>2, HandlerInductive, RelayInductive, PTL DEF Spec

\* The turns are counted by naturals.
LEMMA TurnsAreCounted == ASSUME IInv, RelayInv, AtInv PROVE turnsLeft \in Nat
<1>1. CASE pc = "headers"
  <2>1. PICK L \in Nat : L = Len(stream)
    BY <1>1, LenProperties DEF RelayInv, StreamInv
  <2>2. at \in 0..L
    BY <1>1, <2>1 DEF AtInv
  <2>3. QED
    BY <1>1, <2>1, <2>2 DEF turnsLeft
<1>2. CASE pc # "headers"
  BY <1>2, HandlerBounds DEF IInv, TypeOK, turnsLeft
<1>3. QED
  BY <1>1, <1>2

\* The handler comes to an end with whatever the instance sends, however it is
\* cut off: of the loops over the body, the connect() retries and the response
\* headers each turn leaves fewer of them, every other step enters a later
\* stage, and neither the instance nor its restarts undo any of it.  Only a
\* client whose connection breaks while its body is read escapes this.
THEOREM HandlerMakesProgress ==
    Spec => /\ []AtInv /\ [](turnsLeft \in Nat)
            /\ [][pc # "idle" /\ ~clientError' => AnswerNearer]_vars
<1>1. IInv /\ RelayInv /\ AtInv /\ [Next]_vars =>
        [pc # "idle" /\ ~clientError' => AnswerNearer]_vars
  <2> SUFFICES ASSUME IInv, RelayInv, AtInv, Next, pc # "idle", ~clientError'
               PROVE  AnswerNearer
    OBVIOUS
  <2>1. CASE Handler
    BY <2>1, HandlerAdvances DEF AnswerNearer
  <2>2. CASE ~Handler
    <3>1. Instance \/ InstanceStops \/ InstanceStarts
      BY <2>2, Zenon DEF Next, Begin
    <3>2. /\ UNCHANGED <<pc, toBeRead, tryCount, at>>
          /\ pc = "headers" => UNCHANGED stream
      BY <3>1, AtInstance
    <3>3. stagesLeft' = stagesLeft /\ turnsLeft' = turnsLeft
      BY <3>2 DEF stagesLeft, turnsLeft
    <3>4. QED
      BY <2>2, <3>3 DEF AnswerNearer
  <2>3. QED
    BY <2>1, <2>2
<1>2. IInv /\ RelayInv /\ AtInv => turnsLeft \in Nat
  BY TurnsAreCounted
<1>3. QED
  BY <1>1, <1>2, HandlerInductive, RelayInductive, AtInductive, PTL DEF Spec
=============================================================================
