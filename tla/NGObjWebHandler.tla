--------------------------- MODULE NGObjWebHandler ---------------------------
(***************************************************************************)
(* The Apache module that relays requests to application instances         *)
(* (mod_ngobjweb/handler.c, sns.c).  One child of Apache serves one        *)
(* request after the other: it reads the body from the client, finds an    *)
(* instance (by configuration, or by asking the session name server),      *)
(* sends it the request and relays the response.  The instance             *)
(* (WOHttpTransaction.m) answers over a connection of its own for each     *)
(* request, closes it, and can die and come back at any time.              *)
(***************************************************************************)
EXTENDS ScanHTTP, NGObjWebConfig, SequencesExt

CONSTANTS
    Locations,      \* the merged configurations requests are served under
    Responses,      \* what applications answer
    Numerals,       \* the texts of the numbers, from 0 on
    MaxBody,        \* bound: length of a request body
    MaxFds,         \* descriptors the child may have open
    MaxRequests,    \* bound: requests
    MaxFaults       \* bound: faults of malloc(), the name server, the instance

ASSUME LocationsAssumption ==
    Locations \subseteq DirConfig /\ \A c \in Locations : PortsInDomain(c)
ASSUME HandlerBounds ==
    /\ MaxBody \in Nat /\ MaxFds \in Nat /\ MaxRequests \in Nat /\ MaxFaults \in Nat

VARIABLES
    pc,             \* where ngobjweb_handler is; "idle" between requests
    req,            \* [ours, head, length] of the request
    cfg,            \* its directory configuration
    result,         \* what the handler returned last; "crashed" if the child died
    toBeRead,       \* bytes of the body the client has not sent yet
    clientError,    \* the client's connection is broken
    tryCount,       \* retries of connect()
    own, leaked,    \* descriptors this request has open; earlier ones left open
    up,             \* the instance accepts connections
    conn,           \* the connection to it: "none", "open", "closed" by it
    got,            \* what it has received: "nothing", "head", "all"
    answer, whole,  \* the response it made; whether all of it was sent
    stream, reset,  \* the bytes it sent; whether an error follows, not the end
    at,             \* bytes of stream the handler has read
    headers,        \* the table NGScanHeaders fills
    out,            \* [status, headers, body] sent to the client
    requests, faults

handlerVars == <<pc, req, cfg, result, toBeRead, clientError, tryCount, own, leaked>>
instanceVars == <<up, conn, got, answer, whole, stream, reset>>
outVars == <<at, headers, out>>
vars == <<handlerVars, instanceVars, outVars, requests, faults>>

ZERO == "NUL"
contentLengthName == <<"content-length">>

atoi(value) ==
    IF \E n \in 1..Len(Numerals) : value = <<Numerals[n]>>
    THEN (CHOOSE n \in 1..Len(Numerals) : value = <<Numerals[n]>>) - 1 ELSE 0

\* What an application answers; the length of a body has a numeral.
Header == [name : Seq(Char), value : Seq(Char)]
Response == [status : Char, headers : Seq(Header), body : Seq(Char)]

ASSUME WordsAssumption == {"HTTP/1.0", "Request", "failed", "content-length"} \subseteq Char
ASSUME NumeralsAssumption ==
    /\ Numerals \in Seq(Char)
    /\ \A m, n \in 1..Len(Numerals) : Numerals[m] = Numerals[n] => m = n
ASSUME ResponsesAssumption ==
    \A resp \in Responses : resp \in Response /\ Len(resp.body) < Len(Numerals)

\* A request for another handler or of a WebServerResource is not ours; a HEAD
\* request has no body.
NoRequest == [ours |-> FALSE, head |-> FALSE, length |-> 0]
Requests ==
    {NoRequest, [ours |-> TRUE, head |-> TRUE, length |-> 0]}
        \cup [ours : {TRUE}, head : {FALSE}, length : 0..MaxBody]
NoAnswer == [status |-> "none", headers |-> << >>, body |-> << >>]
NoOutput == [status |-> << >>, headers |-> {}, body |-> << >>]

Init ==
    /\ pc = "idle" /\ req = NoRequest /\ cfg = create_dir_config /\ result = "none"
    /\ toBeRead = 0 /\ clientError = FALSE /\ tryCount = 0 /\ own = 0 /\ leaked = 0
    /\ up \in BOOLEAN /\ conn = "none" /\ got = "nothing"
    /\ answer = NoAnswer /\ whole = FALSE /\ stream = << >> /\ reset = FALSE
    /\ at = 0 /\ headers = {} /\ out = NoOutput
    /\ requests = 0 /\ faults = 0

Fault == faults < MaxFaults /\ faults' = faults + 1

Goto(where) == pc' = where /\ UNCHANGED result

\* The descriptor left open, if any, stays so for the life of the child.
Return(r) ==
    /\ pc' = "idle" /\ result' = r
    /\ leaked' = leaked + own /\ own' = 0

\* Mutant: the descriptor is not closed on an error path.
FreeAndReturnOpen(r) ==
    /\ pc' = "idle" /\ result' = r
    /\ leaked' = leaked + own /\ own' = 0

\* NGBufferedDescriptor_free or close(), and a return.
FreeAndReturn(r) ==
    /\ pc' = "idle" /\ result' = r
    /\ own' = 0 /\ UNCHANGED leaked

\* The child dies: Apache starts another one, with no descriptors open.
Crash ==
    /\ pc' = "idle" /\ result' = "crashed"
    /\ own' = 0 /\ leaked' = 0

-----------------------------------------------------------------------------
(* The request                                                             *)

\* Everything of the last request is reset: the handler's locals, the
\* request's pool, and its connection.
Begin(r, location) ==
    /\ pc = "idle" /\ requests < MaxRequests
    /\ requests' = requests + 1
    /\ req' = r /\ cfg' = location
    /\ toBeRead' = r.length /\ clientError' = FALSE /\ tryCount' = 0
    /\ conn' = "none" /\ got' = "nothing" /\ answer' = NoAnswer /\ whole' = FALSE
    /\ stream' = << >> /\ reset' = FALSE /\ at' = 0 /\ headers' = {} /\ out' = NoOutput
    /\ IF r.ours THEN Goto("readBody") /\ UNCHANGED <<own, leaked>>
       ELSE Return("DECLINED")
    /\ UNCHANGED <<up, faults>>

\* ap_get_client_block delivers a part of the body.
ReadBody(n) ==
    /\ pc = "readBody" /\ ~clientError /\ n \in 1..toBeRead
    /\ toBeRead' = toBeRead - n
    /\ UNCHANGED <<pc, req, cfg, result, clientError, tryCount, own, leaked, instanceVars,
                   outVars, requests, faults>>

\* Mutant: a body that ends early is sent on.
ReadBodyEndIgnored ==
    /\ pc = "readBody" /\ ~clientError /\ toBeRead > 0
    /\ Goto("address")
    /\ UNCHANGED <<req, cfg, toBeRead, clientError, tryCount, own, leaked, instanceVars,
                   outVars, requests, faults>>

\* ... or 0: the client closed before it had sent all.
ReadBodyEnd ==
    /\ pc = "readBody" /\ ~clientError /\ toBeRead > 0
    /\ Return("500")
    /\ UNCHANGED <<req, cfg, toBeRead, clientError, tryCount, instanceVars, outVars,
                   requests, faults>>

\* ... or -1, which is subtracted too: the loop asks for more than before, and
\* the broken connection answers -1 again, for ever.
ReadBodyError ==
    /\ pc = "readBody" /\ ~clientError /\ toBeRead > 0
    /\ clientError' = TRUE /\ toBeRead' = toBeRead + 1
    /\ UNCHANGED <<pc, req, cfg, result, tryCount, own, leaked, instanceVars, outVars,
                   requests, faults>>

ReadBodyDone ==
    /\ pc = "readBody" /\ toBeRead = 0
    /\ Goto("address")
    /\ UNCHANGED <<req, cfg, toBeRead, clientError, tryCount, own, leaked, instanceVars,
                   outVars, requests, faults>>

-----------------------------------------------------------------------------
(* Finding the instance                                                    *)

unchangedButPc == <<req, cfg, toBeRead, clientError, tryCount, instanceVars, outVars,
                    requests>>

Address ==
    /\ pc = "address"
    /\ IF cfg.snsPort # NULL THEN Goto("sns") /\ UNCHANGED <<own, leaked>>
       ELSE IF cfg.appPort # NULL THEN Goto("socket") /\ UNCHANGED <<own, leaked>>
       ELSE Return("500")
    /\ UNCHANGED <<unchangedButPc, faults>>

canOpen == own + leaked < MaxFds

\* _sendSNSQuery up to the query; a descriptor that cannot be connected or
\* wrapped is closed.
SNSConnect ==
    /\ pc = "sns" /\ canOpen
    /\ Goto("snsQuery")
    /\ own' = own + 1
    /\ UNCHANGED <<unchangedButPc, leaked, faults>>

SNSConnectFails ==
    /\ pc = "sns"
    /\ canOpen => Fault
    /\ ~canOpen => UNCHANGED faults
    /\ FreeAndReturn("DECLINED")
    /\ UNCHANGED unchangedButPc

\* The reply names the address of an instance.
SNSReply ==
    /\ pc = "snsQuery"
    /\ Goto("socket")
    /\ own' = 0
    /\ UNCHANGED <<unchangedButPc, leaked, faults>>

\* A write fails, the name server closes, or the address is larger than 1024
\* bytes.
SNSQueryFails ==
    /\ pc = "snsQuery"
    /\ Fault
    /\ FreeAndReturn("DECLINED")
    /\ UNCHANGED unchangedButPc

\* All reads go through the buffer, where a read() error ends the child.
SNSReadError ==
    /\ pc = "snsQuery"
    /\ Fault
    /\ Crash
    /\ UNCHANGED unchangedButPc

\* The size in the reply is negative: safeRead reads nothing, and the size is
\* huge as the size_t addressLen.
SNSReplySuspect ==
    /\ pc = "snsQuery"
    /\ Fault
    /\ FreeAndReturn("500")
    /\ UNCHANGED unchangedButPc

Socket ==
    /\ pc = "socket" /\ canOpen
    /\ Goto("connect")
    /\ own' = own + 1
    /\ UNCHANGED <<unchangedButPc, leaked, faults>>

\* No descriptor is left, or the name server's reply has an unknown domain.
SocketFails ==
    /\ pc = "socket"
    /\ canOpen => cfg.snsPort # NULL /\ Fault
    /\ ~canOpen => UNCHANGED faults
    /\ Return("DECLINED")
    /\ UNCHANGED unchangedButPc

\* _connectInstance
Connect ==
    /\ pc = "connect" /\ up
    /\ Goto("wrap")
    /\ conn' = "open"
    /\ UNCHANGED <<req, cfg, toBeRead, clientError, tryCount, own, leaked, up, got, answer,
                   whole, stream, reset, outVars, requests, faults>>

\* Mutants: one retry too many; no limit.
ConnectFailsOnceMore ==
    /\ pc = "connect" /\ ~up
    /\ IF tryCount <= 3
       THEN tryCount' = tryCount + 1 /\ UNCHANGED <<pc, result, own, leaked>>
       ELSE FreeAndReturn("500") /\ UNCHANGED tryCount
    /\ UNCHANGED <<req, cfg, toBeRead, clientError, instanceVars, outVars, requests,
                   faults>>

ConnectFailsForever ==
    /\ pc = "connect" /\ ~up
    /\ tryCount' = 1 /\ UNCHANGED <<pc, result, own, leaked>>
    /\ UNCHANGED <<req, cfg, toBeRead, clientError, instanceVars, outVars, requests,
                   faults>>

\* connect() fails: three more tries, three seconds apart.
ConnectFails ==
    /\ pc = "connect" /\ ~up
    /\ IF tryCount < 3
       THEN tryCount' = tryCount + 1 /\ UNCHANGED <<pc, result, own, leaked>>
       ELSE FreeAndReturn("500") /\ UNCHANGED tryCount
    /\ UNCHANGED <<req, cfg, toBeRead, clientError, instanceVars, outVars, requests,
                   faults>>

-----------------------------------------------------------------------------
(* Sending the request                                                     *)

NewDescriptor ==
    /\ pc = "wrap"
    /\ Goto("writeHead")
    /\ UNCHANGED <<unchangedButPc, own, leaked, faults>>

\* malloc() fails: the descriptor is closed, by the constructor and again here.
NewDescriptorFails ==
    /\ pc = "wrap"
    /\ Fault
    /\ FreeAndReturn("500")
    /\ UNCHANGED unchangedButPc

\* What is written reaches an instance that is still there.
Receive(what) == got' = IF conn = "open" THEN what ELSE got

\* Request line, adaptor headers, SSL environment, the client's headers, flush.
WriteHead ==
    /\ pc = "writeHead"
    /\ Goto("writeBody")
    /\ Receive(IF req.length = 0 THEN "all" ELSE "head")
    /\ UNCHANGED <<req, cfg, toBeRead, clientError, tryCount, own, leaked, up, conn, answer,
                   whole, stream, reset, outVars, requests, faults>>

\* write() fails once the instance is gone.
WriteFails ==
    /\ pc = "writeHead" \/ (pc = "writeBody" /\ req.length > 0)
    /\ conn = "closed"
    /\ FreeAndReturn("500")
    /\ UNCHANGED <<unchangedButPc, faults>>

\* The result of the flush behind the body is not looked at.
WriteBody ==
    /\ pc = "writeBody"
    /\ Goto("status")
    /\ Receive("all")
    /\ UNCHANGED <<req, cfg, toBeRead, clientError, tryCount, own, leaked, up, conn, answer,
                   whole, stream, reset, outVars, requests, faults>>

-----------------------------------------------------------------------------
(* The instance                                                            *)

headerLine(h) == h.name \o <<COLON, SPACE>> \o h.value \o <<CR, LF>>

\* The headers of an answer: the application's, then the content-length.
sentHeaders(resp) ==
    Append(resp.headers,
           [name |-> contentLengthName, value |-> <<Numerals[Len(resp.body) + 1]>>])

\* -deliverResponse:toRequest:onStream:.  Every reason is a word at least.
deliver(resp, head) ==
    <<"HTTP/1.0", SPACE, resp.status>>
        \o <<SPACE, "Request", SPACE, "failed", CR, LF>>
        \o FlattenSeq([k \in 1..Len(sentHeaders(resp)) |-> headerLine(sentHeaders(resp)[k])])
        \o <<CR, LF>>
        \o (IF head THEN << >> ELSE resp.body)

\* -_sendResponse: deliver all and close.
SendResponse(resp) ==
    /\ conn = "open" /\ got = "all"
    /\ answer' = resp /\ whole' = TRUE /\ reset' = FALSE
    /\ stream' = deliver(resp, req.head)
    /\ conn' = "closed"
    /\ UNCHANGED <<up, got, handlerVars, outVars, requests, faults>>

\* The instance dies while it serves the request, or before: a part of an
\* answer may have been sent, and the handler may see an error behind it.
InstanceDies(resp, n, error) ==
    /\ conn = "open" /\ up
    /\ Fault
    /\ IF got = "all" THEN n \in 0..(Len(deliver(resp, req.head)) - 1) ELSE n = 0
    /\ answer' = resp /\ whole' = FALSE /\ reset' = error
    /\ stream' = SubSeq(deliver(resp, req.head), 1, n)
    /\ conn' = "closed" /\ up' = FALSE
    /\ UNCHANGED <<got, handlerVars, outVars, requests>>

InstanceStops ==
    /\ up /\ conn # "open" /\ Fault
    /\ up' = FALSE
    /\ UNCHANGED <<conn, got, answer, whole, stream, reset, handlerVars, outVars, requests>>

\* The watchdog or an administrator starts it again.
InstanceStarts ==
    /\ ~up /\ up' = TRUE
    /\ UNCHANGED <<conn, got, answer, whole, stream, reset, handlerVars, outVars, requests,
                   faults>>

-----------------------------------------------------------------------------
(* Relaying the response: the handler waits in read() until the instance   *)
(* has sent or closed                                                      *)

unchangedButOut == <<req, cfg, toBeRead, clientError, tryCount, instanceVars, requests,
                     faults>>

\* A read() error inside the buffer ends the child, see NGBufferedDescriptor.
ScanStatus ==
    LET line == NGScanResponseLine(stream) IN
    /\ pc = "status" /\ conn = "closed"
    /\ IF line.ok
       THEN /\ Goto("headers") /\ at' = line.at
            /\ out' = [out EXCEPT !.status = line.status]
            /\ UNCHANGED <<own, leaked>>
       ELSE /\ IF reset THEN Crash ELSE FreeAndReturn("500")
            /\ UNCHANGED <<at, out>>
    /\ UNCHANGED <<headers, unchangedButOut>>

\* apr_table_set replaces the value of a name.
tableSet(table, name, value) ==
    {h \in table : h.name # name} \cup {[name |-> name, value |-> value]}

ScanHeaders ==
    LET h == ScanHeader(stream, at) IN
    /\ pc = "headers"
    /\ IF h.short /\ reset
       THEN Crash /\ UNCHANGED <<at, headers, out>>
       ELSE /\ at' = h.at
            /\ headers' = IF h.stored THEN tableSet(headers, h.name, h.value) ELSE headers
            /\ IF h.stored THEN UNCHANGED <<pc, result, out>>
               ELSE Goto("content") /\ out' = [out EXCEPT !.headers = headers]
            /\ UNCHANGED <<own, leaked>>
    /\ UNCHANGED unchangedButOut

\* _copyHeadersToRequest: 0 stands for a missing header too.
contentLength ==
    IF \E h \in headers : h.name = contentLengthName
    THEN atoi((CHOOSE h \in headers : h.name = contentLengthName).value) ELSE 0

rest == SubSeq(stream, at + 1, Len(stream))

\* Nothing to send; the connection is not closed.
SendHeaderOnly ==
    /\ pc = "content" /\ req.head
    /\ Return("OK")
    /\ UNCHANGED <<outVars, unchangedButOut>>

\* safeRead of the whole content, close, send.
SendContent ==
    /\ pc = "content" /\ ~req.head
    /\ contentLength > 0 /\ contentLength <= Len(rest)
    /\ out' = [out EXCEPT !.body = SubSeq(rest, 1, contentLength)]
    /\ at' = at + contentLength
    /\ FreeAndReturn("OK")
    /\ UNCHANGED <<headers, unchangedButOut>>

\* The content ends early: the descriptor is freed, and freed again.  If the
\* child survives that, it sends the buffer, zeros where nothing was read.
SendContentShort ==
    /\ pc = "content" /\ ~req.head
    /\ contentLength > Len(rest)
    /\ at' = Len(stream)
    /\ \/ Crash /\ UNCHANGED out
       \/ /\ FreeAndReturn("OK")
          /\ out' = [out EXCEPT !.body = [k \in 1..contentLength |->
                       IF k <= Len(rest) THEN rest[k] ELSE ZERO]]
    /\ UNCHANGED <<headers, unchangedButOut>>

\* "no content length header, read until EOF", without closing.
SendUntilEOF ==
    /\ pc = "content" /\ ~req.head /\ contentLength = 0
    /\ out' = [out EXCEPT !.body = rest]
    /\ at' = Len(stream)
    /\ Return("OK")
    /\ UNCHANGED <<headers, unchangedButOut>>

-----------------------------------------------------------------------------

Instance ==
    \/ \E resp \in Responses :
        \/ SendResponse(resp)
        \/ \E n \in 0..Len(deliver(resp, req.head)), error \in BOOLEAN :
              InstanceDies(resp, n, error)

Handler ==
    \/ (\E n \in 1..MaxBody : ReadBody(n))
    \/ ReadBodyEnd \/ ReadBodyError \/ ReadBodyDone
    \/ Address \/ SNSConnect \/ SNSConnectFails \/ SNSReply \/ SNSQueryFails
    \/ SNSReadError \/ SNSReplySuspect \/ Socket \/ SocketFails \/ Connect \/ ConnectFails
    \/ NewDescriptor \/ NewDescriptorFails \/ WriteHead \/ WriteBody \/ WriteFails
    \/ ScanStatus \/ ScanHeaders
    \/ SendHeaderOnly \/ SendContent \/ SendContentShort \/ SendUntilEOF

Next ==
    \/ \E r \in Requests, c \in Locations : Begin(r, c)
    \/ Handler \/ Instance \/ InstanceStops \/ InstanceStarts

Spec == Init /\ [][Next]_vars

\* The client and the name server answer or close, the instance answers or
\* dies: the blocking calls of the handler return.
FairSpec == Spec /\ WF_vars(Handler) /\ WF_vars(Instance)

-----------------------------------------------------------------------------
(* Properties                                                              *)

PCs == {"idle", "readBody", "address", "sns", "snsQuery", "socket", "connect", "wrap",
        "writeHead", "writeBody", "status", "headers", "content"}

\* Every variable keeps its type; the child never holds more descriptors than
\* it may, and none of its own between two requests.
TypeOK ==
    /\ pc \in PCs
    /\ result \in {"none", "OK", "DECLINED", "500", "crashed"}
    /\ req \in Requests /\ cfg \in Locations \cup {create_dir_config}
    /\ toBeRead \in 0..(MaxBody + 1) /\ clientError \in BOOLEAN /\ tryCount \in 0..3
    /\ own \in 0..1 /\ leaked \in 0..MaxFds /\ own + leaked <= MaxFds
    /\ own = 1 <=> pc \in {"snsQuery", "connect", "wrap", "writeHead", "writeBody", "status",
                           "headers", "content"}
    /\ up \in BOOLEAN /\ conn \in {"none", "open", "closed"}
    /\ got \in {"nothing", "head", "all"} /\ whole \in BOOLEAN /\ reset \in BOOLEAN
    /\ answer \in Responses \cup {NoAnswer}
    /\ requests \in 0..MaxRequests /\ faults \in 0..MaxFaults

\* Every error path closes what the request opened: a request that is declined
\* or fails costs the child no descriptor, at whichever of the returns.  (A
\* successful one does: see SendHeaderOnly and SendUntilEOF.)
ErrorsCloseAll ==
    [][pc # "idle" /\ pc' = "idle" /\ result' \in {"DECLINED", "500"} => leaked' = leaked]_vars

\* Apache passes a declined request on to other handlers, so no instance may
\* have seen it; and an instance sees a request only when all of its body is
\* there, so it never waits for a client.
InstanceSeesAcceptedOnly ==
    /\ pc = "idle" /\ result = "DECLINED" => got = "nothing"
    /\ got # "nothing" => toBeRead = 0

headerSet(resp) == {sentHeaders(resp)[k] : k \in 1..Len(sentHeaders(resp))}

\* What the scanner is made for: a status and headers that follow the grammar
\* of HTTP, headers that fit its arrays, one for a name.
fits(h) ==
    /\ Len(h.name) \in 1..MaxName /\ Len(h.value) \in 1..MaxValue
    /\ \A k \in 1..Len(h.name) : h.name[k] \notin {COLON, CR, LF}
    /\ \A k \in 1..Len(h.value) : h.value[k] # CR
    /\ h.value[1] \notin spaces

plain(resp) ==
    /\ resp.status \notin spaces
    /\ \A h \in headerSet(resp) : fits(h)
    /\ Cardinality({h.name : h \in headerSet(resp)}) = Len(sentHeaders(resp))

\* A response the instance sent completely reaches the client as it was sent:
\* status, every header, and the body to the last byte and no further.
ResponseRelayed ==
    pc = "idle" /\ result = "OK" /\ whole /\ plain(answer) =>
        /\ out.status = <<answer.status>>
        /\ out.headers = headerSet(answer)
        /\ out.body = IF req.head THEN << >> ELSE answer.body

\* Of a response that was cut off the client gets no header the instance did
\* not send, and no byte of the body but the instance's and zeros.
NothingInvented ==
    plain(answer) =>
        /\ out.headers \subseteq headerSet(answer)
        /\ Len(out.body) <= Len(answer.body)
        /\ \A k \in 1..Len(out.body) : out.body[k] \in {answer.body[k], ZERO}

\* Every request is answered: by the instance, by an error after the retries,
\* or by the end of the child; unless the connection to the client breaks while
\* its body is read.
RequestsAnswered == (pc # "idle") ~> (pc = "idle" \/ clientError)
=============================================================================
