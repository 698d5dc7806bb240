------------------------------ MODULE Connection ------------------------------
(***************************************************************************)
(* One client and the process that serves it: clientServerInteraction      *)
(* (Server.c), readWithTimeOut (workWithSockets.c), the parsing of the     *)
(* request (request.c), the methods (methods.c) and the access-log record  *)
(* (accessLoggin.c).                                                       *)
(*                                                                         *)
(* The stream from the client is a sequence of units, cut by TCP and by    *)
(* read() between any two of them:                                         *)
(*     M  the method and the URI        V  a space and the version         *)
(*     T  the text of one header        N  CR LF                           *)
(*     B  a body                                                           *)
(* A request is  M V N (T N)* N [B].  A cut inside a unit is left to the   *)
(* parser's own module; the configuration files are present.               *)
(*                                                                         *)
(* The handler answers what it has after ONE read, unless the read filled  *)
(* the buffer to exactly LENGTH_STRING - 1 bytes; it drops the rest of a   *)
(* buffer after the blank line; the partial header it keeps in a static    *)
(* buffer survives the request.                                            *)
(***************************************************************************)
EXTENDS Integers, Sequences, SequencesExt, FiniteSets

CONSTANTS Requests,     \* the requests the client may send
          MaxRequests,  \* bound: requests sent on the connection
          MaxResponses, \* bound: responses after which the model stops
          Segmented,    \* may a read return less than what was sent?
          Pipelined,    \* may the client send before it has been answered?
          CanLeave,     \* may the client close its end?
          Signals,      \* may SIGINT interrupt select or semop?
          FreedValue    \* isKeapAliveUsing after free: "kept" or "any"

Methods == {"GET", "HEAD", "POST", "PUT", "BREW"}
    \* PUT stands for PUT, DELETE, OPTIONS, TRACE, CONNECT and PATCH, known to
    \* HTTP/1.1 only; BREW for any other word.
Versions == {"1.0", "1.1", "2.0", "junk"}
    \* 2.0 stands for any other HTTP/..., junk for any other word.
Uris == {"file", "empty", "missing", "denied", "dir", "dotdot", "bare", "long", "huge"}
    \* What the URI names: a file with or without contents, no file, a file
    \* that cannot be opened, a directory, a file through "/../"; a URI that
    \* does not begin with "/", one of 255 characters or more, and one that
    \* makes the first line 512 characters or more.
HeaderTexts == {"close", "keep", "chunked", "agent"}
    \* Connection: close, Connection: keep-alive, Transfer-Encoding: chunked,
    \* and a header that contains two spaces and has none of these effects (keep-alive,
    \* which sets only the time a read waits, is one of them).

Request == [method : Methods, version : Versions, uri : Uris,
            headers : Seq(HeaderTexts), body : BOOLEAN,
            exact : BOOLEAN]  \* is it LENGTH_STRING - 1 bytes long?

ASSUME ConstantsAssumption ==
    /\ Requests \subseteq Request
    /\ MaxRequests \in Nat
    /\ MaxResponses \in Nat
    /\ {Segmented, Pipelined, CanLeave, Signals} \subseteq BOOLEAN
    /\ FreedValue \in {"kept", "any"}

VARIABLES pc,      \* where the handler is in clientServerInteraction
          req,     \* *currentReq
          w3c,     \* the static W3CLog: the next record of the access log
          result,  \* the local variable result: the outcome of the last read
          carry,   \* the static oneParameterBuffer of requestParametersParse
          errno,
          sent,    \* the requests sent by the client
          net,     \* the units sent and not yet read
          client,  \* "open", "half" (no more data) or "gone" (closed)
          out,     \* the responses sent
          log      \* the records written to logW3C.txt

handlerVars == <<pc, req, w3c, result, carry, errno, out, log>>
clientVars == <<sent, net, client>>
vars == <<handlerVars, clientVars>>

HandlerAt == {"create", "read", "method", "log", "loop", "closed", "crashed", "cut"}
    \* cut: the process died when it had sent a part of the response.
Handlers == {"methodGet", "methodHead", "stub", "methodUnknow"}
    \* stub: methodPost and the six methods of HTTP/1.1 written like it.
Results == {"none", "data", "full", "eof", "error", "timeout"}
Errno == {"0", "ENOENT", "EINTR", "EACCES", "EFAULT"}
Statuses == {200, 400, 404, 414, 423, 501, 505}

FileSize == 1000        \* bytes in the file "file" names
ErrorSize == 37         \* the error page createHeader writes, and its Content-Length
StubSize == 35          \* the same page without its last CR LF, as RESPONSE_ERROR writes it
ChunkedSize(n) == IF n = 0 THEN 5 ELSE n + 12
    \* one chunk of three hexadecimal digits and the empty one

NoCarry == [h |-> "none", i |-> 0]
NoRecord == [status |-> 0, method |-> "-", uri |-> "-", bytes |-> 0]

\* Mutant: a connection is kept alive until the request says otherwise.
FreshRequest_keepAlive ==
    [version |-> "undefined", status |-> 200, keepAlive |-> TRUE, chunk |-> FALSE,
     MethodHTTP |-> "methodUnknow", URI |-> "null", i |-> 0, applied |-> {}]

\* The object createRequestObject returns.  i is the request being answered and
\* applied the requests whose headers took effect on it (both for the properties).
FreshRequest == [version |-> "undefined", status |-> 200, keepAlive |-> FALSE,
                 chunk |-> FALSE, MethodHTTP |-> "methodUnknow", URI |-> "null",
                 i |-> 0, applied |-> {}]

-----------------------------------------------------------------------------
(* The client. *)

Unit(kind, i, h) == [kind |-> kind, i |-> i, h |-> h]

\* The stream of the i-th request.
Units(r, i) ==
    <<Unit("M", i, "none"), Unit("V", i, "none"), Unit("N", i, "none")>>
    \o [j \in 1 .. 2 * Len(r.headers) |->
           IF j % 2 = 1 THEN Unit("T", i, r.headers[(j + 1) \div 2]) ELSE Unit("N", i, "none")]
    \o <<Unit("N", i, "none")>>
    \o IF r.body THEN <<Unit("B", i, "none")>> ELSE <<>>

SendRequest(r) ==
    /\ client = "open"
    /\ Len(sent) < MaxRequests
    /\ Pipelined \/ Len(out) >= Len(sent)
    /\ sent' = Append(sent, r)
    /\ net' = net \o Units(r, Len(sent) + 1)
    /\ UNCHANGED <<handlerVars, client>>

Leave(how) ==
    /\ CanLeave
    /\ client # "gone" /\ client # how
    /\ client' = how
    /\ UNCHANGED <<handlerVars, sent, net>>

-----------------------------------------------------------------------------
(* Parsing: parseParameters and what it calls. *)

\* What oneParameterBuffer holds when requestParametersParse reaches the j-th unit of
\* b, having held c at the start: one header, or a mixture ("junk") without effect.
Pending(c, b, j) ==
    IF j = 1 THEN c
    ELSE IF b[j - 1].kind = "N" THEN NoCarry
    ELSE [h |-> IF b[j - 1].kind = "T" /\ (IF j = 2 THEN c = NoCarry ELSE b[j - 2].kind = "N")
                THEN b[j - 1].h ELSE "junk",
          i |-> b[j - 1].i]

\* Mutant: the buffer is not emptied after the last header.
RequestParametersParse_keepsBuffer(q, c, b) ==
    LET ends == {j \in DOMAIN b : b[j].kind = "N" /\ Pending(c, b, j) # NoCarry}
        stop == Len(b) + 1
        H    == {"close", "keep", "chunked"}
        says == {j \in ends : Pending(c, b, j).h \in H}
    IN [q |-> [q EXCEPT !.applied = @ \cup {Pending(c, b, j).i : j \in says}],
        carry |-> IF ends = {} THEN Pending(c, b, stop) ELSE Pending(c, b, Max(ends)),
        ended |-> TRUE]

\* requestParametersParse and parseOneParameter: the headers ended before the blank
\* line take effect in order; ended is the return value END_REQUEST.
RequestParametersParse(q, c, b) ==
    LET blank   == {j \in DOMAIN b : b[j].kind = "N" /\ Pending(c, b, j) = NoCarry}
        stop    == IF blank = {} THEN Len(b) + 1 ELSE Min(blank)
        says(H) == {j \in 1 .. stop - 1 : b[j].kind = "N" /\ Pending(c, b, j).h \in H}
        wishes  == says({"close", "keep"})
    IN [q |-> [q EXCEPT
               !.keepAlive = IF wishes = {} THEN @ ELSE Pending(c, b, Max(wishes)).h = "keep",
               !.chunk = @ \/ says({"chunked"}) # {},
               !.applied = @ \cup {Pending(c, b, j).i : j \in says({"close", "keep", "chunked"})}],
        carry |-> Pending(c, b, stop),
        ended |-> blank # {}]

\* Mutant: HTTP/1.1 does not keep the connection alive by itself.
GetVersion_closes(q, v) ==
    CASE v = "1.0"  -> [q EXCEPT !.version = v]
      [] v = "1.1"  -> [q EXCEPT !.version = v, !.chunk = TRUE]
      [] v = "2.0"  -> [q EXCEPT !.status = 505]
      [] v = "junk" -> [q EXCEPT !.status = 400]

GetVersion(q, v) ==
    CASE v = "1.0"  -> [q EXCEPT !.version = v, !.keepAlive = FALSE, !.chunk = FALSE]
      [] v = "1.1"  -> [q EXCEPT !.version = v, !.keepAlive = TRUE, !.chunk = TRUE]
      [] v = "2.0"  -> [q EXCEPT !.status = 505]
      [] v = "junk" -> [q EXCEPT !.status = 400]

\* getMethodHTTP1_0 and getMethodHTTP1_1.
GetMethod(q, m) ==
    IF q.status # 200 THEN q
    ELSE CASE m = "GET" -> [q EXCEPT !.MethodHTTP = "methodGet"]
           [] m = "HEAD" -> [q EXCEPT !.MethodHTTP = "methodHead"]
           [] m = "POST" \/ (m = "PUT" /\ q.version = "1.1") -> [q EXCEPT !.MethodHTTP = "stub"]
           [] OTHER -> [q EXCEPT !.status = 501, !.MethodHTTP = "methodUnknow"]

GetURI(q, u) ==
    IF q.status # 200 THEN q
    ELSE CASE u = "long" -> [q EXCEPT !.status = 414]
           [] u = "bare" -> [q EXCEPT !.status = 400]
           [] OTHER      -> [q EXCEPT !.URI = u]

Kinds(line) == {line[j].kind : j \in DOMAIN line}
Huge(line) == \E j \in DOMAIN line : line[j].kind = "M" /\ sent[line[j].i].uri = "huge"

\* A request line that begins with the body of an earlier request names no known
\* method; any other line with two spaces ("agent") ends in no known version, and is
\* what was left of the request its first unit is of.
RequestLine(q, line) ==
    IF "M" \in Kinds(line)
    THEN LET m == CHOOSE j \in DOMAIN line : line[j].kind = "M"
             r == sent[line[m].i]
         IN GetURI(GetMethod(GetVersion([q EXCEPT !.i = line[m].i], r.version),
                             IF m = 1 THEN r.method ELSE "BREW"),
                   r.uri)
    ELSE GetVersion([q EXCEPT !.i = line[1].i], "junk")

\* proccessFirstString: the request after it, what is left of the buffer, and
\* whether a null pointer is used: strstr's when the line has not two spaces, and
\* endString's when the line is good and its end was not read.
ProccessFirstString(q, b) ==
    LET end  == SelectInSeq(b, LAMBDA u : u.kind = "N")
        line == IF end = 0 THEN b ELSE SubSeq(b, 1, end - 1)
        threeWords == {"M", "V"} \subseteq Kinds(line) \/ \E j \in DOMAIN line : line[j].h = "agent"
        read == RequestLine(q, line)
    IN CASE q.version # "undefined" -> [q |-> q, rest |-> b, null |-> FALSE]
         [] q.version = "undefined" /\ (line = <<>> \/ Huge(line)) ->
              [q |-> [q EXCEPT !.status = 400, !.i = b[1].i], rest |-> b, null |-> FALSE]
         [] OTHER ->
              [q |-> read, rest |-> SubSeq(b, end + 1, Len(b)),
               null |-> ~threeWords \/ (end = 0 /\ read.status = 200)]

\* parseParameters: again is TRUE for END_REQUEST and EXIT_READ, on which the
\* loop of clientServerInteraction tests its condition instead of breaking.
ParseParameters(q, c, b) ==
    LET first  == ProccessFirstString(q, b)
        fields == RequestParametersParse(first.q, c, first.rest)
    IN IF first.null THEN [q |-> first.q, carry |-> c, again |-> FALSE, null |-> TRUE]
       ELSE IF first.q.status # 200
            THEN [q |-> first.q, carry |-> c, again |-> TRUE, null |-> FALSE]
            ELSE [q |-> fields.q, carry |-> fields.carry, again |-> fields.ended, null |-> FALSE]

-----------------------------------------------------------------------------
(* The handler. *)

\* Mutant: the object of the previous request is used again.
CreateRequest_keepsObject ==
    /\ pc = "create"
    /\ Len(out) < MaxResponses
    /\ req' = [req EXCEPT !.status = 200]
    /\ pc' = "read"
    /\ UNCHANGED <<w3c, result, carry, errno, out, log, clientVars>>

CreateRequest ==
    /\ pc = "create"
    /\ Len(out) < MaxResponses
    /\ req' = FreshRequest
    /\ pc' = "read"
    /\ UNCHANGED <<w3c, result, carry, errno, out, log, clientVars>>

\* select returned 0: there was nothing to read for timeOfKeapAlive seconds.
ReadTimeout ==
    /\ pc = "read"
    /\ net = <<>> /\ client = "open"
    /\ result' = "timeout"
    /\ pc' = "log"
    /\ UNCHANGED <<req, w3c, carry, errno, out, log, clientVars>>

\* SIGINT ended select, or read met the reset of a client that is gone.
ReadError ==
    /\ pc = "read"
    /\ net = <<>>
    /\ \/ Signals /\ errno' = "EINTR"
       \/ client = "gone" /\ errno' = errno
    /\ result' = "error"
    /\ pc' = "method"
    /\ UNCHANGED <<req, w3c, carry, out, log, clientVars>>

\* read returned 0, which leaves both branches of the loop's body untaken.
ReadEof ==
    /\ pc = "read"
    /\ net = <<>> /\ client # "open"
    /\ result' = "eof"
    /\ pc' = "method"
    /\ UNCHANGED <<req, w3c, carry, errno, out, log, clientVars>>

\* Mutant: the loop reads on whatever the length was.
Full_always(b) == TRUE

\* Did read return exactly LENGTH_STRING - 1 bytes?
Full(b) == \E i \in DOMAIN sent : sent[i].exact /\ b = Units(sent[i], i)

\* read returned the first k units.
ReadData(k) ==
    /\ pc = "read"
    /\ k \in 1 .. Len(net)
    /\ Segmented \/ k = Len(net)
    /\ net' = SubSeq(net, k + 1, Len(net))
    /\ result' = IF Full(SubSeq(net, 1, k)) THEN "full" ELSE "data"
    /\ \/ /\ req.status # 200
          /\ pc' = "method"
          /\ UNCHANGED <<req, w3c, carry>>
       \/ /\ req.status = 200
          /\ \E p \in {ParseParameters(req, carry, SubSeq(net, 1, k))} :
                /\ req' = p.q
                /\ carry' = p.carry
                /\ w3c' = [w3c EXCEPT !.uri = IF p.q.URI = "null" THEN @ ELSE p.q.URI]
                /\ pc' = IF p.null THEN "crashed"
                         ELSE IF p.again /\ Full(SubSeq(net, 1, k)) THEN "read" ELSE "method"
    /\ UNCHANGED <<errno, out, log, sent, client>>

-----------------------------------------------------------------------------
(* The methods. *)

\* What the failure branch of getLengthFile makes of the status when errno is e,
\* whether or not fopen was called.
StatusByErrno(e, status) ==
    CASE e = "ENOENT" -> 404
      [] e = "EINTR"  -> 423
      [] OTHER        -> status

\* Mutant: errno is looked at whether or not the file was opened.
GetLengthFile_alwaysTestsErrno(q) ==
    LET found(status, e, size) == [status |-> StatusByErrno(e, status), errno |-> e, size |-> size]
    IN CASE q.URI = "file"    -> found(q.status, errno, FileSize)
         [] q.URI = "empty"   -> found(q.status, errno, 0)
         [] q.URI = "missing" -> found(q.status, "ENOENT", -1)
         [] OTHER             -> found(404, errno, -1)

\* getLengthFile for *currentReq = q: status, errno and size (-1: ERROR_RUN).  For
\* "dir" and "dotdot" no file is opened, so errno is whatever an earlier call left.
GetLengthFile(q) ==
    LET failed(status, e) == [status |-> StatusByErrno(e, status), errno |-> e, size |-> -1]
    IN CASE q.URI = "file"    -> [status |-> q.status, errno |-> errno, size |-> FileSize]
         [] q.URI = "empty"   -> [status |-> q.status, errno |-> errno, size |-> 0]
         [] q.URI = "missing" -> failed(q.status, "ENOENT")
         [] q.URI = "denied"  -> failed(q.status, "EACCES")
         [] q.URI = "dir"     -> failed(404, errno)
         [] q.URI = "dotdot"  -> failed(400, errno)
         [] q.URI = "null"    -> failed(404, "EFAULT")

\* The head createHeader writes for the status and the size, before a body of n
\* bytes; keep: does it say "Connection: keep-alive"?
Response(status, size, n) ==
    IF status = 200
    THEN [i |-> req.i, status |-> 200, keep |-> req.keepAlive, body |-> n,
          framing |-> IF req.chunk THEN "chunked" ELSE IF size > 0 THEN "length" ELSE "none",
          declared |-> IF req.chunk \/ size < 0 THEN 0 ELSE size]
    ELSE [i |-> req.i, status |-> status, keep |-> FALSE, body |-> n,
          framing |-> "length", declared |-> ErrorSize]

\* send to a client that is gone raises SIGPIPE, which the server does not handle: the
\* process dies before the first byte of the response or when a part of it was sent.
BrokenPipe(response) ==
    /\ client = "gone"
    /\ \/ pc' = "crashed" /\ out' = out
       \/ pc' = "cut" /\ out' = Append(out, [response EXCEPT !.body = 0])
    /\ UNCHANGED <<req, w3c>>

\* Mutant: the record is made complete before the response is sent.
Respond_recordsFirst(response, method, bytes) ==
    /\ w3c' = [w3c EXCEPT !.method = method, !.bytes = @ + bytes]
    /\ req' = [req EXCEPT !.status = response.status]
    /\ \/ pc' = "log" /\ out' = Append(out, response)
       \/ pc' = "log" /\ out' = out /\ client = "gone"
    /\ UNCHANGED <<result, carry, log, clientVars>>

\* The method sends the response and records its name and the bytes it counted.
Respond(response, method, bytes) ==
    /\ \/ /\ out' = Append(out, response)
          /\ w3c' = [w3c EXCEPT !.method = method, !.bytes = @ + bytes]
          /\ req' = [req EXCEPT !.status = response.status]
          /\ pc' = "log"
       \/ BrokenPipe(response)
    /\ UNCHANGED <<result, carry, log, clientVars>>

\* The bytes methodGet sends after the head: the file in chunks or whole, or nothing
\* when readFile cannot open it; for an error the page is part of the head.
BodySize(f) ==
    IF f.status # 200 THEN ErrorSize
    ELSE IF f.size < 0 THEN 0
         ELSE IF req.chunk THEN ChunkedSize(f.size) ELSE f.size

\* methodGet counts what it sends after the head, and readFile's -1 as well.
MethodGet ==
    /\ pc = "method" /\ req.MethodHTTP = "methodGet"
    /\ LET f == GetLengthFile(req)
       IN /\ errno' = f.errno
          /\ Respond(Response(f.status, f.size, BodySize(f)), "GET",
                     IF f.status # 200 THEN 0 ELSE IF f.size < 0 THEN -1 ELSE BodySize(f))

MethodHead ==
    /\ pc = "method" /\ req.MethodHTTP = "methodHead"
    /\ LET f == GetLengthFile(req)
       IN /\ errno' = f.errno
          /\ Respond(Response(f.status, f.size, IF f.status = 200 THEN 0 ELSE ErrorSize), "HEAD", 0)

\* methodPost, methodPut, ..., methodPatch.
MethodStub ==
    /\ pc = "method" /\ req.MethodHTTP = "stub"
    /\ Respond(Response(501, -1, StubSize), sent[req.i].method, 0)
    /\ UNCHANGED errno

MethodUnknow ==
    /\ pc = "method" /\ req.MethodHTTP = "methodUnknow"
    /\ Respond(Response(400, -1, StubSize), "UNKNOW", 0)
    /\ UNCHANGED errno

\* A null URI: strstr(currentReq->URI, "/../") faults, unless the st_mode that the
\* failed stat left unset happens to say "directory" (then GetLengthFile above).
NullUri ==
    /\ pc = "method" /\ req.MethodHTTP \in {"methodGet", "methodHead"}
    /\ req.URI = "null"
    /\ pc' = "crashed"
    /\ UNCHANGED <<req, w3c, result, carry, errno, out, log, clientVars>>

-----------------------------------------------------------------------------
(* After the response. *)

\* Mutant: clearW3CLog is not called.
Log_keepsRecord ==
    /\ pc = "log"
    /\ log' = IF result = "timeout" THEN log
              ELSE Append(log, [w3c EXCEPT !.status = req.status])
    /\ pc' = "loop"
    /\ UNCHANGED <<req, w3c, result, carry, errno, out, clientVars>>

\* Mutant: a read that timed out is recorded as well.
Log_always ==
    /\ pc = "log"
    /\ log' = Append(log, [w3c EXCEPT !.status = req.status])
    /\ w3c' = NoRecord
    /\ pc' = "loop"
    /\ UNCHANGED <<req, result, carry, errno, out, clientVars>>

\* HTTPStatus is set, writeInLogFile is called unless the read timed out, and
\* clearW3CLog makes the record ready for the next request.
Log ==
    /\ pc = "log"
    /\ log' = IF result = "timeout" THEN log
              ELSE Append(log, [w3c EXCEPT !.status = req.status])
    /\ w3c' = NoRecord
    /\ pc' = "loop"
    /\ UNCHANGED <<req, result, carry, errno, out, clientVars>>

\* The loop tests isKeapAliveUsing after deleteRequest freed *currentReq.
Loop ==
    /\ pc = "loop"
    /\ \E isKeapAliveUsing \in IF FreedValue = "kept" THEN {req.keepAlive} ELSE BOOLEAN :
          pc' = IF result # "timeout" /\ isKeapAliveUsing THEN "create" ELSE "closed"
    /\ UNCHANGED <<req, w3c, result, carry, errno, out, log, clientVars>>

\* SIGINT interrupts a semop of the debug log: nobody looks at its result, but it
\* leaves errno behind.
SemopInterrupted ==
    /\ Signals
    /\ pc \notin {"closed", "crashed", "cut"}
    /\ errno' = "EINTR"
    /\ UNCHANGED <<pc, req, w3c, result, carry, out, log, clientVars>>

-----------------------------------------------------------------------------

Init ==
    /\ pc = "create" /\ req = FreshRequest /\ w3c = NoRecord /\ result = "none"
    /\ carry = NoCarry
    /\ errno \in {"0", "ENOENT"}  \* ENOENT: the server has looked for "command" in vain
    /\ sent = <<>> /\ net = <<>> /\ client = "open"
    /\ out = <<>> /\ log = <<>>

HandlerStep ==
    \/ CreateRequest
    \/ ReadTimeout
    \/ ReadError
    \/ ReadEof
    \/ \E k \in 1 .. Len(net) : ReadData(k)
    \/ MethodGet
    \/ MethodHead
    \/ MethodStub
    \/ MethodUnknow
    \/ NullUri
    \/ Log
    \/ Loop

ClientStep ==
    \/ \E r \in Requests : SendRequest(r)
    \/ \E how \in {"half", "gone"} : Leave(how)

Next == HandlerStep \/ ClientStep \/ SemopInterrupted

Spec == Init /\ [][Next]_vars

Ended == pc \in {"closed", "crashed", "cut"}
Stopped == Ended \/ (pc = "create" /\ Len(out) >= MaxResponses)

\* The process runs, and select returns after timeOfKeapAlive seconds at the latest:
\* WF_vars(HandlerStep), with ENABLED HandlerStep written as ~Stopped.
Fairness == []<>Stopped \/ []<><<HandlerStep>>_vars

FairSpec == Spec /\ Fairness

-----------------------------------------------------------------------------
(* Properties. *)

TypeOK ==
    /\ pc \in HandlerAt
    /\ req \in [version : {"undefined", "1.0", "1.1"}, status : Statuses, keepAlive : BOOLEAN,
                chunk : BOOLEAN, MethodHTTP : Handlers, URI : Uris \cup {"null"},
                i : 0 .. MaxRequests, applied : SUBSET (1 .. MaxRequests)]
    /\ w3c.status = 0 /\ w3c.bytes \in -1 .. ChunkedSize(FileSize)
    /\ result \in Results
    /\ carry \in [h : HeaderTexts \cup {"none", "junk"}, i : 0 .. MaxRequests]
    /\ errno \in Errno
    /\ sent \in Seq(Requests) /\ Len(sent) <= MaxRequests
    /\ client \in {"open", "half", "gone"}
    /\ Len(out) <= MaxResponses

\* The responses that were sent whole.
Whole == Len(out) - (IF pc = "cut" THEN 1 ELSE 0)

\* What a client sees that sends each request whole and after the previous answer: the
\* answers to its requests (one to the end of its input is none), and how the connection
\* ended.
Answers == [n \in 1 .. Min({Whole, Len(sent)}) |-> [i |-> out[n].i, status |-> out[n].status]]
Phase == IF result = "timeout" THEN "silent" ELSE IF Ended THEN "closed" ELSE "open"

Service == INSTANCE RequestService WITH
    KeepsWord <- FreedValue = "kept",
    asked <- sent, answered <- Answers, phase <- Phase, left <- client # "open"

\* Such a client gets an answer to each request, in order and with the proper status,
\* although the handler looks at errno and at statics that other requests have left, and
\* fails or gives up a request only when its client has left.  Where the freed flag keeps
\* its value, the handler goes on exactly after requests that keep the connection alive.
ServesRequests == Service!Spec

\* The access log has one record for each response that was sent whole, with the status
\* that was sent, the method of the request answered, and the size of the body methodGet
\* sent: no field of a record comes from an earlier request of the connection.
LogMatchesWire ==
    /\ Len(log) = Whole - (IF pc = "log" /\ result # "timeout" THEN 1 ELSE 0)
    /\ \A n \in DOMAIN log :
          /\ log[n].status = out[n].status
          /\ log[n].method # "UNKNOW" =>
                log[n].method = sent[out[n].i].method
          /\ log[n].uri # "-" => log[n].uri = sent[out[n].i].uri
          /\ log[n].method = "GET" /\ out[n].status = 200 => log[n].bytes \in {out[n].body, -1}

\* A header takes effect on the request it was sent with and on no other: stated of
\* connections whose freed flag keeps its value and where no read fills the buffer to
\* exactly LENGTH_STRING - 1 bytes, after which a next request is parsed into the first.
HeadersAreOwn == req.applied \subseteq {req.i}

\* However the stream is cut and whatever arrives together, the answers are in the order of
\* the requests they answer.  The rest of a request that was cut is answered once more, but
\* with nothing but 400: no request is carried out twice.  (i = 0: an answer to the end of
\* the input.  No body and no header reads as a request line here.)
AnswersInOrder ==
    \A m, n \in DOMAIN out :
        m < n /\ out[m].i # 0 /\ out[n].i # 0 =>
            out[m].i < out[n].i \/ (out[m].i = out[n].i /\ out[n].status = 400)

\* Of a client that sends whole requests one at a time, with paths the server accepts (414
\* and 400 for the others end in NullUri), each request that is sent before the handler
\* stops reading is answered, unless the client goes away or, after a request
\* of exactly LENGTH_STRING - 1 bytes, sends nothing more for the keep-alive time: only then
\* does the handler wait for more than the request, and give it up.
Answered ==
    \A n \in 1 .. MaxRequests :
        (pc = "read" /\ Len(sent) >= n)
            ~> (\/ Len(out) >= n
                \/ client = "gone"
                \/ result = "timeout" /\ Len(sent) >= n /\ sent[n].exact)

\* The process that serves a connection ends: its client leaves, falls silent, or has
\* been refused a further request.
HandlerEnds == <>Ended

===============================================================================
