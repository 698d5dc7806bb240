------------------------------ MODULE GetResponse ------------------------------
(***************************************************************************)
(* One response of methodGet (methods.c) with sendAll (workWithSockets.c), *)
(* system call by system call, over a file that others edit and a socket   *)
(* that takes part of what it is given, fails, or is reset.  Module        *)
(* Connection has the same response as one step.                           *)
(*                                                                         *)
(* The file is looked at by stat, opened for its length by getLengthFile,  *)
(* and opened again for each piece by readFile, which reads it byte by     *)
(* byte here, so that an edit may come between any two reads of the C      *)
(* library.  Byte i of version v is Byte(v, i).  An edit appends to the    *)
(* file or rewrites it in place, which whoever has it open sees; or puts   *)
(* another under its name, removes it, or makes it impossible to open,     *)
(* which whoever has it open does not see.                                 *)
(*                                                                         *)
(* The head is two tokens, what it says and its end; a chunk is the digits *)
(* of its size, CR LF, its data, CR LF.                                    *)
(***************************************************************************)
EXTENDS Integers, Sequences

CONSTANTS LENGTH_CHUNK,  \* bytes readFile asks for in chunked mode
          MaxFile,       \* bound: length of the file
          MaxEdits,      \* bound: edits of the file during the response
          MaxWire,       \* bound: tokens after which nothing is sent, beyond any response that ends
          Transient      \* may send fail on a connection that goes on working?

ASSUME ConstantsAssumption ==
    /\ LENGTH_CHUNK \in 1 .. 65535  \* at most four digits, as the 25600 of the code
    /\ MaxFile \in Nat
    /\ MaxEdits \in Nat
    /\ MaxWire \in Nat
    /\ Transient \in BOOLEAN

SIZE_CHUNK_WITHOUT_DATE == 5
ERROR_RUN == -1

VARIABLES pc,         \* where methodGet is: "start", "open" and "head", "read", "fread" and
                      \* "body", "done", "dead"
          dotted,     \* has the URI a "/../"?
          chunk,      \* isChunkUsing
          status,     \* currentReq->status
          readBytes,
          invitedFile, \* what readFile has open
          sizeFile,   \* what it asks fread for
          data,       \* what fread has read of it
          bytesSent,  \* W3CLog.BytesSent
          msg,        \* what sendAll was given
          total,      \* its local variable: what send has taken of it
          wire,       \* the tokens the client gets
          failed,     \* has a send failed?
          client,     \* "open", "reset" (not yet noticed) or "broken"
          file,       \* the file the URI names
          edits       \* the edits made since the response began

fileVars == <<invitedFile, sizeFile, data>>
methodVars == <<pc, dotted, chunk, status, readBytes, bytesSent, msg, total, wire, failed>>
vars == <<methodVars, fileVars, client, file, edits>>

-----------------------------------------------------------------------------
(* The file and the tokens. *)

Absent == -1      \* stat and fopen fail with ENOENT
Unreadable == -2  \* fopen fails with EACCES, or waits for another's lease until a signal comes
Directory == -3
File == [v : 0 .. MaxEdits, n : Directory .. MaxFile]
NoFile == [v |-> 0, n |-> Absent]
EditKinds == {"append", "rewrite", "replace", "remove", "deny"}

Token(kind, v, n) == [kind |-> kind, v |-> v, n |-> n]
Byte(v, i) == Token("byte", v, i)
CRLF == <<Token("cr", 0, 0), Token("lf", 0, 0)>>

\* sprintf "%x".
Digits(n) == IF n < 16 THEN 1 ELSE IF n < 256 THEN 2 ELSE IF n < 4096 THEN 3 ELSE 4
SizeLine(n) == [i \in 1 .. Digits(n) |-> Token(IF i = 1 THEN "size" ELSE "digit", i, n)] \o CRLF

-----------------------------------------------------------------------------
(* getLengthFile and createHeader. *)

ENOENT == 2
EINTR == 4
EACCES == 13  \* or any number but these two
Errno == {ENOENT, EINTR, EACCES}

\* The statuses with which getLengthFile may leave the file unopened.  When stat fails,
\* st_mode is whatever was in memory, that of a directory perhaps.
Refusals ==
    (IF file.n \in {Directory, Absent} THEN {404} ELSE {})
        \cup (IF dotted /\ file.n # Directory THEN {400} ELSE {})

\* errno after stat: its own, or what an earlier call has left.
StatErrno == IF file.n = Absent THEN {ENOENT} ELSE Errno

\* errno after an fopen that failed.
FopenErrno == IF file.n = Absent THEN {ENOENT} ELSE {EINTR, EACCES}

\* Mutant: only a missing and a locked file are failures.
StatusAfter_known(errno, st) == IF errno = ENOENT THEN 404 ELSE IF errno = EINTR THEN 423 ELSE 200

\* The end of getLengthFile and readFile when they have no file.
StatusAfter(errno, st) == IF errno = ENOENT THEN 404 ELSE IF errno = EINTR THEN 423 ELSE st

\* createHeader, for the size found or ERROR_RUN; a size above zero is told to the
\* client unless chunk is set.
Header(st, size) == <<Token("head", st, size), Token("end", 0, 0)>>

\* createHeader and the call of sendAll.  BytesSent grows by lenResponse, which is
\* still zero.
SendHeader(st, size) ==
    /\ pc' = "head"
    /\ status' = st
    /\ msg' = Header(st, size)
    /\ total' = 0
    /\ UNCHANGED <<dotted, chunk, readBytes, bytesSent, wire, failed, fileVars, client, file, edits>>

StatRefuses ==
    /\ pc = "start"
    /\ \E st \in Refusals, errno \in StatErrno : SendHeader(StatusAfter(errno, st), ERROR_RUN)

StatPasses ==
    /\ pc = "start"
    /\ ~dotted /\ file.n # Directory
    /\ pc' = "open"
    /\ UNCHANGED <<dotted, chunk, status, readBytes, bytesSent, msg, total, wire, failed,
                   fileVars, client, file, edits>>

OpenForLength ==
    /\ pc = "open"
    /\ file.n >= 0
    /\ SendHeader(status, file.n)

OpenForLengthFails ==
    /\ pc = "open"
    /\ file.n < 0
    /\ \E errno \in FopenErrno : SendHeader(StatusAfter(errno, status), ERROR_RUN)

-----------------------------------------------------------------------------
(* readFile, and what methodGet makes of the piece. *)

\* Mutant: the size line says what was asked for.
Message_sizeAsked(piece) ==
    IF chunk THEN SizeLine(IF piece = <<>> THEN 0 ELSE LENGTH_CHUNK) \o piece \o CRLF ELSE piece

\* currentReq->body: the piece, as a chunk if need be.
Message(piece) == IF chunk THEN SizeLine(Len(piece)) \o piece \o CRLF ELSE piece

\* Mutants: the bytes of the chunk are counted, not those of the file; none are.
Advanced_byChunk(piece) == IF chunk THEN readBytes + Len(Message(piece)) ELSE readBytes

Advanced_never(piece) == readBytes

\* readBytes after a piece; only the chunked branch keeps it.
Advanced(piece) == IF chunk THEN readBytes + Len(piece) ELSE readBytes

\* Mutant: the data is counted before the length of the chunk is added.
Counted_data(piece) == bytesSent + Len(piece)

\* BytesSent after a piece.
Counted(piece) == bytesSent + Len(Message(piece))

\* The size readFile reads: LENGTH_CHUNK, or all of the file, measured again.
Asked == IF chunk THEN LENGTH_CHUNK ELSE file.n

\* fopen, and ftell for READ_FULL_FILE.
OpenForRead ==
    /\ pc = "read"
    /\ file.n >= 0
    /\ invitedFile' = file
    /\ sizeFile' = Asked
    /\ pc' = "fread"
    /\ UNCHANGED <<dotted, chunk, status, readBytes, bytesSent, msg, total, wire, failed,
                   data, client, file, edits>>

\* Nothing more is asked for, or there.
ReadOver == Len(data) = sizeFile \/ invitedFile.n <= readBytes + Len(data)

\* Mutant: the name is opened again for each read.
ReadByte_byName ==
    /\ pc = "fread"
    /\ ~ReadOver
    /\ data' = Append(data, Byte(file.v, readBytes + Len(data) + 1))
    /\ UNCHANGED <<methodVars, invitedFile, sizeFile, client, file, edits>>

\* fread reads on; readBytes is where it began, zero for READ_FULL_FILE.
ReadByte ==
    /\ pc = "fread"
    /\ ~ReadOver
    /\ data' = Append(data, Byte(invitedFile.v, readBytes + Len(data) + 1))
    /\ UNCHANGED <<methodVars, invitedFile, sizeFile, client, file, edits>>

\* fclose; the message is made and sendAll called.
ReadFileDone ==
    /\ pc = "fread"
    /\ ReadOver
    /\ msg' = Message(data)
    /\ readBytes' = Advanced(data)
    /\ bytesSent' = Counted(data)
    /\ invitedFile' = NoFile /\ sizeFile' = 0 /\ data' = <<>>
    /\ pc' = "body" /\ total' = 0
    /\ UNCHANGED <<dotted, chunk, status, wire, failed, client, file, edits>>

\* readFile cannot open the file any more: ERROR_RUN is added to both counters, and
\* sendAll is called with that length and sends nothing.
ReadFileFails ==
    /\ pc = "read"
    /\ file.n < 0
    /\ \E errno \in FopenErrno : status' = StatusAfter(errno, status)
    /\ readBytes' = IF chunk THEN readBytes + ERROR_RUN ELSE readBytes
    /\ bytesSent' = bytesSent + ERROR_RUN
    /\ msg' = <<>>
    /\ pc' = "body" /\ total' = 0
    /\ UNCHANGED <<dotted, chunk, wire, failed, fileVars, client, file, edits>>

-----------------------------------------------------------------------------
(* sendAll. *)

\* Mutant: a chunk of one byte is the last.
AfterPiece_short == IF chunk /\ total > SIZE_CHUNK_WITHOUT_DATE + 1 THEN "read" ELSE "done"

\* Where the loop of methodGet goes when sendAll has sent total bytes of a piece.
AfterPiece == IF chunk /\ total > SIZE_CHUNK_WITHOUT_DATE THEN "read" ELSE "done"

\* Where methodGet goes when sendAll returns, whatever it returns.
Return == pc' = IF pc = "body" THEN AfterPiece ELSE IF status = 200 THEN "read" ELSE "done"

Sending == pc \in {"head", "body"} /\ total < Len(msg) /\ Len(wire) < MaxWire

\* Mutant: the count starts again with each send.
Send_fromStart(k) ==
    /\ Sending /\ client = "open"
    /\ wire' = wire \o SubSeq(msg, 1, k)
    /\ total' = total + k
    /\ UNCHANGED <<pc, dotted, chunk, status, readBytes, bytesSent, msg, failed, fileVars, client, file, edits>>

\* send takes the next k bytes.
Send(k) ==
    /\ Sending /\ client = "open"
    /\ wire' = wire \o SubSeq(msg, total + 1, total + k)
    /\ total' = total + k
    /\ UNCHANGED <<pc, dotted, chunk, status, readBytes, bytesSent, msg, failed, fileVars, client, file, edits>>

SendAllDone ==
    /\ pc \in {"head", "body"} /\ total = Len(msg)
    /\ Return
    /\ UNCHANGED <<dotted, chunk, status, readBytes, bytesSent, msg, total, wire, failed,
                   fileVars, client, file, edits>>

\* send returns -1: once after a reset, or for want of memory.
SendFails ==
    /\ Sending
    /\ client = "reset" \/ (client = "open" /\ Transient)
    /\ client' = IF client = "reset" THEN "broken" ELSE "open"
    /\ failed' = TRUE
    /\ Return
    /\ UNCHANGED <<dotted, chunk, status, readBytes, bytesSent, msg, total, wire,
                   fileVars, file, edits>>

\* Any other send to a client that is gone raises SIGPIPE.
BrokenPipe ==
    /\ Sending
    /\ client # "open"
    /\ pc' = "dead"
    /\ UNCHANGED <<dotted, chunk, status, readBytes, bytesSent, msg, total, wire, failed,
                   fileVars, client, file, edits>>

-----------------------------------------------------------------------------
(* The client and those who edit the file. *)

Running == pc \notin {"done", "dead"}

Reset ==
    /\ Running
    /\ client = "open"
    /\ client' = "reset"
    /\ UNCHANGED <<methodVars, fileVars, file, edits>>

Edited(kind, f) ==
    /\ Running
    /\ Len(edits) < MaxEdits
    /\ edits' = Append(edits, kind)
    /\ file' = f
    /\ UNCHANGED <<methodVars, sizeFile, data, client>>

\* Has readFile the file open that the URI names now?
Attached == pc = "fread" /\ invitedFile.v = file.v

EditInPlace ==
    /\ file.n >= 0
    /\ \/ /\ file.n < MaxFile
          /\ Edited("append", [v |-> file.v, n |-> file.n + 1])
       \/ \E n \in 0 .. MaxFile : Edited("rewrite", [v |-> file.v + 1, n |-> n])
    /\ invitedFile' = IF Attached THEN file' ELSE invitedFile

EditName ==
    /\ file.n # Directory
    /\ \/ \E n \in 0 .. MaxFile : Edited("replace", [v |-> file.v + 1, n |-> n])
       \/ file.n # Absent /\ Edited("remove", [v |-> file.v, n |-> Absent])
       \/ file.n >= 0 /\ Edited("deny", [v |-> file.v, n |-> Unreadable])
    /\ UNCHANGED invitedFile

Edit == EditInPlace \/ EditName

-----------------------------------------------------------------------------

\* methodGet is called for a request of status 200.
Init ==
    /\ pc = "start" /\ dotted \in BOOLEAN /\ chunk \in BOOLEAN /\ status = 200
    /\ readBytes = 0 /\ bytesSent = 0
    /\ msg = <<>> /\ total = 0 /\ wire = <<>>
    /\ invitedFile = NoFile /\ sizeFile = 0 /\ data = <<>>
    /\ failed = FALSE /\ client = "open"
    /\ file \in [v : {0}, n : Directory .. MaxFile]
    /\ edits = <<>>

MethodStep ==
    \/ StatRefuses
    \/ StatPasses
    \/ OpenForLength
    \/ OpenForLengthFails
    \/ OpenForRead
    \/ ReadByte
    \/ ReadFileDone
    \/ ReadFileFails
    \/ \E k \in 1 .. Len(msg) - total : Send(k)
    \/ SendAllDone
    \/ SendFails
    \/ BrokenPipe

Next == MethodStep \/ Reset \/ Edit

Spec == Init /\ [][Next]_vars

\* The process runs, and a client that keeps its connection open reads.
FairSpec == Spec /\ WF_vars(MethodStep)

-----------------------------------------------------------------------------
(* Properties. *)

Kinds == {edits[i] : i \in DOMAIN edits}

\* The places of the bytes of the file among the tokens s, and the length of what
\* follows the head.
Bytes(s) == {i \in DOMAIN s : s[i].kind = "byte"}
BodyLength(s) == Len(s) - 2

\* Is the n-th byte of the file among the first k tokens of s?
Got(s, n, k) == \E i \in Bytes(s) : i <= k /\ s[i].n = n

TypeOK ==
    /\ pc \in {"start", "open", "head", "read", "fread", "body", "done", "dead"}
    /\ dotted \in BOOLEAN /\ chunk \in BOOLEAN /\ failed \in BOOLEAN
    /\ status \in {200, 400, 404, 423}
    /\ readBytes \in -1 .. MaxFile
    /\ total \in 0 .. Len(msg)
    /\ file \in File /\ invitedFile \in File
    /\ Len(data) <= sizeFile
    /\ edits \in Seq(EditKinds) /\ Len(edits) <= MaxEdits
    /\ client \in {"open", "reset", "broken"}

\* What follows the first digit of a size k: the other digits, CR LF, k bytes, CR LF,
\* and another size unless k is zero.
Follows(k, j) ==
    LET i == j - (Digits(k) - 1)  \* counted from the last digit
    IN CASE i <= 0               -> "digit"
         [] i \in {1, k + 3}     -> "cr"
         [] i \in {2, k + 4}     -> "lf"
         [] i \in 3 .. k + 2     -> "byte"
         [] i = k + 5 /\ k # 0   -> "size"
         [] OTHER                -> "none"

\* However the file is edited and the sends are cut, and wherever the connection
\* ends, what the client of a chunked response has got is the beginning of a
\* well-formed sequence of chunks, as long as no send has failed.
Chunked(s) ==
    /\ Len(s) > 2 => s[3].kind = "size"
    /\ \A i \in DOMAIN s : s[i].kind = "size" =>
          \A j \in 1 .. Len(s) - i :
              j <= Digits(s[i].n) + s[i].n + 4 => s[i + j].kind = Follows(s[i].n, j)

ChunksWellFormed == chunk /\ ~failed => Chunked(wire)

\* Each piece is opened at its own moment and read while the file changes, perhaps after
\* the sending of an earlier one has failed: no byte of the file is sent twice or out
\* of its place, or older than one before it, and none is left out unless a send failed.
Ordered(s) ==
    \A i, j \in Bytes(s) : i < j => s[i].n < s[j].n /\ s[i].v <= s[j].v

Gapless(s) ==
    \A i \in Bytes(s) :
        /\ s[i].n >= 1
        /\ \A n \in 1 .. s[i].n - 1 : Got(s, n, i - 1)

DataInOrder == Ordered(wire) /\ (~failed => Gapless(wire))

\* A body that is not chunked is of one version, whatever is put under the name of the
\* file while it is read, unless the file is rewritten in place between two reads.
OneVersion(s) == \A i, j \in Bytes(s) : s[i].v = s[j].v

PlainOfOneVersion == ~chunk /\ "rewrite" \notin Kinds => OneVersion(wire)

\* readFile opens whatever the URI names.  Only the status of the head keeps methodGet
\* from it, and that passes through an errno that other calls may have set: no byte is
\* sent of a path with "/../" or of a directory, and no head that says 200.
RefusedNotSent ==
    dotted \/ file.n = Directory =>
        \A i \in DOMAIN wire : wire[i].kind # "byte" /\ (wire[i].kind = "head" => wire[i].v # 200)

\* A response to the end of which nothing happened but appending to its file has every
\* byte that was there when it began; a chunked one has its last chunk.  When nothing
\* was appended it has no other byte, and a plain one has the length its head told; what
\* was appended is sent beyond that length.
WholeFile ==
    pc = "done" /\ ~failed /\ wire[1].n >= 0 /\ Kinds \subseteq {"append"} =>
        /\ \A n \in 1 .. wire[1].n : Got(wire, n, Len(wire))
        /\ \A i \in Bytes(wire) : wire[i].v = file.v
        /\ chunk => BodyLength(wire) >= 5 /\ wire[Len(wire) - 4] = Token("size", 1, 0)
        /\ ~chunk => BodyLength(wire) >= wire[1].n
        /\ edits = <<>> => /\ \A i \in Bytes(wire) : wire[i].n <= wire[1].n
                           /\ ~chunk => BodyLength(wire) = wire[1].n

\* The response went as its head promised: the file could be opened for every piece.
FileStayed == wire[1].v = 200 => wire[1].n >= 0 /\ Kinds \cap {"remove", "deny"} = {}

\* When no send failed and the file could be opened for every piece, the access-log
\* record has the status that was sent, and as BytesSent exactly the tokens sent after
\* the head: whatever the file grew or shrank to between two pieces, each is counted
\* with its framing and none twice.  The head is not counted.
RecordMatchesBody ==
    pc = "done" /\ ~failed /\ FileStayed => bytesSent = BodyLength(wire) /\ status = wire[1].v

\* methodGet returns: the loop over the chunks ends although the file grows while it
\* is sent, once it has stopped growing, and although sends fail.
MethodEnds == <>~Running

===============================================================================
