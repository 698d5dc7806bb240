--------------------------- MODULE GetResponseProofs ---------------------------
(***************************************************************************)
(* methodGet and sendAll are correct for every length of chunk, file and   *)
(* response, every number of edits, and wherever the sends are cut.        *)
(*                                                                         *)
(* The argument is about the stream: what the client has got, followed by  *)
(* what sendAll has still to send.  A send moves tokens from the one to    *)
(* the other; a piece that has been read makes the stream longer by one    *)
(* message; a failure cuts off what was still to be sent.                  *)
(***************************************************************************)
EXTENDS GetResponse, SequenceTheorems, TLAPS

Tokens == [kind : {"head", "end", "size", "digit", "cr", "lf", "byte"}, v : Int, n : Int]

InSendAll == pc \in {"head", "body"}
Pending == IF InSendAll THEN SubSeq(msg, total + 1, Len(msg)) ELSE <<>>
Stream == wire \o Pending

Places == {"start", "open", "head", "read", "fread", "body", "done", "dead"}

\* Does methodGet refuse the URI?
Forbidden == dotted \/ file.n = Directory

\* The types, TypeOK and those of the tokens included.
Typed ==
    /\ TypeOK
    /\ msg \in Seq(Tokens) /\ wire \in Seq(Tokens) /\ data \in Seq(Tokens)
    /\ bytesSent \in Int
    /\ sizeFile \in Nat
    /\ invitedFile.v <= file.v /\ file.v <= Len(edits)
    /\ Kinds \cap {"rewrite", "replace"} = {} => file.v = 0

\* What the place in methodGet says of its variables.
AtPlace ==
    /\ ~chunk => readBytes = 0
    /\ pc \in {"start", "open", "head"} =>
          readBytes = 0 /\ bytesSent = 0 /\ ~failed /\ wire = SubSeq(msg, 1, total)
    /\ pc \in {"start", "open"} => wire = <<>> /\ msg = <<>> /\ status = 200
    /\ pc = "head" => msg = Header(status, msg[1].n) /\ (status # 200 => msg[1].n < 0)
    /\ pc \in {"read", "fread"} => readBytes >= 0 /\ status = 200
    /\ pc = "body" /\ msg # <<>> => readBytes >= 0 /\ status = 200
    /\ pc # "fread" => data = <<>>
    /\ Forbidden => pc \in {"start", "head", "done", "dead"} /\ (pc = "head" => status # 200)

\* Will methodGet read again after the message it sends?
GoesOn == pc \in {"read", "fread"} \/ (pc = "body" /\ chunk /\ Len(msg) > SIZE_CHUNK_WITHOUT_DATE)

\* The bytes of the stream.
BytesFine ==
    /\ Ordered(Stream)
    /\ \A i \in Bytes(Stream) : Stream[i].n >= 1 /\ Stream[i].v \in 0 .. file.v
    /\ ~failed => Gapless(Stream)
    /\ ~chunk /\ "rewrite" \notin Kinds => OneVersion(Stream)
    /\ pc \in {"start", "open", "head"} \/ (pc \in {"read", "fread"} /\ ~chunk) => Bytes(Stream) = {}
    /\ chunk /\ (pc \in {"read", "fread"} \/ (pc = "body" /\ msg # <<>>)) =>
          /\ \A i \in Bytes(Stream) : Stream[i].n <= readBytes
          /\ ~failed => \A n \in 1 .. readBytes : Got(Stream, n, Len(Stream))

\* The bytes fread has read: those after readBytes, as old as what it has open or older,
\* and not older than what is in the stream.
ReadFine ==
    pc = "fread" =>
        /\ invitedFile.n >= 0
        /\ chunk => sizeFile = LENGTH_CHUNK
        /\ readBytes + Len(data) <= MaxFile
        /\ \A i \in 1 .. Len(data) :
              /\ data[i].kind = "byte" /\ data[i].n = readBytes + i
              /\ data[i].v \in 0 .. invitedFile.v
              /\ \A j \in i .. Len(data) : data[i].v <= data[j].v
              /\ \A j \in Bytes(Stream) : Stream[j].v <= data[i].v
              /\ ~chunk /\ "rewrite" \notin Kinds => data[i].v = invitedFile.v
        /\ \A j \in Bytes(Stream) : Stream[j].v <= invitedFile.v

\* The chunks of the stream: well formed, complete, and the last not before the end.
ChunksFine ==
    chunk /\ ~failed =>
        /\ Chunked(Stream)
        /\ pc \in {"head", "read", "fread", "body"} =>
              \A i \in DOMAIN Stream : Stream[i].kind = "size" =>
                  /\ Stream[i].n >= 0
                  /\ i + Digits(Stream[i].n) + Stream[i].n + 3 <= Len(Stream)
                  /\ pc = "head" \/ GoesOn => Stream[i].n # 0

\* The head of the stream, and the record.
HasHead == pc \notin {"start", "open", "dead"} /\ ~failed

HeadFine ==
    /\ HasHead => Len(Stream) >= 2 /\ Stream[1].kind = "head" /\ Stream[2].kind = "end"
    /\ Forbidden => \A i \in DOMAIN Stream :
                       Stream[i].kind # "byte" /\ (Stream[i].kind = "head" => Stream[i].v # 200)

Kept == Stream[1].v = 200 => Stream[1].n >= 0 /\ Kinds \cap {"remove", "deny"} = {}

RecordFine ==
    HasHead =>
        /\ file.n < 0 /\ Stream[1].v = 200 => ~Kept
        /\ \/ bytesSent = BodyLength(Stream) /\ status = Stream[1].v
           \/ pc \in {"body", "done"} /\ msg = <<>> /\ ~Kept

\* The whole file, as long as it only grows.
Last == pc = "done" \/ (pc = "body" /\ ~GoesOn)

WholeFine ==
    HasHead /\ Stream[1].n >= 0 /\ Kinds \subseteq {"append"} =>
        /\ status = 200
        /\ file.n >= Stream[1].n
        /\ edits = <<>> => /\ file.n = Stream[1].n
                           /\ \A i \in Bytes(Stream) : Stream[i].n <= Stream[1].n
        /\ pc = "fread" => /\ invitedFile.n = file.n
                           /\ ~chunk => sizeFile >= Stream[1].n
                           /\ ~chunk /\ edits = <<>> => sizeFile = Stream[1].n
                           /\ edits = <<>> /\ data # <<>> => readBytes + Len(data) <= Stream[1].n
        /\ ~chunk /\ pc \in {"head", "read", "fread"} => Len(Stream) = 2
        /\ Last => /\ \A n \in 1 .. Stream[1].n : Got(Stream, n, Len(Stream))
                   /\ chunk => BodyLength(Stream) >= 5 /\ Stream[Len(Stream) - 4] = Token("size", 1, 0)
                   /\ ~chunk => BodyLength(Stream) >= Stream[1].n
                   /\ ~chunk /\ edits = <<>> => BodyLength(Stream) = Stream[1].n

StreamFine == BytesFine /\ ReadFine /\ ChunksFine /\ HeadFine /\ RecordFine /\ WholeFine

IndInv == Typed /\ AtPlace /\ StreamFine

-----------------------------------------------------------------------------
(* The stream. *)

LEMMA StreamIs ==
    ASSUME Typed
    PROVE  /\ Pending \in Seq(Tokens) /\ Stream \in Seq(Tokens)
           /\ Len(Pending) = IF InSendAll THEN Len(msg) - total ELSE 0
           /\ Len(Stream) = Len(wire) + Len(Pending)
           /\ \A i \in 1 .. Len(wire) : Stream[i] = wire[i]
           /\ InSendAll => \A i \in 1 .. Len(msg) - total : Stream[Len(wire) + i] = msg[total + i]
  <1>1. wire \in Seq(Tokens) /\ msg \in Seq(Tokens) /\ total \in 0 .. Len(msg) /\ Len(msg) \in Nat
    BY DEF Typed, TypeOK
  <1>2. \A i \in total + 1 .. Len(msg) : msg[i] \in Tokens
    BY <1>1
  <1>3. /\ SubSeq(msg, total + 1, Len(msg)) \in Seq(Tokens)
        /\ Len(SubSeq(msg, total + 1, Len(msg))) = Len(msg) - total
        /\ \A i \in 1 .. Len(msg) - total : SubSeq(msg, total + 1, Len(msg))[i] = msg[total + i]
    BY <1>1, <1>2, SubSeqProperties, Z3
  <1>4. Pending \in Seq(Tokens) /\ Len(Pending) = IF InSendAll THEN Len(msg) - total ELSE 0
    BY <1>3 DEF Pending
  <1>5. /\ Stream \in Seq(Tokens) /\ Len(Stream) = Len(wire) + Len(Pending)
        /\ \A i \in 1 .. Len(wire) + Len(Pending) :
              Stream[i] = IF i <= Len(wire) THEN wire[i] ELSE Pending[i - Len(wire)]
    BY <1>1, <1>4, ConcatProperties, Zenon DEF Stream
  <1>6. \A i \in 1 .. Len(wire) : Stream[i] = wire[i]
    BY <1>1, <1>4, <1>5
  <1>7. ASSUME InSendAll, NEW i \in 1 .. Len(msg) - total PROVE Stream[Len(wire) + i] = msg[total + i]
    BY <1>1, <1>3, <1>4, <1>5, <1>7 DEF Pending
  <1> QED
    BY <1>4, <1>5, <1>6, <1>7

\* send moves tokens from what is pending to what the client has got.
LEMMA SendKeepsStream ==
    ASSUME Typed, NEW k \in 1 .. Len(msg) - total, Send(k)
    PROVE  Stream' = Stream /\ wire' \in Seq(Tokens)
  <1>1. /\ wire \in Seq(Tokens) /\ msg \in Seq(Tokens) /\ total \in 0 .. Len(msg) /\ Len(msg) \in Nat
        /\ InSendAll /\ msg' = msg /\ total' = total + k /\ InSendAll'
    BY DEF Typed, TypeOK, Send, Sending, InSendAll
  <1> DEFINE sent == SubSeq(msg, total + 1, total + k)
             left == SubSeq(msg, total + k + 1, Len(msg))
  <1>2. sent \in Seq(Tokens) /\ left \in Seq(Tokens)
    <2>1. \A i \in total + 1 .. total + k : msg[i] \in Tokens
      BY <1>1
    <2>2. \A i \in total + k + 1 .. Len(msg) : msg[i] \in Tokens
      BY <1>1
    <2> QED
      BY <1>1, <2>1, <2>2, SubSeqProperties
  <1>3. sent \o left = SubSeq(msg, total + 1, Len(msg))
    <2>1. total + 1 \in 1 .. Len(msg) + 1 /\ total + k \in (total + 1) - 1 .. Len(msg) /\ Len(msg) \in total + k .. Len(msg)
      BY <1>1
    <2> QED
      BY <1>1, <2>1, ConcatAdjacentSubSeq
  <1>4. wire' = wire \o sent
    BY DEF Send
  <1>5. wire' \in Seq(Tokens)
    BY <1>1, <1>2, <1>4, ConcatProperties
  <1>6. (wire \o sent) \o left = wire \o (sent \o left)
    <2>1. \A u, v, w \in Seq(Tokens) : (u \o v) \o w = u \o (v \o w)
      BY ConcatAssociative
    <2> HIDE DEF sent, left
    <2> QED
      BY <1>1, <1>2, <2>1
  <1>7. Pending' = left /\ Pending = SubSeq(msg, total + 1, Len(msg))
    BY <1>1 DEF Pending
  <1> QED
    BY <1>3, <1>4, <1>5, <1>6, <1>7 DEF Stream

\* When nothing is left to be sent the stream is what the client has got.
LEMMA StreamIsWire ==
    ASSUME Typed, InSendAll => total = Len(msg)
    PROVE  Stream = wire
  <1>1. Len(msg) \in Nat /\ wire \in Seq(Tokens) /\ total \in Int
    BY DEF Typed, TypeOK
  <1>2. Pending = <<>>
    BY <1>1, SubSeqEmpty DEF Pending
  <1> QED
    BY <1>1, <1>2, ConcatProperties DEF Stream

\* What a prefix of the stream inherits from it.
LEMMA PrefixFine ==
    ASSUME NEW s \in Seq(Tokens), NEW t \in Seq(Tokens), Len(s) <= Len(t),
           \A i \in 1 .. Len(s) : s[i] = t[i]
    PROVE  /\ Bytes(s) \subseteq Bytes(t)
           /\ \A i \in Bytes(s) : s[i] = t[i]
           /\ Ordered(t) => Ordered(s)
           /\ OneVersion(t) => OneVersion(s)
           /\ Gapless(t) => Gapless(s)
           /\ Chunked(t) => Chunked(s)
  <1>1. /\ DOMAIN s = 1 .. Len(s) /\ DOMAIN t = 1 .. Len(t) /\ Len(s) \in Nat /\ Len(t) \in Nat
        /\ \A i \in 1 .. Len(t) : t[i].n \in Int
    <2>1. \A i \in 1 .. Len(t) : t[i] \in Tokens
      OBVIOUS
    <2> QED
      BY <2>1, LenProperties DEF Tokens
  <1>2. Bytes(s) \subseteq Bytes(t) /\ \A i \in Bytes(s) : s[i] = t[i]
    BY <1>1 DEF Bytes
  <1>3. (Ordered(t) => Ordered(s)) /\ (OneVersion(t) => OneVersion(s))
    BY <1>2 DEF Ordered, OneVersion
  <1>4. ASSUME Gapless(t) PROVE Gapless(s)
    <2> SUFFICES ASSUME NEW i \in Bytes(s), NEW n \in 1 .. s[i].n - 1
                 PROVE  Got(s, n, i - 1)
      BY <1>2, <1>4 DEF Gapless
    <2>1. PICK j \in Bytes(t) : j <= i - 1 /\ t[j].n = n
      BY <1>2, <1>4 DEF Gapless, Got
    <2> QED
      BY <1>1, <2>1 DEF Bytes, Got
  <1>5. ASSUME Chunked(t) PROVE Chunked(s)
    <2>1. Len(s) > 2 => s[3].kind = "size"
      BY <1>1, <1>5 DEF Chunked
    <2>2. ASSUME NEW i \in DOMAIN s, s[i].kind = "size", NEW j \in 1 .. Len(s) - i, j <= Digits(s[i].n) + s[i].n + 4
          PROVE  s[i + j].kind = Follows(s[i].n, j)
      <3>1. i \in DOMAIN t /\ t[i] = s[i] /\ j \in 1 .. Len(t) - i /\ t[i + j] = s[i + j]
        BY <1>1
      <3> QED
        BY <1>5, <2>2, <3>1 DEF Chunked
    <2> QED
      BY <2>1, <2>2 DEF Chunked
  <1> QED
    BY <1>2, <1>3, <1>4, <1>5

-----------------------------------------------------------------------------
(* What readFile returns and the message made of it. *)

LEMMA Concatenation ==
    ASSUME NEW s \in Seq(Tokens), NEW t \in Seq(Tokens)
    PROVE  /\ s \o t \in Seq(Tokens)
           /\ Len(s \o t) = Len(s) + Len(t)
           /\ \A i \in 1 .. Len(s) : (s \o t)[i] = s[i]
           /\ \A i \in 1 .. Len(t) : (s \o t)[Len(s) + i] = t[i]
  <1>1. Len(s) \in Nat /\ Len(t) \in Nat
    OBVIOUS
  <1>2. /\ s \o t \in Seq(Tokens)
        /\ Len(s \o t) = Len(s) + Len(t)
        /\ \A i \in 1 .. Len(s) + Len(t) : (s \o t)[i] = IF i <= Len(s) THEN s[i] ELSE t[i - Len(s)]
    BY ConcatProperties, Zenon
  <1> HIDE DEF Tokens
  <1> QED
    BY <1>1, <1>2

LEMMA DigitsIs == Digits(0) = 1 /\ \A n \in Nat : Digits(n) \in 1 .. 4
  BY DEF Digits

LEMMA SizeLineIs ==
    ASSUME NEW n \in Nat
    PROVE  LET d == Digits(n)
           IN /\ SizeLine(n) \in Seq(Tokens) /\ Len(SizeLine(n)) = d + 2
              /\ SizeLine(n)[1] = Token("size", 1, n)
              /\ \A i \in 2 .. d : SizeLine(n)[i].kind = "digit"
              /\ SizeLine(n)[d + 1].kind = "cr" /\ SizeLine(n)[d + 2].kind = "lf"
  <1> DEFINE d == Digits(n)
             number == [i \in 1 .. d |-> Token(IF i = 1 THEN "size" ELSE "digit", i, n)]
  <1>1. d \in 1 .. 4 /\ d \in Nat
    BY DigitsIs
  <1>2. CRLF \in Seq(Tokens) /\ Len(CRLF) = 2 /\ CRLF[1].kind = "cr" /\ CRLF[2].kind = "lf"
    BY DEF CRLF, Token, Tokens
  <1>3. SizeLine(n) = number \o CRLF
    BY DEF SizeLine
  <1> HIDE DEF d
  <1>4. /\ number \in Seq(Tokens) /\ Len(number) = d
        /\ \A i \in 1 .. d : number[i] = Token(IF i = 1 THEN "size" ELSE "digit", i, n)
    <2>1. \A i \in 1 .. d : Token(IF i = 1 THEN "size" ELSE "digit", i, n) \in Tokens
      BY <1>1 DEF Token, Tokens
    <2>2. number \in Seq(Tokens)
      BY <1>1, <2>1
    <2>3. Len(number) = d
      BY <1>1
    <2> QED
      BY <2>2, <2>3
  <1>5. number[1] = Token("size", 1, n) /\ \A i \in 2 .. d : number[i].kind = "digit"
    BY <1>1, <1>4 DEF Token
  <1> HIDE DEF number
  <1>6. /\ number \o CRLF \in Seq(Tokens) /\ Len(number \o CRLF) = Len(number) + Len(CRLF)
        /\ \A i \in 1 .. Len(number) : (number \o CRLF)[i] = number[i]
        /\ \A i \in 1 .. Len(CRLF) : (number \o CRLF)[Len(number) + i] = CRLF[i]
    BY <1>2, <1>4, Concatenation, Zenon
  <1>7. /\ SizeLine(n) \in Seq(Tokens) /\ Len(SizeLine(n)) = d + 2
        /\ \A i \in 1 .. d : SizeLine(n)[i] = number[i]
        /\ SizeLine(n)[d + 1] = CRLF[1] /\ SizeLine(n)[d + 2] = CRLF[2]
    BY <1>2, <1>3, <1>4, <1>6
  <1>8. SizeLine(n)[1] = number[1] /\ \A i \in 2 .. d : SizeLine(n)[i] = number[i]
    BY <1>1, <1>7
  <1> QED
    BY <1>2, <1>5, <1>7, <1>8 DEF d

\* What the message made of a piece of n bytes consists of, with d digits.
ChunkOf(m, piece, n, d) ==
    /\ Len(m) = n + d + 4
    /\ m[1] = Token("size", 1, n)
    /\ \A i \in 2 .. d : m[i].kind = "digit"
    /\ m[d + 1].kind = "cr" /\ m[d + 2].kind = "lf"
    /\ \A i \in 1 .. n : m[d + 2 + i] = piece[i]
    /\ m[d + n + 3].kind = "cr" /\ m[d + n + 4].kind = "lf"

LEMMA MessageIs ==
    ASSUME NEW piece \in Seq(Tokens)
    PROVE  /\ Message(piece) \in Seq(Tokens)
           /\ ~chunk => Message(piece) = piece
           /\ chunk => ChunkOf(Message(piece), piece, Len(piece), Digits(Len(piece)))
  <1> DEFINE n == Len(piece)
             d == Digits(n)
             line == SizeLine(n)
             most == line \o piece
             all  == most \o CRLF
  <1>1. n \in Nat /\ d \in 1 .. 4 /\ d \in Nat
    BY DigitsIs
  <1>2. /\ line \in Seq(Tokens) /\ Len(line) = d + 2
        /\ line[1] = Token("size", 1, n)
        /\ \A i \in 2 .. d : line[i].kind = "digit"
        /\ line[d + 1].kind = "cr" /\ line[d + 2].kind = "lf"
    BY <1>1, SizeLineIs
  <1>3. CRLF \in Seq(Tokens) /\ Len(CRLF) = 2 /\ CRLF[1].kind = "cr" /\ CRLF[2].kind = "lf"
    BY DEF CRLF, Token, Tokens
  <1>4. chunk => Message(piece) = all
    BY DEF Message
  <1> HIDE DEF line, n, d
  <1>5. /\ most \in Seq(Tokens) /\ Len(most) = d + 2 + n
        /\ \A i \in 1 .. d + 2 : most[i] = line[i]
        /\ \A i \in 1 .. n : most[d + 2 + i] = piece[i]
    <2>1. /\ most \in Seq(Tokens) /\ Len(most) = Len(line) + Len(piece)
          /\ \A i \in 1 .. Len(line) : most[i] = line[i]
          /\ \A i \in 1 .. Len(piece) : most[Len(line) + i] = piece[i]
      BY <1>2, Concatenation, Zenon
    <2> HIDE DEF most
    <2> QED
      BY <1>1, <1>2, <2>1 DEF n
  <1> HIDE DEF most
  <1>6. /\ all \in Seq(Tokens) /\ Len(all) = n + d + 4
        /\ \A i \in 1 .. d + 2 + n : all[i] = most[i]
        /\ all[d + n + 3] = CRLF[1] /\ all[d + n + 4] = CRLF[2]
    <2>1. /\ all \in Seq(Tokens) /\ Len(all) = Len(most) + Len(CRLF)
          /\ \A i \in 1 .. Len(most) : all[i] = most[i]
          /\ \A i \in 1 .. Len(CRLF) : all[Len(most) + i] = CRLF[i]
      BY <1>3, <1>5, Concatenation, Zenon
    <2> HIDE DEF all
    <2>2. all[Len(most) + 1] = CRLF[1] /\ all[Len(most) + 2] = CRLF[2]
      BY <1>3, <2>1
    <2>3. Len(most) + 1 = d + n + 3 /\ Len(most) + 2 = d + n + 4
      BY <1>1, <1>5
    <2> QED
      BY <1>1, <1>3, <1>5, <2>1, <2>2, <2>3
  <1> HIDE DEF all
  <1>7. /\ \A i \in 1 .. d + 2 : all[i] = line[i]
        /\ \A i \in 1 .. n : all[d + 2 + i] = piece[i]
    BY <1>1, <1>5, <1>6
  <1>8. /\ all[1] = Token("size", 1, n)
        /\ \A i \in 2 .. d : all[i].kind = "digit"
        /\ all[d + 1].kind = "cr" /\ all[d + 2].kind = "lf"
    BY <1>1, <1>2, <1>7
  <1>9. ChunkOf(all, piece, n, d)
    BY <1>3, <1>6, <1>7, <1>8 DEF ChunkOf
  <1>10. ~chunk => Message(piece) = piece
    BY DEF Message
  <1> QED
    BY <1>4, <1>6, <1>9, <1>10 DEF n, d

\* What becomes of the bytes read when readFile returns.
LEMMA ReadFileIs ==
    ASSUME Typed, ReadFileDone
    PROVE  LET n == Len(data)
           IN /\ msg' = Message(data) /\ msg' \in Seq(Tokens)
              /\ bytesSent' = bytesSent + Len(msg')
              /\ readBytes' = IF chunk THEN readBytes + n ELSE readBytes
  BY MessageIs DEF ReadFileDone, Advanced, Counted, Typed

-----------------------------------------------------------------------------
(* Types. *)

\* What an edit of the given kind does to the file, and to the file readFile has open.
EditFacts(kind) ==
    /\ kind \in EditKinds
    /\ file' \in File /\ invitedFile' \in File
    /\ invitedFile'.v <= file'.v /\ file'.v <= Len(edits')
    /\ edits' \in Seq(EditKinds) /\ Len(edits') <= MaxEdits /\ edits' # <<>> /\ edits' # edits
    /\ Kinds' = Kinds \cup {kind}
    /\ file'.v >= file.v
    /\ kind \notin {"rewrite", "replace"} => file'.v = file.v
    /\ file'.n < 0 => kind \in {"remove", "deny"}
    /\ kind = "append" => file'.n > file.n
    /\ file.n # Directory /\ file'.n # Directory
    /\ invitedFile'.v >= invitedFile.v
    /\ kind # "rewrite" => invitedFile'.v = invitedFile.v
    /\ invitedFile.n >= 0 => invitedFile'.n >= 0
    /\ kind = "append" /\ pc = "fread" /\ invitedFile.v = file.v => invitedFile'.n = file'.n
    /\ UNCHANGED <<methodVars, sizeFile, data, client>>

LEMMA EditIs ==
    ASSUME Typed, Edit
    PROVE  \E kind \in EditKinds : EditFacts(kind)
  <1>1. /\ file \in File /\ invitedFile \in File /\ edits \in Seq(EditKinds) /\ Len(edits) \in Nat
        /\ file.v <= Len(edits) /\ file.v \in Nat /\ file.n \in Int /\ MaxFile \in Nat /\ MaxEdits \in Nat
        /\ invitedFile.v <= file.v /\ invitedFile.v \in Nat /\ invitedFile.n \in Int
        /\ file.n >= Directory /\ file.n <= MaxFile
    BY ConstantsAssumption DEF Typed, TypeOK, File, Directory
  <1>2. ASSUME NEW kind \in EditKinds, NEW f, Edited(kind, f),
               f \in [v : Int, n : Int], f.v \in file.v .. file.v + 1, f.n \in Unreadable .. MaxFile,
               kind \notin {"rewrite", "replace"} => f.v = file.v,
               f.n < 0 => kind \in {"remove", "deny"},
               kind = "append" => f.n > file.n,
               file.n # Directory,
               invitedFile' = (IF kind \in {"append", "rewrite"} /\ Attached THEN f ELSE invitedFile)
        PROVE  EditFacts(kind)
    <2>1. /\ file' = f /\ edits' = Append(edits, kind) /\ Len(edits) < MaxEdits
          /\ UNCHANGED <<methodVars, sizeFile, data, client>>
      BY <1>2 DEF Edited
    <2>2. edits' \in Seq(EditKinds) /\ Len(edits') = Len(edits) + 1 /\ edits' # <<>> /\ edits' # edits
      <3>1. edits' \in Seq(EditKinds) /\ Len(edits') = Len(edits) + 1
        BY <1>1, <2>1, AppendProperties
      <3> QED
        BY <1>1, <3>1
    <2>3. Kinds' = Kinds \cup {kind}
      <3>1. /\ DOMAIN edits' = 1 .. Len(edits) + 1 /\ DOMAIN edits = 1 .. Len(edits)
            /\ edits'[Len(edits) + 1] = kind
            /\ \A i \in 1 .. Len(edits) : edits'[i] = edits[i]
        BY <1>1, <2>1
      <3> HIDE DEF EditKinds
      <3> QED
        BY <1>1, <3>1 DEF Kinds
    <2>4. f.v \in 0 .. MaxEdits /\ f.v <= Len(edits) + 1 /\ f.v >= file.v /\ f.n >= Unreadable
      BY <1>1, <1>2, <2>1 DEF Unreadable
    <2>5. file' \in File /\ f \in File
      BY <1>2, <2>1, <2>4 DEF File, Directory, Unreadable
    <2>6. /\ file'.v <= Len(edits') /\ Len(edits') <= MaxEdits /\ file'.v >= file.v
          /\ kind \notin {"rewrite", "replace"} => file'.v = file.v
          /\ file'.n < 0 => kind \in {"remove", "deny"}
          /\ kind = "append" => file'.n > file.n
          /\ file'.n # Directory
      BY <1>1, <1>2, <2>1, <2>2, <2>4 DEF Directory, Unreadable
    <2>7. CASE kind \in {"append", "rewrite"} /\ Attached
      <3>1. invitedFile' = f /\ invitedFile.v = file.v
        BY <1>2, <2>7 DEF Attached
      <3>2. /\ invitedFile' \in File /\ invitedFile'.v <= file'.v /\ invitedFile'.v >= invitedFile.v
            /\ kind # "rewrite" => invitedFile'.v = invitedFile.v
            /\ invitedFile'.n >= 0
            /\ invitedFile'.n = file'.n
        BY <1>1, <1>2, <2>1, <2>4, <2>5, <2>7, <3>1
      <3> QED
        BY <1>2, <2>1, <2>2, <2>3, <2>5, <2>6, <3>2, Zenon DEF EditFacts
    <2>8. CASE ~(kind \in {"append", "rewrite"} /\ Attached)
      <3>1. invitedFile' = invitedFile
        BY <1>2, <2>8
      <3>2. /\ invitedFile' \in File /\ invitedFile'.v <= file'.v /\ invitedFile'.v >= invitedFile.v
            /\ kind # "rewrite" => invitedFile'.v = invitedFile.v
            /\ invitedFile.n >= 0 => invitedFile'.n >= 0
            /\ kind = "append" /\ pc = "fread" /\ invitedFile.v = file.v => invitedFile'.n = file'.n
        BY <1>1, <1>2, <2>1, <2>4, <2>8, <3>1 DEF Attached
      <3> QED
        BY <1>2, <2>1, <2>2, <2>3, <2>5, <2>6, <3>2, Zenon DEF EditFacts
    <2> QED
      BY <2>7, <2>8
  <1>3. CASE EditInPlace /\ file.n < MaxFile /\ Edited("append", [v |-> file.v, n |-> file.n + 1])
    <2> DEFINE f == [v |-> file.v, n |-> file.n + 1]
    <2>1. f \in [v : Int, n : Int] /\ f.v = file.v /\ f.n = file.n + 1
      BY <1>1
    <2>2. file.n >= 0 /\ Edited("append", f) /\ "append" \in EditKinds
          /\ invitedFile' = (IF Attached THEN f ELSE invitedFile)
      BY <1>3 DEF EditInPlace, Edited, EditKinds
    <2>3. f.v \in file.v .. file.v + 1 /\ f.n \in Unreadable .. MaxFile /\ ~(f.n < 0) /\ f.n > file.n
          /\ file.n # Directory
      BY <1>1, <1>3, <2>1, <2>2 DEF Unreadable, Directory
    <2> HIDE DEF f
    <2> QED
      BY <1>2, <2>1, <2>2, <2>3
  <1>4. ASSUME NEW n \in 0 .. MaxFile, EditInPlace, Edited("rewrite", [v |-> file.v + 1, n |-> n])
        PROVE  \E kind \in EditKinds : EditFacts(kind)
    <2> DEFINE f == [v |-> file.v + 1, n |-> n]
    <2>1. f \in [v : Int, n : Int] /\ f.v = file.v + 1 /\ f.n = n
      BY <1>1
    <2>2. file.n >= 0 /\ Edited("rewrite", f) /\ "rewrite" \in EditKinds
          /\ invitedFile' = (IF Attached THEN f ELSE invitedFile)
      BY <1>4 DEF EditInPlace, Edited, EditKinds
    <2>3. f.v \in file.v .. file.v + 1 /\ f.n \in Unreadable .. MaxFile /\ ~(f.n < 0) /\ file.n # Directory
      BY <1>1, <2>1, <2>2 DEF Unreadable, Directory
    <2> HIDE DEF f
    <2> QED
      BY <1>2, <2>1, <2>2, <2>3
  <1>5. ASSUME EditName, NEW kind \in {"replace", "remove", "deny"}, NEW f, Edited(kind, f),
               f \in [v : Int, n : Int], f.v \in file.v .. file.v + 1, f.n \in Unreadable .. MaxFile,
               kind # "replace" => f.v = file.v,
               f.n < 0 => kind \in {"remove", "deny"}
        PROVE  \E k \in EditKinds : EditFacts(k)
    <2>1. kind \in EditKinds /\ file.n # Directory /\ invitedFile' = invitedFile /\ kind \notin {"append", "rewrite"}
      BY <1>5 DEF EditName, EditKinds
    <2> QED
      BY <1>2, <1>5, <2>1
  <1>6. ASSUME NEW n \in 0 .. MaxFile, EditName, Edited("replace", [v |-> file.v + 1, n |-> n])
        PROVE  \E kind \in EditKinds : EditFacts(kind)
    <2> DEFINE f == [v |-> file.v + 1, n |-> n]
    <2>1. f \in [v : Int, n : Int] /\ f.v = file.v + 1 /\ f.n = n /\ Edited("replace", f)
      BY <1>1, <1>6
    <2> HIDE DEF f
    <2>2. f.v \in file.v .. file.v + 1 /\ f.n \in Unreadable .. MaxFile /\ ~(f.n < 0)
      BY <1>1, <2>1 DEF Unreadable
    <2> QED
      BY <1>5, <1>6, <2>1, <2>2
  <1>7. CASE EditName /\ Edited("remove", [v |-> file.v, n |-> Absent])
    <2> DEFINE f == [v |-> file.v, n |-> Absent]
    <2>1. f \in [v : Int, n : Int] /\ f.v = file.v /\ f.n = -1 /\ Edited("remove", f)
      BY <1>1, <1>7 DEF Absent
    <2> HIDE DEF f
    <2>2. f.v \in file.v .. file.v + 1 /\ f.n \in Unreadable .. MaxFile
      BY <1>1, <2>1 DEF Unreadable
    <2> QED
      BY <1>5, <1>7, <2>1, <2>2
  <1>8. CASE EditName /\ Edited("deny", [v |-> file.v, n |-> Unreadable])
    <2> DEFINE f == [v |-> file.v, n |-> Unreadable]
    <2>1. f \in [v : Int, n : Int] /\ f.v = file.v /\ f.n = -2 /\ Edited("deny", f)
      BY <1>1, <1>8 DEF Unreadable
    <2> HIDE DEF f
    <2>2. f.v \in file.v .. file.v + 1 /\ f.n \in Unreadable .. MaxFile
      BY <1>1, <2>1 DEF Unreadable
    <2> QED
      BY <1>5, <1>8, <2>1, <2>2
  <1> QED
    BY <1>3, <1>4, <1>6, <1>7, <1>8, Zenon DEF Edit, EditInPlace, EditName

\* The tokens of a head.
LEMMA HeaderIs ==
    ASSUME NEW st \in Int, NEW size \in Int
    PROVE  /\ Header(st, size) \in Seq(Tokens) /\ Len(Header(st, size)) = 2
           /\ Header(st, size)[1] = Token("head", st, size)
           /\ Header(st, size)[2] = Token("end", 0, 0)
  BY DEF Header, Token, Tokens

\* The three ways a head comes to be sent.
StartSteps == StatRefuses \/ OpenForLength \/ OpenForLengthFails

StartFacts(st, size) ==
    /\ SendHeader(st, size)
    /\ st # 200 => size < 0
    /\ size >= 0 => size = file.n
    /\ size < 0 => file.n < 0 \/ st # 200
    /\ Forbidden => st # 200
    /\ pc \in {"start", "open"}

LEMMA StartIs ==
    ASSUME Typed, AtPlace, StartSteps
    PROVE  \E st \in {200, 400, 404, 423}, size \in -1 .. MaxFile : StartFacts(st, size)
  <1>1. /\ file \in File /\ file.n \in Int /\ file.n <= MaxFile /\ MaxFile \in Nat
        /\ dotted \in BOOLEAN
    BY ConstantsAssumption DEF Typed, TypeOK, File, Directory
  <1>2. CASE StatRefuses
    <2>1. PICK st \in Refusals, errno \in StatErrno : SendHeader(StatusAfter(errno, st), ERROR_RUN)
      BY <1>2 DEF StatRefuses
    <2>2. st \in {400, 404}
      BY DEF Refusals
    <2>3. StatusAfter(errno, st) \in {400, 404, 423}
      BY <2>2 DEF StatusAfter
    <2>4. ERROR_RUN = -1 /\ ERROR_RUN \in -1 .. MaxFile
      BY <1>1 DEF ERROR_RUN
    <2>5. pc = "start"
      BY <1>2 DEF StatRefuses
    <2>6. StartFacts(StatusAfter(errno, st), ERROR_RUN)
      BY <2>1, <2>3, <2>4, <2>5 DEF StartFacts
    <2> QED
      BY <2>3, <2>4, <2>6
  <1>3. CASE OpenForLength
    <2>1. SendHeader(status, file.n) /\ status = 200 /\ file.n \in -1 .. MaxFile /\ file.n >= 0 /\ pc = "open"
      BY <1>1, <1>3 DEF OpenForLength, AtPlace
    <2>2. ~Forbidden
      BY <2>1 DEF AtPlace
    <2>3. StartFacts(status, file.n)
      BY <2>1, <2>2 DEF StartFacts
    <2> QED
      BY <2>1, <2>3
  <1>4. CASE OpenForLengthFails
    <2>1. PICK errno \in FopenErrno : SendHeader(StatusAfter(errno, status), ERROR_RUN)
      BY <1>4 DEF OpenForLengthFails
    <2>2. StatusAfter(errno, status) \in {200, 404, 423}
      BY <1>4 DEF StatusAfter, AtPlace, OpenForLengthFails
    <2>3. ERROR_RUN = -1 /\ ERROR_RUN \in -1 .. MaxFile
      BY <1>1 DEF ERROR_RUN
    <2>4. ~Forbidden /\ file.n < 0 /\ pc = "open"
      BY <1>4 DEF AtPlace, OpenForLengthFails
    <2>5. StartFacts(StatusAfter(errno, status), ERROR_RUN)
      BY <2>1, <2>3, <2>4 DEF StartFacts
    <2> QED
      BY <2>2, <2>3, <2>5
  <1> QED
    BY <1>2, <1>3, <1>4 DEF StartSteps

LEMMA TypedStep ==
    ASSUME Typed, AtPlace, ReadFine, [Next]_vars
    PROVE  Typed'
  <1> USE DEF Places
  <1>0. edits' = edits => Kinds' = Kinds
    BY DEF Kinds
  <1>1. CASE StartSteps
    <2>1. PICK st \in {200, 400, 404, 423}, size \in -1 .. MaxFile : SendHeader(st, size)
      BY <1>1, StartIs DEF StartFacts
    <2>2. size \in Int /\ st \in Int
      BY ConstantsAssumption
    <2>3. msg' \in Seq(Tokens) /\ Len(msg') = 2
      BY <2>1, <2>2, HeaderIs DEF SendHeader
    <2> QED
      BY <1>0, <2>1, <2>3 DEF SendHeader, fileVars, Typed, TypeOK
  <1>2. CASE StatPasses
    BY <1>0, <1>2 DEF StatPasses, fileVars, Typed, TypeOK
  <1>3. CASE OpenForRead
    <2>1. file \in File /\ file.n \in Nat /\ data = <<>> /\ file.v <= file.v
      BY <1>3, ConstantsAssumption DEF OpenForRead, Typed, TypeOK, AtPlace, File, Directory
    <2>2. LENGTH_CHUNK \in Nat
      BY ConstantsAssumption
    <2>3. sizeFile' \in Nat /\ Len(<<>>) = 0
      BY <1>3, <2>1, <2>2 DEF OpenForRead, Asked
    <2> QED
      BY <1>0, <1>3, <2>1, <2>3 DEF OpenForRead, Typed, TypeOK
  <1>4. CASE ReadByte
    <2>1. /\ pc = "fread" /\ Len(data) # sizeFile /\ Len(data) <= sizeFile /\ Len(data) \in Nat /\ sizeFile \in Nat
          /\ readBytes \in Int /\ invitedFile.v \in Int
      BY <1>4, ConstantsAssumption DEF ReadByte, ReadOver, Typed, TypeOK, File
    <2>2. Byte(invitedFile.v, readBytes + Len(data) + 1) \in Tokens
      BY <2>1 DEF Byte, Token, Tokens
    <2>3. data' \in Seq(Tokens) /\ Len(data') = Len(data) + 1
      BY <1>4, <2>2, AppendProperties DEF ReadByte, Typed
    <2>4. Len(data') <= sizeFile
      BY <2>1, <2>3
    <2> QED
      BY <1>0, <1>4, <2>3, <2>4 DEF ReadByte, methodVars, Typed, TypeOK
  <1>5. CASE ReadFileDone
    <2>1. /\ msg' \in Seq(Tokens) /\ bytesSent' = bytesSent + Len(msg')
          /\ readBytes' = IF chunk THEN readBytes + Len(data) ELSE readBytes
      BY <1>5, ReadFileIs
    <2>2. readBytes >= 0 /\ Len(data) \in Nat /\ readBytes \in -1 .. MaxFile /\ MaxFile \in Nat
          /\ readBytes + Len(data) <= MaxFile
      <3>1. pc = "fread"
        BY <1>5 DEF ReadFileDone
      <3>2. readBytes + Len(data) <= MaxFile
        BY <3>1 DEF ReadFine
      <3> QED
        BY <3>1, <3>2, ConstantsAssumption DEF AtPlace, Typed, TypeOK
    <2>3. readBytes' \in -1 .. MaxFile
      BY <2>1, <2>2
    <2>4. bytesSent' \in Int /\ Len(msg') \in Nat
      BY <2>1 DEF Typed
    <2>5. NoFile \in File /\ NoFile.v = 0
      BY ConstantsAssumption DEF NoFile, File, Absent, Directory
    <2>6. file.v >= 0
      BY ConstantsAssumption DEF Typed, TypeOK, File
    <2>7. <<>> \in Seq(Tokens) /\ Len(<<>>) = 0
      OBVIOUS
    <2>8. /\ invitedFile' = NoFile /\ sizeFile' = 0 /\ data' = <<>> /\ pc' = "body" /\ total' = 0
          /\ UNCHANGED <<dotted, chunk, status, wire, failed, client, file, edits>>
      BY <1>5 DEF ReadFileDone
    <2> QED
      BY <1>0, <2>1, <2>3, <2>4, <2>5, <2>6, <2>7, <2>8 DEF Typed, TypeOK
  <1>6. CASE ReadFileFails
    <2>1. readBytes' \in -1 .. MaxFile /\ bytesSent' \in Int
      BY <1>6, ConstantsAssumption DEF ReadFileFails, AtPlace, Typed, TypeOK, ERROR_RUN
    <2>2. status' \in {200, 400, 404, 423}
      BY <1>6 DEF ReadFileFails, StatusAfter, AtPlace
    <2> QED
      BY <1>0, <1>6, <2>1, <2>2 DEF ReadFileFails, fileVars, Typed, TypeOK
  <1>7. ASSUME NEW k \in 1 .. Len(msg) - total, Send(k) PROVE Typed'
    <2>1. wire' \in Seq(Tokens)
      BY <1>7, SendKeepsStream
    <2> QED
      BY <1>0, <1>7, <2>1 DEF Send, fileVars, Typed, TypeOK
  <1>8. CASE SendAllDone \/ SendFails \/ BrokenPipe
    <2>1. pc' \in Places
      BY <1>8 DEF SendAllDone, SendFails, BrokenPipe, Return, AfterPiece
    <2>2. client' \in {"open", "reset", "broken"} /\ failed' \in BOOLEAN
      BY <1>0, <1>8 DEF SendAllDone, SendFails, BrokenPipe, Typed, TypeOK
    <2>3. UNCHANGED <<dotted, chunk, status, readBytes, bytesSent, msg, total, wire, fileVars, file, edits>>
      BY <1>8 DEF SendAllDone, SendFails, BrokenPipe
    <2> QED
      BY <1>0, <2>1, <2>2, <2>3 DEF fileVars, Typed, TypeOK
  <1>9. CASE Reset
    BY <1>0, <1>9 DEF Reset, methodVars, fileVars, Typed, TypeOK
  <1>10. CASE Edit
    <2>1. PICK kind \in EditKinds : EditFacts(kind)
      BY <1>10, EditIs
    <2>2. Kinds' \cap {"rewrite", "replace"} = {} => file'.v = 0
      <3>1. Kinds' = Kinds \cup {kind} /\ (kind \notin {"rewrite", "replace"} => file'.v = file.v)
        BY <2>1 DEF EditFacts
      <3> QED
        BY <3>1 DEF Typed
    <2>3. /\ file' \in File /\ invitedFile' \in File
          /\ invitedFile'.v <= file'.v /\ file'.v <= Len(edits')
          /\ edits' \in Seq(EditKinds) /\ Len(edits') <= MaxEdits
          /\ UNCHANGED <<pc, dotted, chunk, status, readBytes, bytesSent, msg, total, wire, failed,
                         sizeFile, data, client>>
      BY <2>1 DEF EditFacts, methodVars
    <2> QED
      BY <2>2, <2>3 DEF Typed, TypeOK
  <1>11. CASE UNCHANGED vars
    BY <1>0, <1>11 DEF vars, methodVars, fileVars, Typed, TypeOK
  <1> QED
    BY <1>1, <1>2, <1>3, <1>4, <1>5, <1>6, <1>7, <1>8, <1>9, <1>10, <1>11 DEF Next, MethodStep, StartSteps

LEMMA AtPlaceStep ==
    ASSUME Typed, AtPlace, ReadFine, [Next]_vars
    PROVE  AtPlace'
  <1>0. /\ msg \in Seq(Tokens) /\ total \in 0 .. Len(msg) /\ Len(msg) \in Nat /\ status \in {200, 400, 404, 423}
        /\ readBytes \in Int /\ pc \in Places
    BY DEF Typed, TypeOK, Places
  <1>1. CASE StartSteps
    <2>1. PICK st \in {200, 400, 404, 423}, size \in -1 .. MaxFile :
              /\ SendHeader(st, size)
              /\ st # 200 => size < 0
              /\ Forbidden => st # 200
              /\ pc \in {"start", "open"}
      BY <1>1, StartIs DEF StartFacts
    <2>2. size \in Int /\ st \in Int
      BY ConstantsAssumption
    <2>3. msg'[1].n = size
      <3>1. msg'[1] = Token("head", st, size)
        BY <2>1, <2>2, HeaderIs DEF SendHeader
      <3> QED
        BY <3>1 DEF Token
    <2>4. wire' = SubSeq(msg', 1, total')
      BY <2>1, SubSeqEmpty DEF SendHeader, AtPlace
    <2> QED
      BY <2>1, <2>3, <2>4 DEF SendHeader, fileVars, AtPlace, Forbidden
  <1>2. CASE StatPasses
    <2>1. ~Forbidden
      BY <1>2 DEF StatPasses, Forbidden
    <2> QED
      BY <1>2, <2>1 DEF StatPasses, fileVars, AtPlace, Forbidden
  <1>3. CASE OpenForRead
    BY <1>3 DEF OpenForRead, AtPlace, Forbidden
  <1>4. CASE ReadByte
    BY <1>4 DEF ReadByte, methodVars, AtPlace, Forbidden
  <1>5. CASE ReadFileDone
    <2>1. Len(data) \in Nat
      BY DEF Typed
    <2> QED
      BY <1>0, <1>5, <2>1 DEF ReadFileDone, Advanced, AtPlace, Forbidden
  <1>6. CASE ReadFileFails
    BY <1>6 DEF ReadFileFails, fileVars, AtPlace, Forbidden
  <1>7. ASSUME NEW k \in 1 .. Len(msg) - total, Send(k) PROVE AtPlace'
    <2>1. /\ pc' = pc /\ msg' = msg /\ total' = total + k /\ InSendAll
          /\ wire' = wire \o SubSeq(msg, total + 1, total + k)
          /\ UNCHANGED <<dotted, chunk, status, readBytes, bytesSent, failed, data, file>>
      BY <1>7 DEF Send, Sending, InSendAll, fileVars
    <2>2. ASSUME pc = "head" PROVE wire' = SubSeq(msg, 1, total')
      <3>1. wire = SubSeq(msg, 1, total)
        BY <2>2 DEF AtPlace
      <3>2. 1 \in 1 .. Len(msg) + 1 /\ total \in 1 - 1 .. Len(msg) /\ total + k \in total .. Len(msg)
        BY <1>0
      <3>3. SubSeq(msg, 1, total) \o SubSeq(msg, total + 1, total + k) = SubSeq(msg, 1, total + k)
        BY <1>0, <3>2, ConcatAdjacentSubSeq
      <3> QED
        BY <2>1, <3>1, <3>3
    <2> QED
      BY <2>1, <2>2 DEF AtPlace, InSendAll, Forbidden
  <1>8. CASE SendAllDone \/ SendFails \/ BrokenPipe
    <2>1. /\ pc \in {"head", "body"} /\ pc' \in {"read", "done", "dead"}
          /\ pc' = "read" => \/ pc = "head" /\ status = 200
                             \/ pc = "body" /\ total > SIZE_CHUNK_WITHOUT_DATE
          /\ UNCHANGED <<dotted, chunk, status, readBytes, bytesSent, msg, total, wire, data, file>>
      BY <1>8 DEF SendAllDone, SendFails, BrokenPipe, Return, AfterPiece, Sending, fileVars
    <2>2. pc' = "read" => readBytes >= 0 /\ status = 200
      <3>1. total > SIZE_CHUNK_WITHOUT_DATE => msg # <<>>
        BY <1>0 DEF SIZE_CHUNK_WITHOUT_DATE
      <3> QED
        BY <1>0, <2>1, <3>1 DEF AtPlace
    <2>3. Forbidden' => pc' \in {"done", "dead"}
      BY <2>1 DEF AtPlace, Forbidden
    <2> QED
      BY <2>1, <2>2, <2>3 DEF AtPlace
  <1>9. CASE Reset \/ UNCHANGED vars
    BY <1>9 DEF Reset, vars, methodVars, fileVars, AtPlace, Forbidden
  <1>10. CASE Edit
    <2>1. PICK kind \in EditKinds : EditFacts(kind)
      BY <1>10, EditIs
    <2>2. UNCHANGED <<methodVars, data>> /\ (Forbidden' <=> Forbidden)
      BY <2>1 DEF EditFacts, Forbidden, methodVars
    <2> QED
      BY <2>2 DEF methodVars, AtPlace
  <1> QED
    BY <1>1, <1>2, <1>3, <1>4, <1>5, <1>6, <1>7, <1>8, <1>9, <1>10 DEF Next, MethodStep, StartSteps

-----------------------------------------------------------------------------
(* The steps that add nothing to the stream. *)

LEMMA TypedNext ==
    ASSUME IndInv, [Next]_vars
    PROVE  Typed' /\ AtPlace'
  BY TypedStep, AtPlaceStep DEF IndInv, StreamFine

LEMMA StreamIsWireNext ==
    ASSUME IndInv, [Next]_vars, InSendAll' => total' = Len(msg')
    PROVE  Stream' = wire'
  <1>1. Typed'
    BY TypedNext
  <1>2. (Typed /\ (InSendAll => total = Len(msg)) => Stream = wire)'
    BY StreamIsWire, PTL
  <1> QED
    BY <1>1, <1>2

\* What the head and the edits decide does not change with the stream.
LEMMA SameHead ==
    ASSUME UNCHANGED edits, Stream' = Stream
    PROVE  (Kept' <=> Kept) /\ BodyLength(Stream)' = BodyLength(Stream) /\ Stream[1]' = Stream[1]
  BY DEF Kept, Kinds, BodyLength

LEMMA SendStep ==
    ASSUME IndInv, NEW k \in 1 .. Len(msg) - total, Send(k)
    PROVE  StreamFine'
  <1>1. Stream' = Stream
    BY SendKeepsStream DEF IndInv
  <1>2. UNCHANGED <<pc, dotted, chunk, status, readBytes, bytesSent, msg, failed, fileVars, client, file, edits>>
        /\ pc # "fread"
    BY DEF Send, Sending
  <1>3. BytesFine'
    BY <1>1, <1>2 DEF IndInv, StreamFine, BytesFine, Ordered, OneVersion, Gapless, Got, Bytes, Kinds
  <1>4. ChunksFine'
    BY <1>1, <1>2 DEF IndInv, StreamFine, ChunksFine, Chunked, Follows, GoesOn
  <1>5. HeadFine' /\ RecordFine'
    <2>1. (HasHead' <=> HasHead) /\ (Forbidden' <=> Forbidden)
      BY <1>2 DEF HasHead, Forbidden
    <2>2. (Kept' <=> Kept) /\ BodyLength(Stream)' = BodyLength(Stream) /\ Stream[1]' = Stream[1]
      BY <1>1, <1>2, SameHead
    <2>3. HeadFine'
      BY <1>1, <2>1 DEF IndInv, StreamFine, HeadFine
    <2>4. RecordFine'
      BY <1>2, <2>1, <2>2 DEF IndInv, StreamFine, RecordFine
    <2> QED
      BY <2>3, <2>4
  <1>6. WholeFine'
    BY <1>1, <1>2 DEF IndInv, StreamFine, WholeFine, HasHead, Kinds, BodyLength, Last, GoesOn, Got, Bytes
  <1>7. ReadFine'
    BY <1>2 DEF ReadFine
  <1> QED
    BY <1>3, <1>4, <1>5, <1>6, <1>7 DEF StreamFine

LEMMA DoneStep ==
    ASSUME IndInv, SendAllDone
    PROVE  StreamFine'
  <1>1. Stream' = Stream
    <2>1. Stream = wire
      BY StreamIsWire DEF IndInv, SendAllDone
    <2>2. wire' = wire /\ ~InSendAll'
      BY DEF SendAllDone, Return, AfterPiece, InSendAll
    <2>3. Stream' = wire'
      BY <2>2, StreamIsWireNext DEF Next, MethodStep
    <2> QED
      BY <2>1, <2>2, <2>3
  <1>2. /\ UNCHANGED <<dotted, chunk, status, readBytes, bytesSent, msg, failed, fileVars, client, file, edits>>
        /\ pc \in {"head", "body"} /\ pc' \in {"read", "done"} /\ total = Len(msg)
        /\ pc' = "read" => \/ pc = "head" /\ status = 200
                           \/ pc = "body" /\ chunk /\ Len(msg) > SIZE_CHUNK_WITHOUT_DATE
        /\ pc' = "done" => \/ pc = "head" /\ status # 200
                           \/ pc = "body" /\ ~(chunk /\ Len(msg) > SIZE_CHUNK_WITHOUT_DATE)
        /\ Len(msg) > SIZE_CHUNK_WITHOUT_DATE => msg # <<>>
    BY DEF SendAllDone, Return, AfterPiece, SIZE_CHUNK_WITHOUT_DATE
  <1>3. pc = "head" => Bytes(Stream) = {} /\ readBytes = 0
    BY DEF IndInv, StreamFine, BytesFine, AtPlace
  <1>4. BytesFine'
    <2>1. pc' = "read" /\ ~chunk => Bytes(Stream) = {}
      BY <1>2, <1>3
    <2>2. chunk /\ pc' = "read" =>
             /\ \A i \in Bytes(Stream) : Stream[i].n <= readBytes
             /\ ~failed => \A n \in 1 .. readBytes : Got(Stream, n, Len(Stream))
      <3>1. CASE pc = "head"
        BY <1>3, <3>1
      <3>2. CASE pc = "body"
        BY <1>2, <3>2 DEF IndInv, StreamFine, BytesFine
      <3> QED
        BY <1>2, <3>1, <3>2
    <2>3. /\ Ordered(Stream)' /\ (\A i \in Bytes(Stream) : Stream[i].n >= 1 /\ Stream[i].v \in 0 .. file.v)'
          /\ (~chunk /\ "rewrite" \notin Kinds => OneVersion(Stream))'
      BY <1>1, <1>2 DEF IndInv, StreamFine, BytesFine, Ordered, OneVersion, Bytes, Kinds
    <2>4. (~failed => Gapless(Stream))'
      BY <1>1, <1>2 DEF IndInv, StreamFine, BytesFine, Gapless, Got, Bytes
    <2>5. (pc \in {"start", "open", "head"} \/ (pc \in {"read", "fread"} /\ ~chunk) => Bytes(Stream) = {})'
      BY <1>1, <1>2, <2>1 DEF Bytes
    <2>6. (chunk /\ (pc \in {"read", "fread"} \/ (pc = "body" /\ msg # <<>>)) =>
             /\ \A i \in Bytes(Stream) : Stream[i].n <= readBytes
             /\ ~failed => \A n \in 1 .. readBytes : Got(Stream, n, Len(Stream)))'
      BY <1>1, <1>2, <2>2 DEF Bytes, Got
    <2> QED
      BY <2>3, <2>4, <2>5, <2>6 DEF BytesFine
  <1>5. ChunksFine'
    <2>1. pc' = "read" => pc = "head" \/ GoesOn
      BY <1>2 DEF GoesOn
    <2> QED
      BY <1>1, <1>2, <2>1 DEF IndInv, StreamFine, ChunksFine, Chunked, Follows
  <1>6. HeadFine' /\ RecordFine'
    <2>1. (HasHead' <=> HasHead) /\ (Forbidden' <=> Forbidden)
      BY <1>2 DEF HasHead, Forbidden
    <2>2. (Kept' <=> Kept) /\ BodyLength(Stream)' = BodyLength(Stream) /\ Stream[1]' = Stream[1]
      BY <1>1, <1>2, SameHead
    <2>3. pc \in {"body", "done"} /\ msg = <<>> => pc' = "done"
      BY <1>2
    <2>4. HeadFine'
      BY <1>1, <2>1 DEF IndInv, StreamFine, HeadFine
    <2>5. RecordFine'
      BY <1>2, <2>1, <2>2, <2>3 DEF IndInv, StreamFine, RecordFine
    <2> QED
      BY <2>4, <2>5
  <1>7. WholeFine'
    <2>1. pc' = "done" /\ status = 200 => Last
      BY <1>2 DEF Last, GoesOn
    <2>2. Last' => pc' = "done"
      BY <1>2 DEF Last
    <2>3. ~chunk /\ pc' = "read" => pc = "head"
      BY <1>2
    <2> QED
      BY <1>1, <1>2, <2>1, <2>2, <2>3 DEF IndInv, StreamFine, WholeFine, HasHead, Kinds, BodyLength, Got, Bytes
  <1>8. ReadFine'
    BY <1>2 DEF ReadFine
  <1> QED
    BY <1>4, <1>5, <1>6, <1>7, <1>8 DEF StreamFine

\* send fails, or kills the process: what was still to be sent is lost.
LEMMA CutStep ==
    ASSUME IndInv, SendFails \/ BrokenPipe
    PROVE  StreamFine'
  <1>1. /\ UNCHANGED <<dotted, chunk, status, readBytes, bytesSent, msg, wire, fileVars, file, edits>>
        /\ pc \in {"head", "body"} /\ pc' \in {"read", "done", "dead"}
        /\ pc' = "dead" \/ failed'
        /\ pc' # "dead" => failed'
        /\ failed => failed'
        /\ pc' = "read" => \/ pc = "head" /\ status = 200
                           \/ pc = "body" /\ chunk /\ total > SIZE_CHUNK_WITHOUT_DATE
    BY DEF SendFails, BrokenPipe, Sending, Return, AfterPiece
  <1>2. Stream' = wire
    <2>1. Stream' = wire'
      BY <1>1, StreamIsWireNext DEF Next, MethodStep, InSendAll
    <2> QED
      BY <1>1, <2>1
  <1>3. /\ DOMAIN wire \subseteq DOMAIN Stream /\ \A i \in DOMAIN wire : wire[i] = Stream[i]
        /\ Bytes(wire) \subseteq Bytes(Stream) /\ \A i \in Bytes(wire) : wire[i] = Stream[i]
        /\ Ordered(Stream) => Ordered(wire)
        /\ OneVersion(Stream) => OneVersion(wire)
        /\ Gapless(Stream) => Gapless(wire)
        /\ Chunked(Stream) => Chunked(wire)
    <2>1. wire \in Seq(Tokens) /\ Stream \in Seq(Tokens) /\ Len(wire) <= Len(Stream)
          /\ \A i \in 1 .. Len(wire) : wire[i] = Stream[i]
      <3>1. Len(Pending) \in Nat /\ Len(wire) \in Nat /\ wire \in Seq(Tokens)
        BY StreamIs DEF IndInv, Typed
      <3> QED
        BY <3>1, StreamIs DEF IndInv
    <2>2. DOMAIN wire = 1 .. Len(wire) /\ DOMAIN Stream = 1 .. Len(Stream) /\ Len(wire) \in Nat /\ Len(Stream) \in Nat
      BY <2>1
    <2>3. DOMAIN wire \subseteq DOMAIN Stream
      BY <2>1, <2>2
    <2> QED
      BY <2>1, <2>2, <2>3, PrefixFine
  <1>4. BytesFine'
    <2>1. pc' = "read" /\ ~chunk => Bytes(wire) = {}
      BY <1>1, <1>3 DEF IndInv, StreamFine, BytesFine
    <2>2. chunk /\ pc' = "read" => \A i \in Bytes(wire) : wire[i].n <= readBytes
      <3>1. CASE pc = "head"
        BY <1>3, <3>1 DEF IndInv, StreamFine, BytesFine
      <3>2. CASE pc = "body" /\ total > SIZE_CHUNK_WITHOUT_DATE
        <4>1. msg # <<>>
          BY <3>2 DEF IndInv, Typed, TypeOK, SIZE_CHUNK_WITHOUT_DATE
        <4> QED
          BY <1>3, <3>2, <4>1 DEF IndInv, StreamFine, BytesFine
      <3> QED
        BY <1>1, <3>1, <3>2
    <2>3. /\ Ordered(Stream)' /\ (\A i \in Bytes(Stream) : Stream[i].n >= 1 /\ Stream[i].v \in 0 .. file.v)'
          /\ (~chunk /\ "rewrite" \notin Kinds => OneVersion(Stream))'
      <3>1. /\ Ordered(wire) /\ \A i \in Bytes(wire) : wire[i].n >= 1 /\ wire[i].v \in 0 .. file.v
            /\ ~chunk /\ "rewrite" \notin Kinds => OneVersion(wire)
        BY <1>3 DEF IndInv, StreamFine, BytesFine
      <3> QED
        BY <1>1, <1>2, <3>1 DEF Ordered, OneVersion, Bytes, Kinds
    <2>4. (~failed => Gapless(Stream))'
      <3>1. ~failed => Gapless(wire)
        BY <1>3 DEF IndInv, StreamFine, BytesFine
      <3> QED
        BY <1>1, <1>2, <3>1 DEF Gapless, Got, Bytes
    <2>5. (pc \in {"start", "open", "head"} \/ (pc \in {"read", "fread"} /\ ~chunk) => Bytes(Stream) = {})'
      BY <1>1, <1>2, <2>1 DEF Bytes
    <2>6. (chunk /\ (pc \in {"read", "fread"} \/ (pc = "body" /\ msg # <<>>)) =>
             /\ \A i \in Bytes(Stream) : Stream[i].n <= readBytes
             /\ ~failed => \A n \in 1 .. readBytes : Got(Stream, n, Len(Stream)))'
      BY <1>1, <1>2, <2>2 DEF Bytes
    <2> QED
      BY <2>3, <2>4, <2>5, <2>6 DEF BytesFine
  <1>5. ChunksFine'
    <2>1. chunk /\ ~failed => Chunked(wire)
      BY <1>3 DEF IndInv, StreamFine, ChunksFine
    <2>2. (chunk /\ ~failed => Chunked(Stream))'
      BY <1>1, <1>2, <2>1 DEF Chunked, Follows
    <2>3. ~failed' => pc' = "dead"
      BY <1>1
    <2> QED
      BY <2>2, <2>3 DEF ChunksFine
  <1>6. ~HasHead' /\ ReadFine'
    BY <1>1 DEF HasHead, ReadFine
  <1>7. HeadFine'
    <2>1. Forbidden => \A i \in DOMAIN wire : wire[i].kind # "byte" /\ (wire[i].kind = "head" => wire[i].v # 200)
      BY <1>3 DEF IndInv, StreamFine, HeadFine
    <2> QED
      BY <1>1, <1>2, <1>6, <2>1 DEF HeadFine, Forbidden
  <1> QED
    BY <1>4, <1>5, <1>6, <1>7 DEF StreamFine, RecordFine, WholeFine

LEMMA StutterStep ==
    ASSUME IndInv, Reset \/ UNCHANGED vars
    PROVE  StreamFine'
  <1>1. UNCHANGED <<methodVars, fileVars, file, edits>>
    BY DEF Reset, vars
  <1>2. Stream' = Stream
    BY <1>1 DEF methodVars, Stream, Pending, InSendAll
  <1>3. BytesFine'
    BY <1>1, <1>2 DEF methodVars, IndInv, StreamFine, BytesFine, Ordered, OneVersion, Gapless, Got, Bytes, Kinds
  <1>4. ChunksFine'
    BY <1>1, <1>2 DEF methodVars, IndInv, StreamFine, ChunksFine, Chunked, Follows, GoesOn
  <1>5. HeadFine' /\ RecordFine'
    <2>1. (HasHead' <=> HasHead) /\ (Forbidden' <=> Forbidden)
      BY <1>1 DEF methodVars, HasHead, Forbidden
    <2>2. (Kept' <=> Kept) /\ BodyLength(Stream)' = BodyLength(Stream) /\ Stream[1]' = Stream[1]
      BY <1>1, <1>2, SameHead
    <2>3. HeadFine'
      BY <1>2, <2>1 DEF IndInv, StreamFine, HeadFine
    <2>4. RecordFine'
      BY <1>1, <2>1, <2>2 DEF methodVars, IndInv, StreamFine, RecordFine
    <2> QED
      BY <2>3, <2>4
  <1>6. WholeFine'
    BY <1>1, <1>2 DEF methodVars, fileVars, IndInv, StreamFine, WholeFine, HasHead, Kinds, BodyLength, Last, GoesOn, Got, Bytes
  <1>7. ReadFine'
    BY <1>1, <1>2 DEF methodVars, fileVars, IndInv, StreamFine, ReadFine, Bytes, Kinds
  <1> QED
    BY <1>3, <1>4, <1>5, <1>6, <1>7 DEF StreamFine

\* The file is edited.
LEMMA EditStep ==
    ASSUME IndInv, Edit
    PROVE  StreamFine'
  <1>1. PICK kind \in EditKinds : EditFacts(kind)
    BY EditIs DEF IndInv
  <1>2. /\ UNCHANGED methodVars /\ UNCHANGED <<sizeFile, data>> /\ Kinds' = Kinds \cup {kind} /\ edits' # <<>>
        /\ file'.v >= file.v
        /\ kind \notin {"rewrite", "replace"} => file'.v = file.v
        /\ file'.n < 0 => kind \in {"remove", "deny"}
        /\ kind = "append" => file'.n > file.n
        /\ file.n # Directory /\ file'.n # Directory
        /\ invitedFile'.v >= invitedFile.v
        /\ kind # "rewrite" => invitedFile'.v = invitedFile.v
        /\ invitedFile.n >= 0 => invitedFile'.n >= 0
        /\ kind = "append" /\ pc = "fread" /\ invitedFile.v = file.v => invitedFile'.n = file'.n
    BY <1>1 DEF EditFacts
  <1>3. Stream' = Stream
    BY <1>2 DEF methodVars, Stream, Pending, InSendAll
  <1>4. /\ file.v \in Nat /\ file'.v \in Nat /\ file.n \in Int /\ file'.n \in Int
        /\ invitedFile.v \in Nat /\ invitedFile'.v \in Nat /\ invitedFile.v <= file.v
        /\ \A i \in Bytes(Stream) : Stream[i].v \in Int
        /\ \A i \in 1 .. Len(data) : data[i].v \in Int
        /\ (HasHead => Stream[1].n \in Int)
    <2>1. Typed'
      BY TypedNext DEF Next
    <2>2. /\ file \in File /\ file' \in File /\ Stream \in Seq(Tokens) /\ invitedFile \in File /\ invitedFile' \in File
          /\ invitedFile.v <= file.v /\ data \in Seq(Tokens)
      BY <2>1, StreamIs DEF Typed, TypeOK, IndInv
    <2>3. /\ file.v \in Nat /\ file'.v \in Nat /\ file.n \in Int /\ file'.n \in Int
          /\ invitedFile.v \in Nat /\ invitedFile'.v \in Nat
      BY <2>2, ConstantsAssumption DEF File, Directory
    <2>4. (\A i \in 1 .. Len(Stream) : Stream[i] \in Tokens) /\ \A i \in 1 .. Len(data) : data[i] \in Tokens
      BY <2>2
    <2>5. DOMAIN Stream = 1 .. Len(Stream) /\ Len(Stream) \in Nat
      BY <2>2
    <2>6. HasHead => 1 \in 1 .. Len(Stream)
      BY <2>5 DEF IndInv, StreamFine, HeadFine
    <2> QED
      BY <2>2, <2>3, <2>4, <2>5, <2>6 DEF Bytes, Tokens
  <1>5. BytesFine'
    <2>1. \A i \in Bytes(Stream) : Stream[i].v \in 0 .. file'.v
      BY <1>2, <1>4 DEF IndInv, StreamFine, BytesFine
    <2>2. ~chunk /\ "rewrite" \notin Kinds' => OneVersion(Stream)
      BY <1>2 DEF IndInv, StreamFine, BytesFine
    <2> QED
      BY <1>2, <1>3, <2>1, <2>2 DEF methodVars, IndInv, StreamFine, BytesFine, Ordered, OneVersion, Gapless, Got, Bytes
  <1>6. ChunksFine'
    BY <1>2, <1>3 DEF methodVars, IndInv, StreamFine, ChunksFine, Chunked, Follows, GoesOn
  <1>7. HeadFine' /\ RecordFine'
    <2>1. Kept' => Kept
      BY <1>2, <1>3 DEF Kept
    <2>2. HasHead /\ file'.n < 0 /\ Stream[1].v = 200 => ~Kept'
      BY <1>2, <1>3 DEF Kept
    <2>3. ~Forbidden' \/ Forbidden
      BY <1>2 DEF Forbidden, methodVars
    <2>4. RecordFine'
      <3>1. HasHead' <=> HasHead
        BY <1>2 DEF methodVars, HasHead
      <3>2. BodyLength(Stream)' = BodyLength(Stream) /\ Stream[1]' = Stream[1]
        BY <1>3 DEF BodyLength
      <3>3. UNCHANGED <<pc, bytesSent, status, msg>>
        BY <1>2 DEF methodVars
      <3> QED
        BY <2>1, <2>2, <3>1, <3>2, <3>3 DEF IndInv, StreamFine, RecordFine
    <2>5. HeadFine'
      BY <1>2, <1>3, <2>3 DEF methodVars, IndInv, StreamFine, HeadFine, HasHead
    <2> QED
      BY <2>4, <2>5
  <1>8. WholeFine'
    <2> SUFFICES ASSUME HasHead', Stream'[1].n >= 0, Kinds' \subseteq {"append"}
                 PROVE  WholeFine'
      BY DEF WholeFine
    <2>1. HasHead /\ Kinds \subseteq {"append"} /\ kind = "append" /\ Stream[1].n >= 0
      BY <1>2, <1>3 DEF methodVars, HasHead
    <2>2. file.v = 0 /\ invitedFile.v = file.v
      <3>1. Kinds \cap {"rewrite", "replace"} = {}
        BY <2>1
      <3> QED
        BY <1>4, <3>1 DEF IndInv, Typed
    <2>3. /\ status = 200 /\ file'.n >= Stream[1].n
          /\ pc = "fread" => /\ invitedFile'.n = file'.n
                             /\ ~chunk => sizeFile >= Stream[1].n
          /\ ~chunk /\ pc \in {"head", "read", "fread"} => Len(Stream) = 2
          /\ Last => /\ \A n \in 1 .. Stream[1].n : Got(Stream, n, Len(Stream))
                     /\ chunk => BodyLength(Stream) >= 5 /\ Stream[Len(Stream) - 4] = Token("size", 1, 0)
                     /\ ~chunk => BodyLength(Stream) >= Stream[1].n
      BY <1>2, <1>4, <2>1, <2>2 DEF IndInv, StreamFine, WholeFine
    <2>4. Last' <=> Last
      BY <1>2 DEF methodVars, Last, GoesOn
    <2> QED
      BY <1>2, <1>3, <2>3, <2>4 DEF methodVars, WholeFine, BodyLength, Got, Bytes
  <1>9. ReadFine'
    <2> SUFFICES ASSUME pc = "fread" PROVE ReadFine'
      BY <1>2 DEF methodVars, ReadFine
    <2>1. \A i \in 1 .. Len(data) :
             /\ data[i].v \in 0 .. invitedFile'.v
             /\ ~chunk /\ "rewrite" \notin Kinds' => data[i].v = invitedFile'.v
      BY <1>2, <1>4 DEF IndInv, StreamFine, ReadFine
    <2>2. \A j \in Bytes(Stream) : Stream[j].v <= invitedFile'.v
      BY <1>2, <1>4 DEF IndInv, StreamFine, ReadFine
    <2>3. Bytes(Stream)' = Bytes(Stream)
      BY <1>3 DEF Bytes
    <2> QED
      BY <1>2, <1>3, <2>1, <2>2, <2>3 DEF methodVars, IndInv, StreamFine, ReadFine
  <1> QED
    BY <1>5, <1>6, <1>7, <1>8, <1>9 DEF StreamFine

\* stat, the opening of the file, and a read of it.
LEMMA QuietStep ==
    ASSUME IndInv, StatPasses \/ OpenForRead \/ ReadByte
    PROVE  StreamFine'
  <1>1. /\ UNCHANGED <<dotted, chunk, status, readBytes, bytesSent, msg, total, wire, failed, client, file, edits>>
        /\ \/ pc = "start" /\ pc' = "open"
           \/ pc \in {"read", "fread"} /\ pc' = "fread"
    BY DEF StatPasses, OpenForRead, ReadByte, methodVars
  <1>2. Stream' = Stream
    BY <1>1 DEF Stream, Pending, InSendAll
  <1>3. BytesFine'
    BY <1>1, <1>2 DEF IndInv, StreamFine, BytesFine, Ordered, OneVersion, Gapless, Got, Bytes, Kinds
  <1>4. ChunksFine'
    <2>1. pc \in {"read", "fread"} => GoesOn /\ pc' \in {"read", "fread"}
      BY <1>1 DEF GoesOn
    <2>2. Chunked(Stream)' <=> Chunked(Stream)
      BY <1>1, <1>2 DEF Chunked, Follows
    <2> QED
      BY <1>1, <1>2, <2>1, <2>2 DEF IndInv, StreamFine, ChunksFine
  <1>5. HeadFine' /\ RecordFine'
    <2>1. HasHead' => HasHead
      BY <1>1 DEF HasHead
    <2>2. pc' \notin {"body", "done"} /\ pc \notin {"body", "done"}
      BY <1>1
    <2>3. (Kept' <=> Kept) /\ BodyLength(Stream)' = BodyLength(Stream) /\ Stream[1]' = Stream[1]
      BY <1>1, <1>2 DEF Kept, Kinds, BodyLength
    <2>4. RecordFine'
      BY <1>1, <2>1, <2>2, <2>3 DEF IndInv, StreamFine, RecordFine
    <2>5. HeadFine'
      BY <1>1, <1>2, <2>1 DEF IndInv, StreamFine, HeadFine, Forbidden
    <2> QED
      BY <2>4, <2>5
  <1>6. /\ file.n \in Int /\ file.v \in Nat /\ invitedFile.v \in Nat /\ invitedFile.n \in Int
        /\ readBytes \in Int /\ readBytes <= MaxFile /\ MaxFile \in Nat /\ invitedFile.n <= MaxFile
        /\ Len(data) \in Nat /\ data \in Seq(Tokens)
        /\ \A i \in Bytes(Stream) : Stream[i].v \in Int
    <2>1. \A i \in 1 .. Len(Stream) : Stream[i] \in Tokens
      BY StreamIs DEF IndInv
    <2>2. DOMAIN Stream = 1 .. Len(Stream)
      BY StreamIs DEF IndInv
    <2>3. /\ file \in File /\ invitedFile \in File /\ data \in Seq(Tokens) /\ readBytes \in -1 .. MaxFile
          /\ MaxFile \in Nat /\ MaxEdits \in Nat
      BY ConstantsAssumption DEF IndInv, Typed, TypeOK
    <2>4. /\ file.n \in Int /\ file.v \in Nat /\ invitedFile.v \in Nat /\ invitedFile.n \in Int
          /\ invitedFile.n <= MaxFile
      BY <2>3 DEF File, Directory
    <2>5. readBytes \in Int /\ readBytes <= MaxFile /\ Len(data) \in Nat
      BY <2>3
    <2>6. \A i \in Bytes(Stream) : Stream[i].v \in Int
      BY <2>1, <2>2 DEF Bytes, Tokens
    <2> QED
      BY <2>3, <2>4, <2>5, <2>6
  <1>7. CASE StatPasses
    <2>1. pc' = "open"
      BY <1>7 DEF StatPasses
    <2> QED
      BY <1>3, <1>4, <1>5, <2>1 DEF StreamFine, ReadFine, WholeFine, HasHead
  <1>8. CASE OpenForRead
    <2>1. /\ pc = "read" /\ pc' = "fread" /\ file.n >= 0 /\ invitedFile' = file /\ sizeFile' = Asked
          /\ data' = <<>> /\ Len(data') = 0 /\ readBytes >= 0
      BY <1>8 DEF OpenForRead, IndInv, AtPlace
    <2>2. ReadFine'
      <3>1. \A j \in Bytes(Stream) : Stream[j].v <= file.v
        BY <1>6 DEF IndInv, StreamFine, BytesFine
      <3>2. Bytes(Stream)' = Bytes(Stream)
        BY <1>2 DEF Bytes
      <3>3. chunk => sizeFile' = LENGTH_CHUNK
        BY <2>1 DEF Asked
      <3>4. readBytes + Len(data') <= MaxFile
        BY <1>6, <2>1
      <3>5. \A i \in 1 .. Len(data') : FALSE
        BY <2>1
      <3> QED
        BY <1>1, <1>2, <2>1, <3>1, <3>2, <3>3, <3>4, <3>5 DEF ReadFine
    <2>3. WholeFine'
      <3>1. ~chunk => sizeFile' = file.n
        BY <2>1 DEF Asked
      <3>2. HasHead' <=> HasHead
        BY <1>1 DEF HasHead
      <3>3. ~Last' /\ ~Last
        BY <2>1 DEF Last
      <3>4. Kinds' = Kinds
        BY <1>1 DEF Kinds
      <3> QED
        BY <1>1, <1>2, <2>1, <3>1, <3>2, <3>3, <3>4 DEF IndInv, StreamFine, WholeFine, Bytes
    <2> QED
      BY <1>3, <1>4, <1>5, <2>2, <2>3 DEF StreamFine
  <1>9. CASE ReadByte
    <2> DEFINE n == Len(data)
               new == Byte(invitedFile.v, readBytes + n + 1)
    <2>1. /\ pc = "fread" /\ pc' = "fread" /\ ~ReadOver /\ data' = Append(data, new)
          /\ UNCHANGED <<invitedFile, sizeFile>> /\ readBytes >= 0
      BY <1>9 DEF ReadByte, methodVars, IndInv, AtPlace
    <2>2. new \in Tokens /\ new.kind = "byte" /\ new.v = invitedFile.v /\ new.n = readBytes + n + 1
      BY <1>6 DEF Byte, Token, Tokens
    <2> HIDE DEF new, n
    <2>3. /\ Len(data') = n + 1 /\ n \in Nat /\ data'[n + 1] = new
          /\ \A i \in 1 .. n : data'[i] = data[i]
      BY <1>6, <2>1, <2>2, AppendProperties DEF n
    <2>4. readBytes + n + 1 <= invitedFile.n
      BY <1>6, <2>1 DEF ReadOver, n
    <2>5. Bytes(Stream)' = Bytes(Stream) /\ Kinds' = Kinds
      BY <1>1, <1>2 DEF Bytes, Kinds
    <2>6. ReadFine'
      <3>1. /\ invitedFile.n >= 0 /\ (chunk => sizeFile = LENGTH_CHUNK)
            /\ readBytes + n <= MaxFile
            /\ \A i \in 1 .. n :
                  /\ data[i].kind = "byte" /\ data[i].n = readBytes + i
                  /\ data[i].v \in 0 .. invitedFile.v
                  /\ \A j \in i .. n : data[i].v <= data[j].v
                  /\ \A j \in Bytes(Stream) : Stream[j].v <= data[i].v
                  /\ ~chunk /\ "rewrite" \notin Kinds => data[i].v = invitedFile.v
            /\ \A j \in Bytes(Stream) : Stream[j].v <= invitedFile.v
        BY <2>1 DEF IndInv, StreamFine, ReadFine, n
      <3>2. ASSUME NEW i \in 1 .. n + 1
            PROVE  /\ data'[i].kind = "byte" /\ data'[i].n = readBytes + i
                   /\ data'[i].v \in 0 .. invitedFile.v
                   /\ \A j \in i .. n + 1 : data'[i].v <= data'[j].v
                   /\ \A j \in Bytes(Stream) : Stream[j].v <= data'[i].v
                   /\ ~chunk /\ "rewrite" \notin Kinds => data'[i].v = invitedFile.v
        <4>1. CASE i \in 1 .. n
          <5>1. ASSUME NEW j \in i .. n + 1 PROVE data'[i].v <= data'[j].v
            <6>1. CASE j \in i .. n
              <7>1. j \in 1 .. n
                BY <2>3, <4>1, <6>1
              <7> QED
                BY <2>3, <3>1, <4>1, <6>1, <7>1
            <6>2. CASE j = n + 1
              <7>1. data'[i] = data[i] /\ data'[j] = new /\ data[i].v \in 0 .. invitedFile.v
                BY <2>3, <3>1, <4>1, <6>2
              <7> QED
                BY <1>6, <2>2, <7>1
            <6> QED
              BY <2>3, <4>1, <6>1, <6>2
          <5> QED
            BY <2>3, <3>1, <4>1, <5>1
        <4>2. CASE i = n + 1
          <5>1. data'[i] = new /\ \A j \in i .. n + 1 : j = i
            BY <2>3, <4>2
          <5> QED
            BY <1>6, <2>2, <2>3, <3>1, <4>2, <5>1
        <4> QED
          BY <2>3, <4>1, <4>2
      <3>3. readBytes + Len(data') <= MaxFile
        BY <1>6, <2>3, <2>4
      <3> QED
        BY <1>1, <1>2, <2>1, <2>3, <2>5, <3>1, <3>2, <3>3 DEF ReadFine
    <2>7. WholeFine'
      <3>1. HasHead' <=> HasHead
        BY <1>1 DEF HasHead
      <3>2. ~Last' /\ ~Last
        BY <2>1 DEF Last
      <3>3. HasHead /\ Stream[1].n >= 0 /\ Kinds \subseteq {"append"} /\ edits = <<>> =>
               readBytes + Len(data') <= Stream[1].n
        <4>1. HasHead /\ Stream[1].n >= 0 /\ Kinds \subseteq {"append"} /\ edits = <<>> =>
                 invitedFile.n = Stream[1].n
          BY <2>1 DEF IndInv, StreamFine, WholeFine
        <4>2. readBytes + Len(data') <= invitedFile.n
          BY <1>6, <2>3, <2>4
        <4> QED
          BY <4>1, <4>2
      <3> QED
        BY <1>1, <1>2, <2>1, <2>5, <3>1, <3>2, <3>3 DEF IndInv, StreamFine, WholeFine
    <2> QED
      BY <1>3, <1>4, <1>5, <2>6, <2>7 DEF StreamFine
  <1> QED
    BY <1>7, <1>8, <1>9

\* readFile cannot open the file any more.
LEMMA ReadFailsStep ==
    ASSUME IndInv, ReadFileFails
    PROVE  StreamFine'
  <1>1. /\ UNCHANGED <<dotted, chunk, wire, failed, client, file, edits>>
        /\ pc = "read" /\ pc' = "body" /\ msg' = <<>> /\ total' = 0 /\ file.n < 0
    BY DEF ReadFileFails
  <1>2. Stream = wire /\ Stream' = wire
    <2>1. Len(msg') = 0
      BY <1>1
    <2>2. Stream' = wire'
      BY <1>1, <2>1, StreamIsWireNext DEF Next, MethodStep
    <2> QED
      BY <1>1, <2>2, StreamIsWire DEF InSendAll, IndInv
  <1>3. ~GoesOn' /\ ~(msg' # <<>>)
    BY <1>1 DEF GoesOn, SIZE_CHUNK_WITHOUT_DATE
  <1>4. BytesFine'
    BY <1>1, <1>2 DEF IndInv, StreamFine, BytesFine, Ordered, OneVersion, Gapless, Got, Bytes, Kinds
  <1>5. ChunksFine'
    BY <1>1, <1>2, <1>3 DEF IndInv, StreamFine, ChunksFine, Chunked, Follows
  <1>6. HeadFine' /\ ReadFine'
    BY <1>1, <1>2 DEF IndInv, StreamFine, HeadFine, Forbidden, HasHead, ReadFine
  <1>7. HasHead => Stream[1].v = 200 /\ ~Kept
    <2>1. status = 200
      BY <1>1 DEF IndInv, AtPlace
    <2> QED
      BY <1>1, <2>1 DEF IndInv, StreamFine, RecordFine
  <1>8. RecordFine'
    <2>1. HasHead' => HasHead
      BY <1>1 DEF HasHead
    <2>2. Kept' <=> Kept
      BY <1>1, <1>2 DEF Kept, Kinds
    <2> QED
      BY <1>1, <1>7, <2>1, <2>2 DEF RecordFine
  <1>9. WholeFine'
    <2>1. HasHead /\ Stream[1].n >= 0 /\ Kinds \subseteq {"append"} => FALSE
      BY <1>7 DEF Kept
    <2> QED
      BY <1>1, <1>2, <2>1 DEF WholeFine, HasHead, Kinds
  <1> QED
    BY <1>4, <1>5, <1>6, <1>8, <1>9 DEF StreamFine

-----------------------------------------------------------------------------
(* The steps that make the stream longer. *)

\* A message that is about to be sent is at the end of the stream.
LEMMA StreamGrows ==
    ASSUME Typed, Typed', UNCHANGED wire, pc \notin {"head", "body"}, pc' \in {"head", "body"}, total' = 0
    PROVE  Stream = wire /\ Stream' = Stream \o msg'
  <1>1. Stream = wire
    BY StreamIsWire DEF InSendAll
  <1>2. msg' \in Seq(Tokens)
    BY DEF Typed
  <1>3. Pending' = SubSeq(msg', 1, Len(msg'))
    BY DEF Pending, InSendAll
  <1>4. SubSeq(msg', 1, Len(msg')) = msg'
    BY <1>2, SubSeqFull
  <1> QED
    BY <1>1, <1>3, <1>4 DEF Stream

LEMMA StartStep ==
    ASSUME IndInv, StartSteps
    PROVE  StreamFine'
  <1>1. PICK st \in {200, 400, 404, 423}, size \in -1 .. MaxFile : StartFacts(st, size)
    BY StartIs DEF IndInv
  <1>2. /\ UNCHANGED <<dotted, chunk, readBytes, bytesSent, wire, failed, fileVars, client, file, edits>>
        /\ pc \in {"start", "open"} /\ pc' = "head" /\ total' = 0 /\ status' = st /\ msg' = Header(st, size)
        /\ size >= 0 => size = file.n /\ st = 200
        /\ size < 0 => file.n < 0 \/ st # 200
        /\ Forbidden => st # 200
        /\ size \in Int /\ st \in Int
        /\ wire = <<>> /\ bytesSent = 0 /\ readBytes = 0
    BY <1>1, ConstantsAssumption DEF StartFacts, SendHeader, IndInv, AtPlace
  <1>3. /\ msg' \in Seq(Tokens) /\ Len(msg') = 2
        /\ msg'[1] = Token("head", st, size) /\ msg'[2] = Token("end", 0, 0)
    BY <1>2, HeaderIs
  <1>4. Stream' = msg'
    <2>1. Typed'
      BY TypedNext DEF StartSteps, Next, MethodStep
    <2>2. Stream = wire /\ Stream' = Stream \o msg'
      BY <1>2, <2>1, StreamGrows DEF IndInv
    <2> QED
      BY <1>2, <1>3, <2>2, ConcatEmptySeq
  <1>5. /\ Len(Stream') = 2 /\ DOMAIN Stream' = 1 .. 2
        /\ Stream'[1].kind = "head" /\ Stream'[1].v = st /\ Stream'[1].n = size
        /\ Stream'[2].kind = "end"
    <2>1. DOMAIN msg' = 1 .. 2
      BY <1>3
    <2> QED
      BY <1>3, <1>4, <2>1 DEF Token
  <1>6. \A i \in DOMAIN Stream' : Stream'[i].kind \notin {"byte", "size"}
    BY <1>5
  <1>7. Bytes(Stream)' = {}
    BY <1>6 DEF Bytes
  <1>8. BytesFine'
    <2>1. \A n \in 1 .. readBytes' : FALSE
      BY <1>2
    <2> QED
      BY <1>7, <2>1 DEF BytesFine, Ordered, OneVersion, Gapless
  <1>9. ChunksFine'
    <2>1. Chunked(Stream)'
      BY <1>5, <1>6 DEF Chunked
    <2> QED
      BY <1>6, <2>1 DEF ChunksFine
  <1>10. HeadFine'
    <2>1. Forbidden' => st # 200
      BY <1>2 DEF Forbidden
    <2> QED
      BY <1>5, <1>6, <2>1 DEF HeadFine
  <1>11. RecordFine'
    <2>1. bytesSent' = BodyLength(Stream)' /\ status' = Stream'[1].v
      BY <1>2, <1>5 DEF BodyLength
    <2>2. file'.n < 0 /\ Stream'[1].v = 200 => ~Kept'
      <3>1. file.n < 0 /\ st = 200 => size < 0
        BY <1>2
      <3> QED
        BY <1>2, <1>5, <3>1 DEF Kept
    <2> QED
      BY <2>1, <2>2 DEF RecordFine
  <1>12. WholeFine'
    <2>1. ~Last' /\ pc' # "fread"
      BY <1>2 DEF Last
    <2> QED
      BY <1>2, <1>5, <1>7, <2>1 DEF WholeFine
  <1>13. ReadFine'
    BY <1>2 DEF ReadFine
  <1> QED
    BY <1>8, <1>9, <1>10, <1>11, <1>12, <1>13 DEF StreamFine

\* The kinds of the tokens of a chunk of k bytes, after the first digit of d.
LEMMA FollowsIs ==
    ASSUME NEW k \in Nat, NEW j \in Nat \ {0}, NEW d \in 1 .. 4, d = Digits(k)
    PROVE  /\ j < d => Follows(k, j) = "digit"
           /\ j \in {d, k + d + 2} => Follows(k, j) = "cr"
           /\ j \in {d + 1, k + d + 3} => Follows(k, j) = "lf"
           /\ j \in d + 2 .. k + d + 1 => Follows(k, j) = "byte"
           /\ j = k + d + 4 /\ k # 0 => Follows(k, j) = "size"
           /\ j < k + d + 4 => Follows(k, j) # "size"
  <1>1. PICK i \in Int : i = j - (Digits(k) - 1) /\ i = j - (d - 1)
    OBVIOUS
  <1>2. /\ j < d <=> i <= 0
        /\ j \in {d, k + d + 2} <=> i \in {1, k + 3}
        /\ j \in {d + 1, k + d + 3} <=> i \in {2, k + 4}
        /\ j \in d + 2 .. k + d + 1 <=> i \in 3 .. k + 2
        /\ j = k + d + 4 <=> i = k + 5
        /\ j < k + d + 4 <=> i < k + 5
    BY <1>1
  <1>3. Follows(k, j) =
           CASE i <= 0               -> "digit"
             [] i \in {1, k + 3}     -> "cr"
             [] i \in {2, k + 4}     -> "lf"
             [] i \in 3 .. k + 2     -> "byte"
             [] i = k + 5 /\ k # 0   -> "size"
             [] OTHER                -> "none"
    BY <1>1 DEF Follows
  <1>4. CASE i <= 0
    <2>1. i \notin {1, k + 3} /\ i \notin {2, k + 4} /\ i \notin 3 .. k + 2 /\ i # k + 5
      BY <1>4
    <2> QED
      BY <1>2, <1>3, <1>4, <2>1
  <1>5. CASE i \in {1, k + 3}
    <2>1. ~(i <= 0) /\ i \notin {2, k + 4} /\ i \notin 3 .. k + 2 /\ i # k + 5
      BY <1>5
    <2> QED
      BY <1>2, <1>3, <1>5, <2>1
  <1>6. CASE i \in {2, k + 4}
    <2>1. ~(i <= 0) /\ i \notin {1, k + 3} /\ i \notin 3 .. k + 2 /\ i # k + 5
      BY <1>6
    <2> QED
      BY <1>2, <1>3, <1>6, <2>1
  <1>7. CASE i \in 3 .. k + 2
    <2>1. ~(i <= 0) /\ i \notin {1, k + 3} /\ i \notin {2, k + 4} /\ i # k + 5
      BY <1>7
    <2> QED
      BY <1>2, <1>3, <1>7, <2>1
  <1>8. CASE i > 0 /\ i \notin {1, k + 3} /\ i \notin {2, k + 4} /\ i \notin 3 .. k + 2
    <2>1. ~(i <= 0)
      BY <1>8
    <2>2. i = k + 5 /\ k # 0 => Follows(k, j) = "size"
      BY <1>3, <1>8, <2>1
    <2>3. ~(i = k + 5 /\ k # 0) => Follows(k, j) = "none"
      BY <1>3, <1>8, <2>1
    <2> QED
      BY <1>2, <1>8, <2>1, <2>2, <2>3
  <1> QED
    BY <1>4, <1>5, <1>6, <1>7, <1>8

\* readFile returns: the stream is longer by a message with the bytes that follow readBytes.
LEMMA ReadStep ==
    ASSUME IndInv, ReadFileDone
    PROVE  StreamFine'
  <1>1. /\ UNCHANGED <<dotted, chunk, status, wire, failed, client, file, edits>>
        /\ pc = "fread" /\ pc' = "body" /\ total' = 0 /\ ReadOver
    BY DEF ReadFileDone
  <1> DEFINE n == Len(data)
             d == Digits(n)
             L == Len(Stream)
             M == Len(msg')
             o == IF chunk THEN d + 2 ELSE 0
  <1>2. /\ msg' = Message(data) /\ msg' \in Seq(Tokens)
        /\ bytesSent' = bytesSent + M
        /\ readBytes' = IF chunk THEN readBytes + n ELSE readBytes
    BY ReadFileIs DEF IndInv
  <1>3. /\ n \in Nat /\ d \in 1 .. 4 /\ L \in Nat /\ M \in Nat /\ readBytes \in Nat /\ (~chunk => readBytes = 0)
        /\ file.n \in Int /\ file.v \in Nat /\ invitedFile.n \in Int /\ invitedFile.v \in Nat
        /\ invitedFile.v <= file.v /\ sizeFile \in Nat
    <2>1. /\ readBytes \in -1 .. MaxFile /\ readBytes >= 0 /\ (~chunk => readBytes = 0)
          /\ file \in File /\ invitedFile \in File /\ invitedFile.v <= file.v /\ sizeFile \in Nat
          /\ data \in Seq(Tokens)
      BY <1>1 DEF IndInv, AtPlace, Typed, TypeOK
    <2>2. Stream \in Seq(Tokens)
      BY StreamIs DEF IndInv
    <2>3. MaxFile \in Nat /\ MaxEdits \in Nat
      BY ConstantsAssumption
    <2>4. n \in Nat /\ L \in Nat /\ M \in Nat
      BY <1>2, <2>1, <2>2
    <2>5. d \in 1 .. 4
      BY <2>4, DigitsIs
    <2>6. /\ file.n \in Int /\ file.v \in Nat /\ invitedFile.n \in Int /\ invitedFile.v \in Nat
      BY <2>1, <2>3 DEF File, Directory
    <2>7. readBytes \in Nat
      BY <2>1, <2>3
    <2> QED
      BY <2>1, <2>4, <2>5, <2>6, <2>7
  <1>4. Stream = wire /\ Stream' = Stream \o msg'
    <2>1. Typed'
      BY TypedNext DEF Next, MethodStep
    <2> QED
      BY <1>1, <2>1, StreamGrows DEF IndInv
  <1>5. /\ Len(Stream') = L + M
        /\ DOMAIN Stream = 1 .. L /\ DOMAIN Stream' = 1 .. L + M
        /\ \A i \in 1 .. L : Stream'[i] = Stream[i]
        /\ \A i \in 1 .. M : Stream'[L + i] = msg'[i]
    <2>1. Stream \in Seq(Tokens) /\ msg' \in Seq(Tokens)
      BY <1>2, StreamIs DEF IndInv
    <2>2. /\ Stream \o msg' \in Seq(Tokens) /\ Len(Stream \o msg') = Len(Stream) + Len(msg')
          /\ \A i \in 1 .. Len(Stream) : (Stream \o msg')[i] = Stream[i]
          /\ \A i \in 1 .. Len(msg') : (Stream \o msg')[Len(Stream) + i] = msg'[i]
      BY <2>1, Concatenation, Zenon
    <2> QED
      BY <1>4, <2>1, <2>2
  <1> HIDE DEF n, d, L, M
  <1>6. chunk => /\ M = n + d + 4
                 /\ msg'[1] = Token("size", 1, n)
                 /\ \A i \in 2 .. d : msg'[i].kind = "digit"
                 /\ msg'[d + 1].kind = "cr" /\ msg'[d + 2].kind = "lf"
                 /\ \A i \in 1 .. n : msg'[d + 2 + i] = data[i]
                 /\ msg'[d + n + 3].kind = "cr" /\ msg'[d + n + 4].kind = "lf"
    <2>1. data \in Seq(Tokens)
      BY DEF IndInv, Typed
    <2>2. chunk => ChunkOf(msg', data, n, d)
      BY <1>2, <2>1, MessageIs DEF n, d
    <2> QED
      BY <2>2 DEF ChunkOf, M
  <1>7. ~chunk => M = n /\ \A i \in 1 .. n : msg'[i] = data[i]
    <2>1. data \in Seq(Tokens)
      BY DEF IndInv, Typed
    <2>2. ~chunk => msg' = data
      BY <1>2, <2>1, MessageIs
    <2> QED
      BY <2>2 DEF M, n
  \* What was read.
  <1>20. /\ \A i \in 1 .. n :
               /\ data[i].kind = "byte" /\ data[i].n = readBytes + i
               /\ data[i].v \in 0 .. file.v
               /\ \A j \in i .. n : data[i].v <= data[j].v
               /\ \A j \in Bytes(Stream) : Stream[j].v <= data[i].v
               /\ ~chunk /\ "rewrite" \notin Kinds => data[i].v = invitedFile.v
         /\ chunk => sizeFile = LENGTH_CHUNK /\ LENGTH_CHUNK # 0
         /\ n = sizeFile \/ invitedFile.n <= readBytes + n
         /\ n <= sizeFile
    <2>1. /\ \A i \in 1 .. n :
                /\ data[i].kind = "byte" /\ data[i].n = readBytes + i
                /\ data[i].v \in 0 .. invitedFile.v
                /\ \A j \in i .. n : data[i].v <= data[j].v
                /\ \A j \in Bytes(Stream) : Stream[j].v <= data[i].v
                /\ ~chunk /\ "rewrite" \notin Kinds => data[i].v = invitedFile.v
          /\ chunk => sizeFile = LENGTH_CHUNK
      BY <1>1 DEF IndInv, StreamFine, ReadFine, n
    <2>2. \A i \in 1 .. n : data[i].v \in 0 .. file.v
      BY <1>3, <2>1
    <2>3. n = sizeFile \/ invitedFile.n <= readBytes + n
      BY <1>1 DEF ReadOver, n
    <2>4. n <= sizeFile
      BY DEF n, IndInv, Typed, TypeOK
    <2>5. LENGTH_CHUNK # 0
      BY ConstantsAssumption
    <2> QED
      BY <2>1, <2>2, <2>3, <2>4, <2>5, Zenon
  <1>8. /\ \A j \in 1 .. n : L + o + j \in 1 .. L + M /\ Stream'[L + o + j] = data[j]
        /\ \A i \in L + 1 .. L + M : Stream'[i].kind = "byte" => \E j \in 1 .. n : i = L + o + j
    <2>1. CASE chunk
      <3>1. ASSUME NEW j \in 1 .. n
            PROVE  L + (d + 2) + j \in 1 .. L + M /\ Stream'[L + (d + 2) + j] = data[j]
        <4>1. d + 2 + j \in 1 .. M /\ msg'[d + 2 + j] = data[j]
          BY <1>3, <1>6, <2>1
        <4>2. L + (d + 2 + j) = L + (d + 2) + j
          BY <1>3
        <4>3. Stream'[L + (d + 2 + j)] = msg'[d + 2 + j]
          <5>1. \A i : i \in 1 .. M => Stream'[L + i] = msg'[i]
            BY <1>5
          <5> QED
            BY <4>1, <5>1, Zenon
        <4> QED
          BY <1>3, <4>1, <4>2, <4>3
      <3>2. ASSUME NEW i \in L + 1 .. L + M, Stream'[i].kind = "byte"
            PROVE  \E j \in 1 .. n : i = L + (d + 2) + j
        <4>1. PICK e \in 1 .. n + d + 4 : e = i - L /\ L + e = i
          BY <1>3, <1>6, <2>1, <3>2
        <4>2. Stream'[i] = msg'[e] /\ msg'[e].kind = "byte"
          BY <1>5, <1>6, <2>1, <3>2, <4>1
        <4>3. e # 1 /\ e \notin 2 .. d /\ e \notin {d + 1, d + 2, d + n + 3, d + n + 4}
          BY <1>6, <2>1, <4>2 DEF Token
        <4>4. e - d - 2 \in 1 .. n /\ i = L + (d + 2) + (e - d - 2)
          BY <1>3, <4>1, <4>3
        <4> QED
          BY <4>4
      <3> QED
        BY <2>1, <3>1, <3>2
    <2>2. CASE ~chunk
      <3>1. ASSUME NEW j \in 1 .. n
            PROVE  L + 0 + j \in 1 .. L + M /\ Stream'[L + 0 + j] = data[j]
        <4>1. j \in 1 .. M /\ msg'[j] = data[j]
          BY <1>3, <1>7, <2>2
        <4>2. L + 0 + j = L + j
          BY <1>3
        <4> QED
          BY <1>3, <1>5, <4>1, <4>2
      <3>2. ASSUME NEW i \in L + 1 .. L + M PROVE \E j \in 1 .. n : i = L + 0 + j
        <4>1. i - L \in 1 .. n /\ i = L + 0 + (i - L)
          BY <1>3, <1>7, <2>2
        <4> QED
          BY <4>1
      <3> QED
        BY <2>2, <3>1, <3>2
    <2> QED
      BY <2>1, <2>2
  <1>9. o \in Nat
    BY <1>3
  <1> HIDE DEF o
  \* The places of bytes, old and new.
  <1>10. /\ \A i \in Bytes(Stream) : i \in 1 .. L /\ i \in Bytes(Stream') /\ Stream'[i] = Stream[i]
         /\ \A j \in 1 .. n : /\ L + o + j \in Bytes(Stream')
                              /\ Stream'[L + o + j].n = readBytes + j /\ Stream'[L + o + j].v = data[j].v
         /\ \A i \in Bytes(Stream') : i \in Bytes(Stream) \/ \E j \in 1 .. n : i = L + o + j
    <2>1. ASSUME NEW i \in Bytes(Stream) PROVE i \in 1 .. L /\ i \in Bytes(Stream') /\ Stream'[i] = Stream[i]
      BY <1>3, <1>5 DEF Bytes
    <2>2. ASSUME NEW j \in 1 .. n
          PROVE  /\ L + o + j \in Bytes(Stream')
                 /\ Stream'[L + o + j].n = readBytes + j /\ Stream'[L + o + j].v = data[j].v
      <3>1. L + o + j \in DOMAIN Stream' /\ Stream'[L + o + j] = data[j]
        BY <1>5, <1>8
      <3> QED
        BY <1>20, <3>1 DEF Bytes
    <2>3. ASSUME NEW i \in Bytes(Stream') PROVE i \in Bytes(Stream) \/ \E j \in 1 .. n : i = L + o + j
      <3>1. CASE i \in 1 .. L
        BY <1>5, <3>1 DEF Bytes
      <3>2. CASE i \in L + 1 .. L + M
        BY <1>8, <3>2 DEF Bytes
      <3> QED
        BY <1>3, <1>5, <3>1, <3>2 DEF Bytes
    <2> QED
      BY <2>1, <2>2, <2>3
  <1>11. /\ \A i \in Bytes(Stream) : Stream[i].n \in 1 .. readBytes /\ Stream[i].v \in 0 .. file.v
         /\ ~failed => \A x \in 1 .. readBytes : Got(Stream, x, L)
    <2>1. \A i \in Bytes(Stream) : Stream[i].n \in Int
      <3>1. \A i \in 1 .. L : Stream[i] \in Tokens
        BY StreamIs DEF IndInv, L
      <3> QED
        BY <1>10, <3>1 DEF Tokens
    <2>2. CASE chunk
      BY <1>1, <1>3, <2>1, <2>2 DEF IndInv, StreamFine, BytesFine, L
    <2>3. CASE ~chunk
      <3>1. Bytes(Stream) = {}
        BY <1>1, <2>3 DEF IndInv, StreamFine, BytesFine
      <3> QED
        BY <1>3, <2>3, <3>1
    <2> QED
      BY <2>2, <2>3
  <1>12. \A x, k : Got(Stream, x, k) => Got(Stream', x, k)
    BY <1>10 DEF Got
  <1>13. ~failed => \A x \in 1 .. readBytes + n : Got(Stream', x, L + o + n)
    <2> SUFFICES ASSUME ~failed, NEW x \in 1 .. readBytes + n
                 PROVE  Got(Stream', x, L + o + n)
      OBVIOUS
    <2>1. CASE x \in 1 .. readBytes
      <3>1. PICK i \in Bytes(Stream) : i <= L /\ Stream[i].n = x
        BY <1>11, <2>1 DEF Got
      <3> QED
        BY <1>3, <1>9, <1>10, <3>1 DEF Got
    <2>2. CASE x - readBytes \in 1 .. n
      <3>1. /\ L + o + (x - readBytes) \in Bytes(Stream')
            /\ Stream'[L + o + (x - readBytes)].n = readBytes + (x - readBytes)
        BY <1>10, <2>2
      <3>2. L + o + (x - readBytes) <= L + o + n /\ readBytes + (x - readBytes) = x
        BY <1>3, <1>9, <2>2
      <3> QED
        BY <3>1, <3>2 DEF Got
    <2> QED
      BY <1>3, <2>1, <2>2
  <1>14. BytesFine'
    <2>1. ASSUME NEW i \in Bytes(Stream'), NEW j \in Bytes(Stream'), i < j
          PROVE  Stream'[i].n < Stream'[j].n /\ Stream'[i].v <= Stream'[j].v
      <3>1. CASE i \in Bytes(Stream) /\ j \in Bytes(Stream)
        BY <1>10, <2>1, <3>1 DEF IndInv, StreamFine, BytesFine, Ordered
      <3>2. ASSUME i \in Bytes(Stream), NEW k \in 1 .. n, j = L + o + k
            PROVE  Stream'[i].n < Stream'[j].n /\ Stream'[i].v <= Stream'[j].v
        <4>1. /\ Stream'[i].n \in 1 .. readBytes /\ Stream'[i].v = Stream[i].v
              /\ Stream'[j].n = readBytes + k /\ Stream'[j].v = data[k].v
          BY <1>10, <1>11, <3>2
        <4>2. Stream[i].v <= data[k].v
          BY <1>20, <3>2
        <4> QED
          BY <1>3, <4>1, <4>2
      <3>3. ASSUME NEW h \in 1 .. n, i = L + o + h, NEW k \in 1 .. n, j = L + o + k
            PROVE  Stream'[i].n < Stream'[j].n /\ Stream'[i].v <= Stream'[j].v
        <4>1. /\ Stream'[i].n = readBytes + h /\ Stream'[i].v = data[h].v
              /\ Stream'[j].n = readBytes + k /\ Stream'[j].v = data[k].v
          BY <1>10, <3>3
        <4>2. h < k /\ k \in h .. n
          BY <1>3, <1>9, <2>1, <3>3
        <4>3. data[h].v <= data[k].v
          BY <1>20, <4>2
        <4> QED
          BY <1>3, <4>1, <4>2, <4>3
      <3>4. ASSUME NEW h \in 1 .. n, i = L + o + h, j \in Bytes(Stream) PROVE FALSE
        <4>1. j \in 1 .. L
          BY <1>10, <3>4
        <4> QED
          BY <1>3, <1>9, <2>1, <3>4, <4>1
      <3> QED
        BY <1>10, <3>1, <3>2, <3>3, <3>4
    <2>2. Ordered(Stream)'
      BY <1>1, <2>1 DEF Ordered, Bytes
    <2>3. ASSUME NEW i \in Bytes(Stream') PROVE Stream'[i].n \in 1 .. readBytes + n /\ Stream'[i].v \in 0 .. file.v
      <3>1. CASE i \in Bytes(Stream)
        BY <1>3, <1>10, <1>11, <3>1
      <3>2. ASSUME NEW j \in 1 .. n, i = L + o + j
            PROVE  Stream'[i].n \in 1 .. readBytes + n /\ Stream'[i].v \in 0 .. file.v
        <4>1. Stream'[i].n = readBytes + j /\ Stream'[i].v \in 0 .. file.v
          BY <1>10, <1>20, <3>2
        <4> QED
          BY <1>3, <4>1
      <3> QED
        BY <1>10, <3>1, <3>2
    <2>4. (\A i \in Bytes(Stream) : Stream[i].n >= 1 /\ Stream[i].v \in 0 .. file.v)'
      BY <1>1, <1>3, <2>3 DEF Bytes
    <2>5. ASSUME ~failed, NEW i \in Bytes(Stream'), NEW x \in 1 .. Stream'[i].n - 1
          PROVE  Got(Stream', x, i - 1)
      <3>1. CASE i \in Bytes(Stream)
        BY <1>10, <1>12, <2>5, <3>1 DEF IndInv, StreamFine, BytesFine, Gapless
      <3>2. ASSUME NEW j \in 1 .. n, i = L + o + j PROVE Got(Stream', x, i - 1)
        <4>1. Stream'[i].n = readBytes + j
          BY <1>10, <3>2
        <4>2. CASE x \in 1 .. readBytes
          <5>1. PICK k \in Bytes(Stream) : k <= L /\ Stream[k].n = x
            BY <1>11, <2>5, <4>2 DEF Got
          <5>2. k \in Bytes(Stream') /\ Stream'[k].n = x /\ k \in 1 .. L
            BY <1>10, <5>1
          <5>3. k <= i - 1
            BY <1>3, <1>9, <3>2, <5>2
          <5> QED
            BY <5>2, <5>3 DEF Got
        <4>3. CASE x - readBytes \in 1 .. j - 1
          <5>1. PICK h \in 1 .. n : h = x - readBytes /\ h < j
            BY <1>3, <4>3
          <5>2. L + o + h \in Bytes(Stream') /\ Stream'[L + o + h].n = readBytes + h
            BY <1>10
          <5>3. L + o + h <= i - 1 /\ readBytes + h = x
            BY <1>3, <1>9, <3>2, <5>1
          <5> QED
            BY <5>2, <5>3 DEF Got
        <4> QED
          BY <1>3, <4>1, <4>2, <4>3
      <3> QED
        BY <1>10, <3>1, <3>2
    <2>6. (~failed => Gapless(Stream))'
      BY <1>1, <2>4, <2>5 DEF Gapless, Got, Bytes
    <2>7. chunk => readBytes' = readBytes + n
      BY <1>2 DEF n
    <2>8. ~failed => \A x \in 1 .. readBytes + n : Got(Stream', x, Len(Stream'))
      <3>1. L + o + n <= L + M \/ n = 0
        BY <1>3, <1>8
      <3>2. CASE n = 0
        <4>1. ~failed => \A x \in 1 .. readBytes + n : Got(Stream', x, L)
          BY <1>3, <1>11, <1>12, <3>2
        <4>2. \A x : Got(Stream', x, L) => Got(Stream', x, Len(Stream'))
          BY <1>3, <1>5 DEF Got, Bytes
        <4> QED
          BY <4>1, <4>2
      <3>3. CASE L + o + n <= L + M
        <4>1. \A x : Got(Stream', x, L + o + n) => Got(Stream', x, Len(Stream'))
          BY <1>3, <1>5, <1>9, <3>3 DEF Got, Bytes
        <4> QED
          BY <1>13, <4>1
      <3> QED
        BY <3>1, <3>2, <3>3
    <2>9. (chunk /\ (pc \in {"read", "fread"} \/ (pc = "body" /\ msg # <<>>)) =>
             /\ \A i \in Bytes(Stream) : Stream[i].n <= readBytes
             /\ ~failed => \A x \in 1 .. readBytes : Got(Stream, x, Len(Stream)))'
      BY <1>1, <1>3, <2>3, <2>7, <2>8 DEF Bytes, Got
    <2>10. (~chunk /\ "rewrite" \notin Kinds => OneVersion(Stream))'
      <3>1. ASSUME ~chunk, "rewrite" \notin Kinds, NEW i \in Bytes(Stream') PROVE Stream'[i].v = invitedFile.v
        <4>1. Bytes(Stream) = {}
          BY <1>1, <3>1 DEF IndInv, StreamFine, BytesFine
        <4>2. PICK j \in 1 .. n : i = L + o + j
          BY <1>10, <4>1
        <4> QED
          BY <1>10, <1>20, <3>1, <4>2
      <3>2. Kinds' = Kinds /\ Bytes(Stream)' = Bytes(Stream')
        BY <1>1 DEF Kinds, Bytes
      <3> QED
        BY <1>1, <3>1, <3>2 DEF OneVersion, Bytes
    <2> QED
      BY <1>1, <2>2, <2>4, <2>6, <2>9, <2>10 DEF BytesFine
  <1>15. ChunksFine'
    <2> SUFFICES ASSUME chunk, ~failed
                 PROVE  /\ Chunked(Stream)'
                        /\ \A i \in DOMAIN Stream' : Stream'[i].kind = "size" =>
                              /\ Stream'[i].n >= 0
                              /\ i + Digits(Stream'[i].n) + Stream'[i].n + 3 <= Len(Stream')
                              /\ GoesOn' => Stream'[i].n # 0
      BY <1>1 DEF ChunksFine
    <2>1. /\ Chunked(Stream) /\ L >= 2
          /\ \A i \in DOMAIN Stream : Stream[i].kind = "size" =>
                Stream[i].n > 0 /\ i + Digits(Stream[i].n) + Stream[i].n + 3 <= L
      <3>1. HasHead /\ GoesOn
        BY <1>1 DEF HasHead, GoesOn
      <3>2. \A i \in DOMAIN Stream : Stream[i].n \in Int
        <4>1. \A i \in 1 .. Len(Stream) : Stream[i] \in Tokens
          BY StreamIs DEF IndInv
        <4> QED
          BY <1>5, <4>1 DEF Tokens, L
      <3> QED
        BY <1>1, <3>1, <3>2 DEF IndInv, StreamFine, ChunksFine, HeadFine, L
    <2>2. /\ M = n + d + 4 /\ L + 1 \in 1 .. L + M
          /\ Stream'[L + 1].kind = "size" /\ Stream'[L + 1].n = n
      <3>1. 1 \in 1 .. M /\ M = n + d + 4 /\ L + 1 \in 1 .. L + M
        BY <1>3, <1>6
      <3>2. Stream'[L + 1] = msg'[1]
        BY <1>5, <3>1
      <3> QED
        BY <1>6, <3>1, <3>2 DEF Token
    <2>3. ASSUME NEW j \in 1 .. n + d + 3 PROVE Stream'[L + 1 + j].kind = Follows(n, j)
      <3>1. L + 1 + j = L + (j + 1) /\ j + 1 \in 1 .. M
        BY <1>3, <2>2
      <3>2. Stream'[L + 1 + j] = msg'[j + 1]
        <4>1. \A i : i \in 1 .. M => Stream'[L + i] = msg'[i]
          BY <1>5
        <4> QED
          BY <3>1, <4>1, Zenon
      <3>3. /\ j < d => Follows(n, j) = "digit"
            /\ j \in {d, n + d + 2} => Follows(n, j) = "cr"
            /\ j \in {d + 1, n + d + 3} => Follows(n, j) = "lf"
            /\ j \in d + 2 .. n + d + 1 => Follows(n, j) = "byte"
        <4>1. j \in Nat \ {0} /\ d = Digits(n)
          BY <1>3 DEF d
        <4> QED
          BY <1>3, <4>1, FollowsIs
      <3>4. CASE j < d
        <4>1. j + 1 \in 2 .. d
          BY <1>3, <3>4
        <4> QED
          BY <1>6, <3>2, <3>3, <3>4, <4>1
      <3>5. CASE j \in {d, n + d + 2}
        <4>1. j + 1 = d + 1 \/ j + 1 = d + n + 3
          BY <1>3, <3>5
        <4> QED
          BY <1>6, <3>2, <3>3, <3>5, <4>1
      <3>6. CASE j \in {d + 1, n + d + 3}
        <4>1. j + 1 = d + 2 \/ j + 1 = d + n + 4
          BY <1>3, <3>6
        <4> QED
          BY <1>6, <3>2, <3>3, <3>6, <4>1
      <3>7. CASE j \in d + 2 .. n + d + 1
        <4>1. PICK h \in 1 .. n : h = j - d - 1 /\ d + 2 + h = j + 1
          BY <1>3, <3>7
        <4>2. msg'[j + 1] = data[h] /\ data[h].kind = "byte"
          BY <1>6, <1>20, <4>1
        <4> QED
          BY <3>2, <3>3, <3>7, <4>2
      <3> QED
        BY <1>3, <3>4, <3>5, <3>6, <3>7
    <2>4. ASSUME NEW i \in L + 1 .. L + M, Stream'[i].kind = "size" PROVE i = L + 1
      <3>1. i # L + 1 => i - L - 1 \in 1 .. n + d + 3 /\ i = L + 1 + (i - L - 1)
        BY <1>3, <2>2
      <3>2. ASSUME NEW j \in 1 .. n + d + 3, i = L + 1 + j PROVE FALSE
        <4>1. Follows(n, j) = "size"
          BY <2>3, <2>4, <3>2
        <4>2. j \in Nat \ {0} /\ d = Digits(n) /\ j < n + d + 4
          BY <1>3 DEF d
        <4> QED
          BY <1>3, <4>1, <4>2, FollowsIs
      <3> QED
        BY <3>1, <3>2
    <2>5. Chunked(Stream')
      <3>1. Len(Stream') > 2 => Stream'[3].kind = "size"
        <4>1. CASE L > 2
          BY <1>3, <1>5, <2>1, <4>1 DEF Chunked, L
        <4>2. CASE L = 2
          BY <2>2, <4>2
        <4> QED
          BY <1>3, <2>1, <4>1, <4>2
      <3>2. ASSUME NEW i \in 1 .. L, Stream'[i].kind = "size", NEW j \in 1 .. Len(Stream') - i, j <= Digits(Stream'[i].n) + Stream'[i].n + 4
            PROVE  Stream'[i + j].kind = Follows(Stream'[i].n, j)
        <4>1. Stream'[i] = Stream[i] /\ Stream[i].n > 0 /\ i + Digits(Stream[i].n) + Stream[i].n + 3 <= L /\ Stream[i].n \in Int
          <5>1. Stream[i] \in Tokens
            BY StreamIs DEF IndInv, L
          <5> QED
            BY <1>5, <2>1, <3>2, <5>1 DEF Tokens
        <4>2. CASE i + j <= L
          <5>1. j \in 1 .. L - i /\ i + j \in 1 .. L
            BY <1>3, <4>2
          <5>2. Stream[i + j].kind = Follows(Stream[i].n, j)
            BY <1>5, <2>1, <3>2, <4>1, <5>1 DEF Chunked, L
          <5> QED
            BY <1>5, <4>1, <5>1, <5>2
        <4>3. CASE i + j > L
          <5>1. PICK k \in Nat : k = Stream[i].n /\ k # 0
            BY <4>1
          <5>2. PICK e \in 1 .. 4 : e = Digits(k)
            BY <5>1, DigitsIs
          <5>3. j = k + e + 4 /\ i + j = L + 1 /\ j \in Nat \ {0}
            <6>1. j >= 1 /\ j \in Int /\ i \in Nat
              <7>1. Len(Stream') \in Int
                BY <1>3, <1>5
              <7> QED
                BY <1>3, <7>1
            <6>2. i + e + k + 3 <= L
              BY <4>1, <5>1, <5>2
            <6>3. j <= e + k + 4
              BY <3>2, <4>1, <5>1, <5>2
            <6> QED
              BY <1>3, <4>3, <6>1, <6>2, <6>3
          <5>4. Follows(k, j) = "size"
            BY <5>1, <5>2, <5>3, FollowsIs
          <5> QED
            BY <2>2, <4>1, <5>1, <5>3, <5>4
        <4> QED
          BY <1>3, <4>2, <4>3
      <3>3. ASSUME NEW i \in L + 1 .. L + M, Stream'[i].kind = "size", NEW j \in 1 .. Len(Stream') - i, j <= Digits(Stream'[i].n) + Stream'[i].n + 4
            PROVE  Stream'[i + j].kind = Follows(Stream'[i].n, j)
        <4>1. i = L + 1
          BY <2>4, <3>3
        <4>2. j \in 1 .. n + d + 3
          BY <1>3, <1>5, <2>2, <4>1
        <4> QED
          BY <2>2, <2>3, <4>1, <4>2
      <3> QED
        <4>1. \A i \in DOMAIN Stream' : i \in 1 .. L \/ i \in L + 1 .. L + M
          BY <1>3, <1>5
        <4> QED
          BY <3>1, <3>2, <3>3, <4>1, Zenon DEF Chunked
    <2>6. Chunked(Stream)'
      BY <2>5 DEF Chunked, Follows
    <2>7. ASSUME NEW i \in DOMAIN Stream', Stream'[i].kind = "size"
          PROVE  /\ Stream'[i].n >= 0
                 /\ i + Digits(Stream'[i].n) + Stream'[i].n + 3 <= Len(Stream')
                 /\ GoesOn' => Stream'[i].n # 0
      <3>1. CASE i \in 1 .. L
        <4>1. Stream'[i] = Stream[i] /\ Stream[i].n > 0 /\ i + Digits(Stream[i].n) + Stream[i].n + 3 <= L /\ Stream[i].n \in Int
          <5>1. Stream[i] \in Tokens
            BY <3>1, StreamIs DEF IndInv, L
          <5> QED
            BY <1>5, <2>1, <2>7, <3>1, <5>1 DEF Tokens
        <4>2. PICK k \in Nat : k = Stream[i].n /\ k # 0
          BY <4>1
        <4>3. PICK e \in 1 .. 4 : e = Digits(k)
          BY <4>2, DigitsIs
        <4>4. i + e + k + 3 <= L + M
          BY <1>3, <3>1, <4>1, <4>2, <4>3
        <4> QED
          BY <1>5, <4>1, <4>2, <4>3, <4>4
      <3>2. CASE i \in L + 1 .. L + M
        <4>1. i = L + 1 /\ Stream'[i].n = n
          BY <2>2, <2>4, <2>7, <3>2
        <4>2. GoesOn' => M > 5
          BY <1>1 DEF GoesOn, M, SIZE_CHUNK_WITHOUT_DATE
        <4>3. n = 0 => d = 1
          BY DigitsIs DEF d
        <4>4. GoesOn' => n # 0
          BY <1>3, <2>2, <4>2, <4>3
        <4>5. i + d + n + 3 <= L + M
          BY <1>3, <2>2, <4>1
        <4> QED
          BY <1>3, <1>5, <4>1, <4>4, <4>5 DEF d
      <3> QED
        BY <1>3, <1>5, <3>1, <3>2
    <2> QED
      BY <2>6, <2>7
  <1>16. HasHead' => /\ HasHead /\ L >= 2 /\ Stream'[1] = Stream[1] /\ Stream'[2] = Stream[2]
                     /\ Stream[1].kind = "head" /\ Stream[2].kind = "end"
                     /\ Stream[1].n \in Int
    <2>1. HasHead' => HasHead
      BY <1>1 DEF HasHead
    <2>2. ASSUME HasHead
          PROVE  /\ L >= 2 /\ Stream'[1] = Stream[1] /\ Stream'[2] = Stream[2]
                 /\ Stream[1].kind = "head" /\ Stream[2].kind = "end"
                 /\ Stream[1].n \in Int
      <3>1. L >= 2 /\ Stream[1].kind = "head" /\ Stream[2].kind = "end"
        BY <2>2 DEF IndInv, StreamFine, HeadFine, L
      <3>2. 1 \in 1 .. L /\ 2 \in 1 .. L
        BY <1>3, <3>1
      <3>3. Stream[1] \in Tokens
        BY <3>2, StreamIs DEF IndInv, L
      <3> QED
        BY <1>5, <3>1, <3>2, <3>3 DEF Tokens
    <2> QED
      BY <2>1, <2>2
  <1>17. HeadFine'
    <2>1. ~Forbidden'
      BY <1>1 DEF IndInv, AtPlace, Forbidden
    <2> QED
      BY <1>3, <1>5, <1>16, <2>1 DEF HeadFine
  <1>18. RecordFine'
    <2>1. HasHead => /\ file.n < 0 /\ Stream[1].v = 200 => ~Kept
                     /\ bytesSent = L - 2 /\ status = Stream[1].v
      BY <1>1 DEF IndInv, StreamFine, RecordFine, BodyLength, L
    <2>2. HasHead' => bytesSent' = BodyLength(Stream)' /\ status' = Stream'[1].v
      BY <1>1, <1>2, <1>3, <1>5, <1>16, <2>1 DEF BodyLength
    <2>3. HasHead' => (Kept' <=> Kept)
      BY <1>1, <1>16 DEF Kept, Kinds
    <2> QED
      BY <1>1, <1>16, <2>1, <2>2, <2>3 DEF RecordFine
  <1>19. WholeFine'
    <2> SUFFICES ASSUME HasHead', Stream'[1].n >= 0, Kinds' \subseteq {"append"}
                 PROVE  /\ status' = 200
                        /\ file'.n >= Stream'[1].n
                        /\ edits' = <<>> => /\ file'.n = Stream'[1].n
                                            /\ \A i \in Bytes(Stream') : Stream'[i].n <= Stream'[1].n
                        /\ Last' => /\ \A x \in 1 .. Stream'[1].n : Got(Stream', x, Len(Stream'))
                                    /\ chunk => Len(Stream') - 2 >= 5 /\ Stream'[Len(Stream') - 4] = Token("size", 1, 0)
                                    /\ ~chunk => Len(Stream') - 2 >= Stream'[1].n
                                    /\ ~chunk /\ edits = <<>> => Len(Stream') - 2 = Stream'[1].n
      BY <1>1 DEF WholeFine, BodyLength, Got, Bytes
    <2>1. /\ HasHead /\ Stream'[1].n = Stream[1].n /\ Stream[1].n \in Int
          /\ status = 200 /\ file.n >= Stream[1].n
          /\ edits = <<>> => /\ file.n = Stream[1].n
                             /\ \A i \in Bytes(Stream) : Stream[i].n <= Stream[1].n
          /\ invitedFile.n = file.n
          /\ ~chunk => sizeFile >= Stream[1].n /\ L = 2
          /\ ~chunk /\ edits = <<>> => sizeFile = Stream[1].n
          /\ edits = <<>> /\ n # 0 => readBytes + n <= Stream[1].n
          /\ ~failed
      <3>1. HasHead /\ Stream'[1].n = Stream[1].n /\ Stream[1].n \in Int /\ Stream[1].n >= 0
        BY <1>16
      <3>2. Kinds \subseteq {"append"}
        BY <1>1 DEF Kinds
      <3>3. n # 0 => data # <<>>
        BY DEF n
      <3>4. pc \in {"head", "read", "fread"}
        BY <1>1
      <3>5. ~failed
        BY <3>1 DEF HasHead
      <3> QED
        BY <1>1, <3>1, <3>2, <3>3, <3>4, <3>5 DEF IndInv, StreamFine, WholeFine, n, L
    <2>2. ASSUME edits = <<>>, NEW i \in Bytes(Stream') PROVE Stream'[i].n <= Stream[1].n
      <3>1. CASE i \in Bytes(Stream)
        BY <1>10, <2>1, <2>2, <3>1
      <3>2. ASSUME NEW j \in 1 .. n, i = L + o + j PROVE Stream'[i].n <= Stream[1].n
        <4>1. Stream'[i].n = readBytes + j /\ readBytes + j <= readBytes + n
          BY <1>3, <1>10, <3>2
        <4>2. n # 0
          BY <1>3
        <4> QED
          BY <1>3, <2>1, <2>2, <4>1, <4>2
      <3> QED
        BY <1>10, <3>1, <3>2
    <2>3. ASSUME Last'
          PROVE  /\ \A x \in 1 .. Stream[1].n : Got(Stream', x, Len(Stream'))
                 /\ chunk => Len(Stream') - 2 >= 5 /\ Stream'[Len(Stream') - 4] = Token("size", 1, 0)
                 /\ ~chunk => Len(Stream') - 2 >= Stream[1].n
                 /\ ~chunk /\ edits = <<>> => Len(Stream') - 2 = Stream[1].n
      <3>1. chunk => n = 0
        BY <1>1, <1>3, <1>6, <2>3 DEF Last, GoesOn, SIZE_CHUNK_WITHOUT_DATE, M
      <3>2. Stream[1].n <= readBytes + n /\ (~chunk => Stream[1].n <= n)
        <4>1. CASE chunk
          BY <1>3, <1>20, <2>1, <3>1, <4>1
        <4>2. CASE ~chunk
          BY <1>3, <1>20, <2>1, <4>2
        <4> QED
          BY <4>1, <4>2
      <3>3. \A x : Got(Stream', x, L + o + n) => Got(Stream', x, Len(Stream'))
        <4>1. \A i \in Bytes(Stream') : i <= Len(Stream')
          BY <1>3, <1>5 DEF Bytes
        <4> QED
          BY <4>1 DEF Got
      <3>4. \A x \in 1 .. Stream[1].n : x \in 1 .. readBytes + n
        BY <1>3, <2>1, <3>2
      <3>5. ASSUME chunk PROVE Len(Stream') - 2 >= 5 /\ Stream'[Len(Stream') - 4] = Token("size", 1, 0)
        <4>1. M = 5 /\ msg'[1] = Token("size", 1, 0) /\ 1 \in 1 .. M
          <5>1. d = 1
            BY <3>1, <3>5, DigitsIs DEF d
          <5> QED
            BY <1>6, <3>1, <3>5, <5>1
        <4>2. Len(Stream') - 4 = L + 1 /\ Len(Stream') - 2 >= 5
          BY <1>3, <1>5, <1>16, <4>1
        <4> QED
          BY <1>5, <4>1, <4>2
      <3>6. ASSUME ~chunk PROVE Len(Stream') - 2 >= Stream[1].n /\ (edits = <<>> => Len(Stream') - 2 = Stream[1].n)
        <4>1. Len(Stream') - 2 = n
          BY <1>3, <1>5, <1>7, <2>1, <3>6
        <4>2. edits = <<>> => n <= Stream[1].n
          BY <1>20, <2>1, <3>6
        <4>3. Stream[1].n <= n /\ Stream[1].n \in Int
          BY <2>1, <3>2, <3>6
        <4> QED
          BY <1>3, <4>1, <4>2, <4>3
      <3> QED
        BY <1>13, <2>1, <3>3, <3>4, <3>5, <3>6
    <2> QED
      BY <1>1, <2>1, <2>2, <2>3
  <1>21. ReadFine'
    BY <1>1 DEF ReadFine
  <1> QED
    BY <1>14, <1>15, <1>17, <1>18, <1>19, <1>21 DEF StreamFine

-----------------------------------------------------------------------------
(* The theorems. *)

LEMMA Inductive == Spec => []IndInv
  <1>1. Init => IndInv
    <2> SUFFICES ASSUME Init PROVE IndInv
      OBVIOUS
    <2>1. /\ pc = "start" /\ dotted \in BOOLEAN /\ chunk \in BOOLEAN /\ status = 200
          /\ readBytes = 0 /\ bytesSent = 0
          /\ msg = <<>> /\ total = 0 /\ wire = <<>> /\ failed = FALSE /\ client = "open"
          /\ invitedFile = NoFile /\ sizeFile = 0 /\ data = <<>>
          /\ file \in [v : {0}, n : Directory .. MaxFile] /\ edits = <<>>
      BY DEF Init
    <2>2. Typed
      <3>1. /\ file \in File /\ file.v = 0 /\ invitedFile \in File /\ invitedFile.v = 0
            /\ edits \in Seq(EditKinds) /\ Len(edits) = 0 /\ Len(data) = 0
        BY <2>1, ConstantsAssumption DEF File, Directory, NoFile, Absent
      <3>2. /\ readBytes \in -1 .. MaxFile /\ total \in 0 .. Len(msg) /\ Len(edits) <= MaxEdits
            /\ Len(data) <= sizeFile
        BY <2>1, <3>1, ConstantsAssumption
      <3>3. TypeOK
        BY <2>1, <3>1, <3>2, Zenon DEF TypeOK
      <3>4. <<>> \in Seq(Tokens)
        OBVIOUS
      <3> QED
        BY <2>1, <3>1, <3>3, <3>4 DEF Typed
    <2>3. AtPlace
      <3>1. wire = SubSeq(msg, 1, total)
        BY <2>1, SubSeqEmpty
      <3> QED
        BY <2>1, <3>1 DEF AtPlace
    <2>4. Stream = <<>>
      BY <2>1, <2>2, StreamIsWire DEF InSendAll
    <2>5. Bytes(Stream) = {} /\ DOMAIN Stream = {} /\ Len(Stream) = 0
      BY <2>4 DEF Bytes
    <2>6. BytesFine
      BY <2>1, <2>5 DEF BytesFine, Ordered, OneVersion, Gapless
    <2>7. ChunksFine
      BY <2>5 DEF ChunksFine, Chunked
    <2>8. ~HasHead
      BY <2>1 DEF HasHead
    <2>9. ReadFine
      BY <2>1 DEF ReadFine
    <2> QED
      BY <2>2, <2>3, <2>5, <2>6, <2>7, <2>8, <2>9
         DEF IndInv, StreamFine, HeadFine, RecordFine, WholeFine
  <1>2. IndInv /\ [Next]_vars => IndInv'
    <2> SUFFICES ASSUME IndInv, [Next]_vars PROVE IndInv'
      OBVIOUS
    <2>1. Typed' /\ AtPlace'
      BY TypedNext
    <2>2. StreamFine'
      BY StartStep, QuietStep, ReadStep, ReadFailsStep, SendStep, DoneStep, CutStep, StutterStep, EditStep, Zenon
         DEF Next, MethodStep, StartSteps
    <2> QED
      BY <2>1, <2>2 DEF IndInv
  <1> QED
    BY <1>1, <1>2, PTL DEF Spec

\* The types of methodGet's variables; readBytes never leaves the file.
THEOREM TypeCorrect == Spec => []TypeOK
  <1>1. IndInv => TypeOK
    BY DEF IndInv, Typed
  <1> QED
    BY <1>1, Inductive, PTL

\* What the client has got is a prefix of the stream.
LEMMA GotPrefix ==
    ASSUME IndInv
    PROVE  /\ Ordered(Stream) => Ordered(wire)
           /\ OneVersion(Stream) => OneVersion(wire)
           /\ Gapless(Stream) => Gapless(wire)
           /\ Chunked(Stream) => Chunked(wire)
           /\ DOMAIN wire \subseteq DOMAIN Stream
           /\ \A i \in DOMAIN wire : wire[i] = Stream[i]
  <1>1. Typed /\ wire \in Seq(Tokens) /\ total \in 0 .. Len(msg) /\ Len(msg) \in Nat
    BY DEF IndInv, Typed, TypeOK
  <1>2. /\ Stream \in Seq(Tokens) /\ Len(wire) <= Len(Stream)
        /\ \A i \in 1 .. Len(wire) : wire[i] = Stream[i]
    BY <1>1, StreamIs
  <1>3. DOMAIN wire = 1 .. Len(wire) /\ DOMAIN Stream = 1 .. Len(Stream) /\ Len(wire) \in Nat /\ Len(Stream) \in Nat
    BY <1>1, <1>2
  <1>4. DOMAIN wire \subseteq DOMAIN Stream
    BY <1>2, <1>3
  <1> QED
    BY <1>1, <1>2, <1>3, <1>4, PrefixFine

\* For files of any length, in chunks of any length, edited any number of times between
\* any two of the calls and reads: what the client has got is in order, no byte of it
\* is older than one before it, and while no send has failed it has no gap.
THEOREM BytesInOrder == Spec => []DataInOrder
  <1>1. IndInv => DataInOrder
    BY GotPrefix DEF IndInv, StreamFine, BytesFine, DataInOrder
  <1> QED
    BY <1>1, Inductive, PTL

\* A plain body is of one version of the file unless somebody rewrites it in place.
THEOREM OneFileSent == Spec => []PlainOfOneVersion
  <1>1. IndInv => PlainOfOneVersion
    BY GotPrefix DEF IndInv, StreamFine, BytesFine, PlainOfOneVersion
  <1> QED
    BY <1>1, Inductive, PTL

\* Whatever errno holds: of a path with "/../" or of a directory no byte is sent, nor
\* a head with status 200.
THEOREM RefusalsHold == Spec => []RefusedNotSent
  <1>1. IndInv => RefusedNotSent
    <2> SUFFICES ASSUME IndInv, Forbidden, NEW i \in DOMAIN wire
                 PROVE  wire[i].kind # "byte" /\ (wire[i].kind = "head" => wire[i].v # 200)
      BY DEF RefusedNotSent, Forbidden
    <2>1. i \in DOMAIN Stream /\ wire[i] = Stream[i]
      BY GotPrefix
    <2> QED
      BY <2>1 DEF IndInv, StreamFine, HeadFine
  <1> QED
    BY <1>1, Inductive, PTL

\* However the sends are cut, the chunks are well formed.
THEOREM ChunksCorrect == Spec => []ChunksWellFormed
  <1>1. IndInv => ChunksWellFormed
    BY GotPrefix DEF IndInv, StreamFine, ChunksFine, ChunksWellFormed
  <1> QED
    BY <1>1, Inductive, PTL

\* A response that came to its end has the whole file, as far as that only grew, and
\* when it did not grow has it in the length its head told.
THEOREM WholeFileSent == Spec => []WholeFile
  <1>1. IndInv => WholeFile
    <2> SUFFICES ASSUME IndInv, pc = "done", ~failed, wire[1].n >= 0, Kinds \subseteq {"append"}
                 PROVE  /\ \A n \in 1 .. wire[1].n : Got(wire, n, Len(wire))
                        /\ \A i \in Bytes(wire) : wire[i].v = file.v
                        /\ chunk => BodyLength(wire) >= 5 /\ wire[Len(wire) - 4] = Token("size", 1, 0)
                        /\ ~chunk => BodyLength(wire) >= wire[1].n
                        /\ edits = <<>> => /\ \A i \in Bytes(wire) : wire[i].n <= wire[1].n
                                           /\ ~chunk => BodyLength(wire) = wire[1].n
      BY DEF WholeFile
    <2>1. Stream = wire
      BY StreamIsWire DEF IndInv, InSendAll
    <2>2. HasHead /\ Last
      BY DEF HasHead, Last
    <2>3. file.v = 0
      <3>1. Kinds \cap {"rewrite", "replace"} = {}
        OBVIOUS
      <3> QED
        BY <3>1 DEF IndInv, Typed
    <2>4. \A i \in Bytes(wire) : wire[i].v = file.v
      <3>1. \A i \in Bytes(wire) : wire[i].v \in 0 .. file.v
        BY <2>1 DEF IndInv, StreamFine, BytesFine
      <3> QED
        BY <2>3, <3>1
    <2> QED
      BY <2>1, <2>2, <2>4 DEF IndInv, StreamFine, WholeFine
  <1> QED
    BY <1>1, Inductive, PTL

\* The record of a response counts exactly the bytes that were sent after its head.
THEOREM RecordCorrect == Spec => []RecordMatchesBody
  <1>1. IndInv => RecordMatchesBody
    <2> SUFFICES ASSUME IndInv, pc = "done", ~failed, FileStayed
                 PROVE  bytesSent = BodyLength(wire) /\ status = wire[1].v
      BY DEF RecordMatchesBody
    <2>1. Stream = wire
      BY StreamIsWire DEF IndInv, InSendAll
    <2>2. HasHead
      BY DEF HasHead
    <2>3. Kept
      BY <2>1 DEF Kept, FileStayed
    <2> QED
      BY <2>1, <2>2, <2>3 DEF IndInv, StreamFine, RecordFine
  <1> QED
    BY <1>1, Inductive, PTL

================================================================================
