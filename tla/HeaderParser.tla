----------------------------- MODULE HeaderParser -----------------------------
(***************************************************************************)
(* requestParametersParse (request.c) symbol by symbol, with the message   *)
(* array it reads from (readWithTimeOut, workWithSockets.c) and what it    *)
(* makes of a header (parseOneParameter, IterateOverAllValue).             *)
(*                                                                         *)
(* A symbol is "CR", "LF", "SP", "SC" (a semicolon), ":", the name of a    *)
(* header, or part of a word; the lengths of the two arrays are counted in *)
(* symbols.  One call parses what a read left after the request line.      *)
(* Calls follow each other with a new request object each, but the static  *)
(* buffer of the parser, its static counters, and the message array stay.  *)
(*                                                                         *)
(* Module Connection has a whole call as one operator on whole headers.    *)
(***************************************************************************)
EXTENDS Integers, Sequences, FiniteSetsExt, SequencesExt

CONSTANTS Texts,              \* what a read may leave after the request line
          MaxCalls,           \* bound: calls
          LENGTH_STRING,      \* length of the message array
          MAX_LENGTH_STRING   \* length of the static buffer

ASSUME ConstantsAssumption ==
    /\ LENGTH_STRING \in Nat \ {0}
    /\ MAX_LENGTH_STRING \in Nat \ {0}
    /\ MaxCalls \in Nat
    /\ Texts \subseteq Seq(STRING)
    /\ \A t \in Texts : Len(t) <= LENGTH_STRING
    /\ \A t \in Texts : \A i \in DOMAIN t : t[i] # "NUL"

VARIABLES pc,                 \* "read", "parse" or "done"
          message,            \* the array of clientServerInteraction, and the byte after it
          buff, count,        \* the parameters of requestParametersParse
          oneParameterBuffer, ParseBuff_ptr, lenName,  \* its static variables
          keepAlive, chunk,   \* isKeapAliveUsing and isChunkUsing of *currentReq
          ended,              \* did it return END_REQUEST?
          call                \* this call, for the properties: its text, the contents
                              \* of the static buffer and the flags before it, its number

static == <<oneParameterBuffer, ParseBuff_ptr, lenName>>
object == <<keepAlive, chunk>>
vars == <<pc, message, buff, count, static, object, ended, call>>

Place == 0 .. MAX_LENGTH_STRING - 1

-----------------------------------------------------------------------------
(* Values. *)

KeepAliveWord == <<"keep-", "alive">>
CloseWord == <<"clo", "se">>
ChunkedWord == <<"chunk", "ed">>

\* Mutant: the elements of a value are not taken apart.
Elements_whole(value) == <<value>>

\* The elements IterateOverAllValue hands to ParseValue: an empty one comes last when
\* the value ends with a semicolon.
Elements(value) ==
    LET semicolons == {i \in DOMAIN value : value[i] = "SC"}
        elements[s \in 1 .. Len(value) + 1] ==
            LET start == Min({i \in s .. Len(value) + 1 : i \notin semicolons})
                ends  == {i \in semicolons : i > start}
            IN IF ends = {} THEN <<SubSeq(value, start, Len(value))>>
               ELSE <<SubSeq(value, start, Min(ends) - 1)>> \o elements[Min(ends) + 1]
    IN elements[1]

\* ParseConnection compares as many characters as the element has: any beginning of a
\* word counts as the word, and the empty one as "keep-alive".
Wish(element) ==
    CASE IsPrefix(element, KeepAliveWord) -> "keep"
      [] IsPrefix(element, CloseWord) /\ ~IsPrefix(element, KeepAliveWord) -> "close"
      [] OTHER -> "none"

\* ParseConnection for each element in turn.
ParseConnection(value, old) ==
    LET elements == Elements(value)
        wishes == {i \in DOMAIN elements : Wish(elements[i]) # "none"}
    IN IF wishes = {} THEN old ELSE Wish(elements[Max(wishes)]) = "keep"

\* ParseTransferEncoding for each element in turn.
ParseTransferEncoding(value, old) ==
    old \/ \E i \in DOMAIN Elements(value) : IsPrefix(Elements(value)[i], ChunkedWord)

-----------------------------------------------------------------------------
(* A call. *)

StrLen(m) == Min({i \in DOMAIN m : m[i] = "NUL"})

\* Mutant: buf[len] = 0.
Filled_atTheEnd(t) ==
    [i \in 0 .. LENGTH_STRING |->
        IF i < Len(t) THEN t[i + 1] ELSE IF i = LENGTH_STRING THEN "NUL" ELSE message[i]]

\* What read and buf[result] = 0 leave in the array, and, when the read filled it, in
\* the byte after it.
Filled(t) ==
    [i \in 0 .. LENGTH_STRING |->
        IF i < Len(t) THEN t[i + 1] ELSE IF i = Len(t) THEN "NUL" ELSE message[i]]

\* The values of the flags are those the request line left.
Read(t) ==
    /\ pc = "read"
    /\ call.n < MaxCalls
    /\ message' = Filled(t)
    /\ buff' = 0
    /\ count' = StrLen(message')
    /\ keepAlive' \in BOOLEAN /\ chunk' \in BOOLEAN
    /\ ended' = FALSE
    /\ pc' = "parse"
    /\ call' = [n |-> call.n + 1, text |-> t,
                carry |-> [i \in 1 .. ParseBuff_ptr |-> oneParameterBuffer[i - 1]],
                keepAlive |-> keepAlive', chunk |-> chunk']
    /\ UNCHANGED static

Parsing == pc = "parse" /\ count > 0
AtNewLine == message[buff] = "CR" /\ message[buff + 1] = "LF"

Advance(n) ==
    /\ buff' = buff + n
    /\ count' = count - n

\* A newline while the buffer is empty: END_REQUEST, whatever follows.
BlankLine ==
    /\ Parsing /\ AtNewLine
    /\ ParseBuff_ptr = 0
    /\ ended' = TRUE
    /\ pc' = "read"
    /\ UNCHANGED <<message, buff, count, static, object, call>>

\* Mutant: the header has not been reset when the next one begins.
Reset_onlyPointer == ParseBuff_ptr' = 0 /\ UNCHANGED lenName

Reset == ParseBuff_ptr' = 0 /\ lenName' = 0

\* The places from to up to, but without, to.
Stored(from, to) == [i \in 1 .. to - from |-> oneParameterBuffer[from + i - 1]]

\* A newline ends a header: parseOneParameter, if it has a name and a value.  The other
\* headers it knows touch neither flag: keep-alive sets the time a read waits, and the parsers
\* of Accept-Language and Referer are empty.
HeaderEnds ==
    /\ Parsing /\ AtNewLine
    /\ ParseBuff_ptr # 0
    /\ LET name  == Stored(0, lenName)
           value == Stored(lenName, ParseBuff_ptr)
           known(header) == value # <<>> /\ name = <<header, ":">>
       IN /\ keepAlive' = IF known("Connection") THEN ParseConnection(value, keepAlive)
                          ELSE keepAlive
          /\ chunk' = IF known("Transfer-Encoding") THEN ParseTransferEncoding(value, chunk)
                      ELSE chunk
    /\ Reset
    /\ Advance(2)
    /\ UNCHANGED <<pc, message, oneParameterBuffer, ended, call>>

\* Spaces are dropped, and a CR without its LF, as at the end of a read.
Drop ==
    /\ Parsing /\ ~AtNewLine
    /\ message[buff] \in {"CR", "SP"}
    /\ Advance(1)
    /\ UNCHANGED <<pc, message, static, object, ended, call>>

\* Mutant: the bound is tested with "<".
After_offByOne(p) == IF MAX_LENGTH_STRING < p + 1 THEN MAX_LENGTH_STRING - 1 ELSE p + 1

\* ParseBuff_ptr after a symbol was stored at p: in a full buffer the last place is
\* written again and again, and never read.
After(p) == IF MAX_LENGTH_STRING <= p + 1 THEN MAX_LENGTH_STRING - 1 ELSE p + 1

\* Any other symbol, an LF without its CR included.  The first colon ends the name.
Store ==
    /\ Parsing
    /\ message[buff] \notin {"CR", "SP"}
    /\ oneParameterBuffer' = [oneParameterBuffer EXCEPT ![ParseBuff_ptr] = message[buff]]
    /\ ParseBuff_ptr' = After(ParseBuff_ptr)
    /\ lenName' = IF message[buff] = ":" /\ lenName = 0 THEN ParseBuff_ptr' ELSE lenName
    /\ Advance(1)
    /\ UNCHANGED <<pc, message, object, ended, call>>

\* The end of the text: MIDDLE_REQUEST.
EndOfText ==
    /\ pc = "parse" /\ count = 0
    /\ pc' = "read"
    /\ UNCHANGED <<message, buff, count, static, object, ended, call>>

-----------------------------------------------------------------------------

\* message is cleared when clientServerInteraction begins; the byte after it is not its own.
Init ==
    /\ pc = "read"
    /\ message \in {[i \in 0 .. LENGTH_STRING |-> IF i < LENGTH_STRING THEN "NUL" ELSE x] :
                       x \in {"NUL", "other"}}
    /\ buff = 0 /\ count = 0
    /\ oneParameterBuffer = [i \in Place |-> "NUL"] /\ ParseBuff_ptr = 0 /\ lenName = 0
    /\ keepAlive = FALSE /\ chunk = FALSE /\ ended = FALSE
    /\ call = [n |-> 0, text |-> <<>>, carry |-> <<>>, keepAlive |-> FALSE, chunk |-> FALSE]

Next ==
    \/ \E t \in Texts : Read(t)
    \/ BlankLine
    \/ HeaderEnds
    \/ Drop
    \/ Store
    \/ EndOfText

Spec == Init /\ [][Next]_vars

-----------------------------------------------------------------------------
(* Properties. *)

\* However long a header is and however many reads it comes in, the parser writes
\* inside its static buffer, and a name and a value are parts of what was stored.
WithinBuffer ==
    /\ ParseBuff_ptr \in Place
    /\ lenName \in 0 .. ParseBuff_ptr
    /\ DOMAIN oneParameterBuffer = Place

\* The parser reads the bytes of the last read and no others, although the array still
\* holds what earlier and longer reads left there.
OnlyThisRead ==
    pc = "parse" =>
        /\ buff + count = Len(call.text)
        /\ \A i \in 0 .. count - 1 : message[buff + i] = call.text[buff + i + 1]

Returned == pc = "read" /\ call.n > 0

\* What a call c has to do.  The symbols of its text from a to b that the parser keeps.
Squeezed(c, a, b) ==
    LET kept == {i \in a .. b : c.text[i] \notin {"CR", "SP"}}
    IN [n \in 1 .. Cardinality(kept) |->
           c.text[Max({i \in kept : Cardinality({k \in kept : k <= i}) = n})]]

\* The text as lines: the newlines, where the line that ends at j begins, and its
\* contents, the first joined to what the last call left and all cut to the buffer.
NewLines(c) == {j \in 1 .. Len(c.text) - 1 : c.text[j] = "CR" /\ c.text[j + 1] = "LF"}
LineStart(c, j) == Max({1} \cup {k + 2 : k \in {n \in NewLines(c) : n < j}})
Line(c, j) ==
    LET old  == IF LineStart(c, j) = 1 THEN c.carry ELSE <<>>
        line == old \o Squeezed(c, LineStart(c, j), j - 1)
    IN SubSeq(line, 1, Min({Len(line), MAX_LENGTH_STRING - 1}))

Blank(c) == {j \in NewLines(c) : Line(c, j) = <<>>}
Stop(c) == Min({Len(c.text) + 1} \cup Blank(c))

\* The lines before the blank one that begin with a name, and the value after it.
Headers(c, name) ==
    {j \in NewLines(c) : j < Stop(c) /\ Len(Line(c, j)) > 2 /\ IsPrefix(<<name, ":">>, Line(c, j))}
Value(c, j) == SubSeq(Line(c, j), 3, Len(Line(c, j)))

\* The words of a value v between its semicolons: where they start, and the one that
\* starts at a.  A value that ends with a semicolon has an empty word after it.
WordStarts(v) == {a \in DOMAIN v : v[a] # "SC" /\ (a = 1 \/ v[a - 1] = "SC")}
Word(v, a) == SubSeq(v, a, Min({Len(v)} \cup {k - 1 : k \in {e \in a .. Len(v) : v[e] = "SC"}}))
Words(v) == {Word(v, a) : a \in WordStarts(v)} \cup (IF Last(v) = "SC" THEN {<<>>} ELSE {})

\* The last known word decides.
LastWord(v) ==
    LET known == {a \in WordStarts(v) : Wish(Word(v, a)) # "none"}
    IN IF Last(v) = "SC" THEN "keep" ELSE IF known = {} THEN "none" ELSE Wish(Word(v, Max(known)))

\* The Connection headers that say something: the last of them decides.
Says(c) == {j \in Headers(c, "Connection") : LastWord(Value(c, j)) # "none"}

\* A call does to the request what the complete headers of its text before the blank
\* line say, the first of them continued from the last call, and keeps the rest for the
\* next call: however headers follow each other, no state of one header reaches another.
ParsedAsLines ==
    Returned =>
        /\ keepAlive <=> IF Says(call) = {} THEN call.keepAlive
                         ELSE LastWord(Value(call, Max(Says(call)))) = "keep"
        /\ chunk <=> \/ call.chunk
                     \/ \E j \in Headers(call, "Transfer-Encoding") :
                            \E w \in Words(Value(call, j)) : IsPrefix(w, ChunkedWord)
        /\ ended <=> Blank(call) # {}
        /\ Stored(0, ParseBuff_ptr) = Line(call, Stop(call))

===============================================================================
