------------------------------ MODULE HeaderUnits ------------------------------
(***************************************************************************)
(* The units of Connection, which knows headers only as wholes, as symbols *)
(* of HeaderParser.                                                        *)
(***************************************************************************)
EXTENDS HeaderParser

CONSTANT UnitTexts  \* texts that consist of whole units

C == INSTANCE Connection WITH
    Requests <- {}, MaxRequests <- 0, MaxResponses <- 0, Segmented <- TRUE, Pipelined <- TRUE,
    CanLeave <- TRUE, Signals <- TRUE, FreedValue <- "any",
    req <- 0, w3c <- 0, result <- 0, carry <- 0, errno <- 0, sent <- 0, net <- 0, client <- 0,
    out <- 0, log <- 0

\* The units that requestParametersParse meets: the texts of headers, and newlines.
TextUnit(h) == C!Unit("T", 1, h)
NewLineUnit == C!Unit("N", 1, "none")
HeaderUnit == {TextUnit(h) : h \in C!HeaderTexts} \cup {NewLineUnit}

\* The symbols of a header of Connection, and those of them that the parser keeps.
HeaderSymbols(h) ==
    CASE h = "close"   -> <<"Connection", ":", "SP", "clo", "se">>
      [] h = "keep"    -> <<"Connection", ":", "SP", "keep-", "alive">>
      [] h = "chunked" -> <<"Transfer-Encoding", ":", "SP", "chunk", "ed">>
      [] h = "agent"   -> <<"User-Agent", ":", "x", "SP", "y">>
Kept(h) ==
    CASE h = "close"   -> <<"Connection", ":", "clo", "se">>
      [] h = "keep"    -> <<"Connection", ":", "keep-", "alive">>
      [] h = "chunked" -> <<"Transfer-Encoding", ":", "chunk", "ed">>
      [] h = "agent"   -> <<"User-Agent", ":", "x", "y">>

UnitSymbols(unit) == IF unit.kind = "N" THEN <<"CR", "LF">> ELSE HeaderSymbols(unit.h)
SymbolsOf(units) == FlattenSeq([i \in DOMAIN units |-> UnitSymbols(units[i])])

\* A header fits into the static buffer, with room for a symbol that does not belong to it.
ASSUME UnitsAssumption ==
    /\ UnitTexts \subseteq Seq(HeaderUnit)
    /\ \A h \in C!HeaderTexts : Len(HeaderSymbols(h)) < MAX_LENGTH_STRING

\* The contents of the static buffer as Connection's carry.
Carry(symbols) ==
    IF symbols = <<>> THEN "none"
    ELSE IF \E h \in C!HeaderTexts : symbols = Kept(h)
         THEN CHOOSE h \in C!HeaderTexts : symbols = Kept(h)
    ELSE "junk"

\* A text that begins and ends between units, after one that did, is parsed as the parser
\* of Connection has it, which knows headers only as wholes: the same flags, the same end,
\* the same left in the buffer.
AgreesWithConnection ==
    Returned /\ Carry(call.carry) # "junk" =>
        \A u \in {v \in UnitTexts : SymbolsOf(v) = call.text} :
            LET p == C!RequestParametersParse(
                         [keepAlive |-> call.keepAlive, chunk |-> call.chunk, applied |-> {}],
                         [h |-> Carry(call.carry), i |-> IF call.carry = <<>> THEN 0 ELSE 1], u)
            IN /\ keepAlive = p.q.keepAlive
               /\ chunk = p.q.chunk
               /\ ended = p.ended
               /\ Carry(Stored(0, ParseBuff_ptr)) = p.carry.h

===============================================================================
