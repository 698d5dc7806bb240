---------------------------- MODULE MCHeaderParser ----------------------------
(* The texts TLC gives HeaderParser, and those of them that consist of whole units. *)
EXTENDS HeaderUnits

NewLine == <<"CR", "LF">>

\* Two headers and a blank line, as units.
Block(a, b) == <<TextUnit(a), NewLineUnit, TextUnit(b), NewLineUnit, NewLineUnit>>

Blocks == {Block("close", "keep"), Block("keep", "chunked"), Block("agent", "close")}

\* Values with semicolons, beginnings of words, headers too long for the buffer.
OddTexts ==
    {<<"Connection", ":">> \o v \o NewLine \o NewLine :
        v \in {<<"clo", "se", "SC">>, <<"SC", "SC", "keep-", "SC", "clo">>, <<"x", "SC", "clo", "se">>,
               <<"x", "x", "x", "x", "clo", "se">>, <<"x", "x", "clo", "x", "se">>, <<>>, <<":">>}}
    \cup {<<"x", "x", "x", "x", "x", "x", "Connection", ":", "clo">> \o NewLine,
          <<"Transfer-Encoding", ":", "SC">> \o NewLine,
          <<":", "clo", "se">> \o NewLine}

\* Everything a read may leave of the blocks: they may be cut anywhere.
MCTexts ==
    UNION {LET b == SymbolsOf(block)
           IN {SubSeq(b, 1, k) : k \in 0 .. 16} \cup {SubSeq(b, k, 16) : k \in 2 .. 16} :
              block \in Blocks}
    \cup OddTexts

\* The parts of blocks that are not cut inside a unit.
MCUnitTexts == UNION {{SubSeq(u, i, j) : i \in 1 .. 5, j \in 0 .. 5} : u \in Blocks}

===============================================================================
