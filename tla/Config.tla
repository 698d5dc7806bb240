-------------------------------- MODULE Config --------------------------------
(***************************************************************************)
(* The settings the server takes from config.txt: getValueForKeyNumber,    *)
(* getValueForKeyString (request.c), and those who call them for it,       *)
(* connectToSocket with checkExistenceSpecifiedAddr (workWithSockets.c)    *)
(* once, createRequestObject and getURI (request.c) for each request.      *)
(*                                                                         *)
(* The file is read again at every lookup, and the operator may edit it    *)
(* between two lookups, or while a lookup has it open.  A text is a        *)
(* sequence of symbols: the keys, "SP" for a space, "NL" for a new line,   *)
(* and the words and numbers of the values.  "junk" is a value made from   *)
(* memory that was never written.                                          *)
(***************************************************************************)
EXTENDS Naturals, Sequences, FiniteSets, Functions, FiniteSetsExt

CONSTANTS Files,              \* the texts config.txt may have, and Absent
          Interfaces,         \* the lists getifaddrs may return, and Failing
          Extensions,         \* pairs <<a, b>>: the text of address a begins that of b
          MAX_LENGTH_STRING,  \* symbols in the line buffer of getValueForKeyString
          MaxVersions         \* bound: texts of the file during the startup, or a request

Absent == <<"no file">>
Failing == <<"no list">>

ASSUME ConstantsAssumption ==
    /\ Files \subseteq Seq(STRING)
    /\ Interfaces \subseteq Seq(STRING)
    /\ \A text \in Files : \A i \in DOMAIN text : text[i] \notin Range(Failing)
    /\ MAX_LENGTH_STRING \in Nat \ {0, 1}
    /\ MaxVersions \in Nat \ {0}

VARIABLES file,     \* config.txt
          hosts,    \* what getifaddrs returns, NoAddress for an entry without one
          at,       \* the lookup the process is at
          opened,   \* what its FILE gives, and the size that was asked for, if open
          setting,  \* the values found
          seen,     \* the texts since the startup, or the request, began
          torn      \* a file was edited in place while it was open

vars == <<file, hosts, at, opened, setting, seen, torn>>

Numbers == {"0", "5", "10", "80", "8080"}
Key == [port |-> "Port to listen:", addr |-> "Is used IP address:",
        backlog |-> "Max number of connect:", timeout |-> "keep-alive:", folder |-> "Root folder:"]
Settings == DOMAIN Key
Startup == {"port", "addr", "bind", "backlog", "listen"}
Lookup == Startup \cup {"listening", "timeout", "folder", "serving", "exited", "crashed"}

NoAddress == "no address"
NotIP == "not an IP address"
INADDR_ANY == "any address"
Closed == [text |-> <<>>, size |-> 0, open |-> FALSE]

Init ==
    /\ file \in Files
    /\ hosts \in Interfaces
    /\ at = "port"
    /\ opened = Closed
    /\ setting = [port |-> "80", addr |-> INADDR_ANY, backlog |-> "5", timeout |-> "10", folder |-> "junk"]
    /\ seen = {file}
    /\ torn = FALSE

-----------------------------------------------------------------------------
(* getValueForKeyNumber: the whole text, the first place of the key in it. *)

Blank == {"SP", "NL"}

\* The numbers atoi may return for the text, or the crash of a key that is not there: NULL
\* plus a length is no NULL.  The text has no 0 at its end, so strstr and atoi read on.
NumbersAt(text, key) ==
    LET places == {i \in DOMAIN text : text[i] = key}
        words  == {j \in DOMAIN text : j > Min(places) /\ text[j] \notin Blank}
        word   == text[Min(words)]
    IN  IF places = {} THEN {"crash", "0", "junk"}
        ELSE IF words = {} THEN {"0", "junk"}
        ELSE IF word \notin Numbers THEN {"0"}
        ELSE {word} \cup (IF Min(words) = Len(text) THEN {"junk"} ELSE {})

NextLookup(l) ==
    CASE l = "port" -> "addr" [] l = "backlog" -> "listen" [] l = "timeout" -> "folder"

Crash ==
    /\ at' = "crashed"
    /\ opened' = Closed
    /\ UNCHANGED <<file, hosts, setting, seen, torn>>

NumberLookup == {"port", "backlog", "timeout"}

\* Mutant: fopen's result is not tested.
FileMissing_untested ==
    /\ at \in NumberLookup /\ ~opened.open
    /\ file = Absent
    /\ Crash

\* No file: ERROR_RUN, and what the caller had put in *Value stays.
FileMissing ==
    /\ at \in NumberLookup /\ ~opened.open
    /\ file = Absent
    /\ at' = NextLookup(at)
    /\ setting' = IF at = "timeout" THEN [setting EXCEPT !.timeout = "10"] ELSE setting
    /\ UNCHANGED <<file, hosts, opened, seen, torn>>

\* fopen, fseek and ftell.
OpenFile ==
    /\ at \in NumberLookup /\ ~opened.open
    /\ file # Absent
    /\ opened' = [text |-> file, size |-> Len(file), open |-> TRUE]
    /\ UNCHANGED <<file, hosts, at, setting, seen, torn>>

\* What the caller does with the number: connectToSocket ignores that a zero means
\* KEY_ISNT_FOUND; createRequestObject takes DEFAULT_TIME_KEAP_ALIVE instead.
\* Mutant: createRequestObject ignores it too.
Taken_anyNumber(l, v) == v

Taken(l, v) == IF l = "timeout" /\ v = "0" THEN "10" ELSE v

\* fread of as many bytes as the file had.
ReadNumber ==
    /\ opened.open
    /\ \E v \in NumbersAt(SubSeq(opened.text, 1, Min({opened.size, Len(opened.text)})), Key[at]) :
          IF v = "crash" THEN Crash
          ELSE /\ setting' = [setting EXCEPT ![at] = Taken(at, v)]
               /\ at' = NextLookup(at)
               /\ opened' = Closed
               /\ UNCHANGED <<file, hosts, seen, torn>>

-----------------------------------------------------------------------------
(* getValueForKeyString: line by line, the first line that begins with the *)
(* key.  The file is small, so that the first fgets reads all of it.       *)

\* The places at which an fgets begins: a line begins there, or goes on after full buffers.
Beginnings(text) ==
    {i \in DOMAIN text : \E s \in 1 .. i, k \in 0 .. Len(text) :
        /\ s = 1 \/ text[s - 1] = "NL"
        /\ i = s + k * (MAX_LENGTH_STRING - 1)
        /\ \A j \in s .. i - 1 : text[j] # "NL"}

LineFrom(text, i) ==
    LET ends == {j \in DOMAIN text : j >= i /\ text[j] = "NL"} \cup {i + MAX_LENGTH_STRING - 2, Len(text)}
    IN  SubSeq(text, i, Min(ends))

\* Mutant: the spaces before the value are kept.
ValueStart_keepsSpaces(line) == 2

\* pStartValue, the key being one symbol; past the last symbol is the terminating 0.
ValueStart(line) == Min({j \in 2 .. Len(line) : line[j] # "SP"} \cup {Len(line) + 1})

\* pEndString - 1: trailing blanks are cut off, never the key.
ValueEnd(line) == Max({j \in DOMAIN line : line[j] \notin Blank})

\* Results of the search: a value, none, or a crash, when the value is blank and
\* pEndString has passed pStartValue, a negative length.  When fgets reads nothing at
\* all, the line compared with the key is what the stack holds.
Found(value) == [result |-> "SUCCESS", value |-> value]
NotFound == [result |-> "KEY_ISNT_FOUND", value |-> "junk"]
Crashes == [result |-> "crash", value |-> "junk"]

ValuesAt(text, key) ==
    LET places == {i \in Beginnings(text) : text[i] = key}
        line   == LineFrom(text, Min(places))
        value  == SubSeq(line, ValueStart(line), ValueEnd(line))
    IN  IF text = <<>> THEN {NotFound, Found("junk"), Crashes}
        ELSE IF places = {} THEN {NotFound}
        ELSE IF ValueEnd(line) + 1 < ValueStart(line) THEN {Crashes}
        ELSE {Found(IF Len(value) = 1 THEN value[1] ELSE "other")}

\* The outcomes, ERROR_RUN when there is no file.
GetValueForKeyString(key) ==
    IF file = Absent THEN {[result |-> "ERROR_RUN", value |-> "junk"]} ELSE ValuesAt(file, key)

-----------------------------------------------------------------------------
(* connectToSocket, after the port. *)

\* Is the address one of the host's?  It is if the text of one begins it.  An entry without
\* an address crashes the search, and an empty list leaves the result unwritten.
CheckExistenceSpecifiedAddr(ip) ==
    LET match(i) == hosts[i] = ip \/ <<hosts[i], ip>> \in Extensions
        stops == {i \in DOMAIN hosts : hosts[i] = NoAddress \/ match(i)}
    IN  IF hosts = Failing THEN {"ERROR_RUN"}
        ELSE IF hosts = <<>> THEN {"SUCCESS", "NOT_EXIST"}
        ELSE IF stops = {} THEN {"NOT_EXIST"}
        ELSE IF hosts[Min(stops)] = NoAddress THEN {"crash"} ELSE {"SUCCESS"}

ChooseAddress ==
    /\ at = "addr"
    /\ \E found \in GetValueForKeyString(Key.addr) :
       \E check \in IF found.result = "SUCCESS" THEN CheckExistenceSpecifiedAddr(found.value)
                    ELSE {"not called"} :
          IF "crash" \in {found.result, check} THEN Crash
          ELSE /\ setting' = [setting EXCEPT !.addr = IF check = "SUCCESS" THEN found.value ELSE INADDR_ANY]
               /\ at' = "bind"
               /\ UNCHANGED <<file, hosts, opened, seen, torn>>

\* The kernel binds to an address of the host; bind may fail for other reasons.
Bind ==
    /\ at = "bind"
    /\ \/ at' = "backlog" /\ setting.addr \in {INADDR_ANY} \cup Range(hosts)
       \/ at' = "exited"
    /\ UNCHANGED <<file, hosts, opened, setting, seen, torn>>

\* listen may fail as well: another socket may listen on the port already.
Listen ==
    /\ at = "listen"
    /\ at' \in {"listening", "exited"}
    /\ UNCHANGED <<file, hosts, opened, setting, seen, torn>>

-----------------------------------------------------------------------------
(* A request. *)

BeginRequest ==
    /\ at \in {"listening", "serving"}
    /\ at' = "timeout"
    /\ setting' = [setting EXCEPT !.timeout = "junk", !.folder = "junk"]
    /\ seen' = {file}
    /\ torn' = FALSE
    /\ UNCHANGED <<file, hosts, opened>>

\* The start of getURI: only ERROR_RUN sets status 500; a missing key leaves the folder
\* unwritten.
GetURI ==
    /\ at = "folder"
    /\ \E found \in GetValueForKeyString(Key.folder) :
          IF found.result = "crash" THEN Crash
          ELSE /\ setting' = [setting EXCEPT !.folder =
                                IF found.result = "ERROR_RUN" THEN "500" ELSE found.value]
               /\ at' = "serving"
               /\ UNCHANGED <<file, hosts, opened, seen, torn>>

-----------------------------------------------------------------------------

\* The operator writes another text: into the file that may be open, or to a new one that
\* takes its place.
EditFile(text, inPlace) ==
    /\ at \notin {"exited", "crashed"}
    /\ text # file
    /\ Cardinality(seen \cup {text}) <= MaxVersions
    /\ inPlace => Absent \notin {file, text}
    /\ file' = text
    /\ seen' = seen \cup {text}
    /\ opened' = IF inPlace /\ opened.open THEN [opened EXCEPT !.text = text] ELSE opened
    /\ torn' = (torn \/ (inPlace /\ opened.open))
    /\ UNCHANGED <<hosts, at, setting>>

Next ==
    \/ FileMissing \/ OpenFile \/ ReadNumber
    \/ ChooseAddress \/ Bind \/ Listen
    \/ BeginRequest \/ GetURI
    \/ \E text \in Files, inPlace \in BOOLEAN : EditFile(text, inPlace)

Spec == Init /\ [][Next]_vars

-----------------------------------------------------------------------------
(* What the file says, for the files on which reading it two ways agrees.  *)

\* Every key is once in the text, at the start of a line, with one word after it; every
\* line fits in the buffer.
WellFormed(text) ==
    /\ text # <<>> /\ text[Len(text)] = "NL"
    /\ \A i \in DOMAIN text : \E j \in i .. i + MAX_LENGTH_STRING - 2 : j \in DOMAIN text /\ text[j] = "NL"
    /\ \A s \in Settings : \E i \in DOMAIN text :
          /\ \A j \in DOMAIN text : text[j] = Key[s] <=> j = i
          /\ i = 1 \/ text[i - 1] = "NL"
          /\ \E j \in i + 1 .. Len(text) - 1 :
                /\ \A k \in i + 1 .. j - 1 : text[k] = "SP"
                /\ text[j] \notin Blank
                /\ \E k \in j + 1 .. Len(text) : text[k] = "NL" /\ \A b \in j + 1 .. k : text[b] \in Blank

Fine(text) == text = Absent \/ WellFormed(text)

\* The word after the key.
Says(text, s) ==
    LET i == CHOOSE j \in DOMAIN text : text[j] = Key[s]
    IN  text[Min({j \in DOMAIN text : j > i /\ text[j] \notin Blank})]

SaysNumber(text, s, default) ==
    IF text = Absent THEN default ELSE IF Says(text, s) \in Numbers THEN Says(text, s) ELSE "0"

\* Each lookup had a whole file in which every key can be found.
ReadFine == ~torn /\ \A text \in seen : Fine(text)

\* A server that listens has its port, its address and its backlog from the file, each
\* from a text the file had meanwhile, or its defaults; an address the host does not have
\* counts for none (connectToSocket, checkExistenceSpecifiedAddr).
ListensAsConfigured ==
    at = "listening" /\ ReadFine =>
        /\ \E text \in seen : setting.port = SaysNumber(text, "port", "80")
        /\ \E text \in seen : setting.backlog = SaysNumber(text, "backlog", "5")
        /\ \E text \in seen :
              setting.addr = IF text # Absent /\ Says(text, "addr") \in Range(hosts)
                             THEN Says(text, "addr") ELSE INADDR_ANY

\* A request waits as long as the file says, never zero seconds, and is looked up in the
\* folder it names, or has status 500 when there is no file (createRequestObject, getURI).
RequestAsConfigured ==
    at = "serving" /\ ReadFine =>
        /\ \E text \in seen :
              LET seconds == SaysNumber(text, "timeout", "10")
              IN  setting.timeout = IF seconds = "0" THEN "10" ELSE seconds
        /\ \E text \in seen : setting.folder = IF text = Absent THEN "500" ELSE Says(text, "folder")

\* Only a file that is torn, or in which a key is missing, blank or hidden, and an
\* interface without an address, crash the process.
CrashesOnlyOnBadInput ==
    at = "crashed" => ~ReadFine \/ NoAddress \in Range(hosts)

===============================================================================
