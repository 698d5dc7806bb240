# ServerHttp in TLA+

A verification development for the HTTP server in `src/`: TLA+ modules translated from the C
code, TLC configurations that check them on small instances, and proofs that TLAPS checks for
every instance.

## The system

ServerHttp is a forking HTTP/1.x server. `main` (Server.c) opens the listening socket *S* and
accepts; for each connection *C* it forks. Unusually, the **parent** closes S, serves C and
returns, and the **child** closes C and goes on with the accept loop, so the role of acceptor
wanders through the process table. A serving process reads requests from C, parses them,
answers, writes an access-log record and, if the connection is kept alive, repeats. All
processes write two log files under two System V semaphores.

| Component | State | Operations | Interaction |
|---|---|---|---|
| Process lifecycle: `main`, `connectToSocket`, `acceptWithLogger`, `doesServerHaveToWorkCommand`, `doesServerHaveToWorkConfig`, `checkExit`, `sig_handler` | position in `main`, descriptors S and C, `exitCycle`, SIGINT disposition, address in the log record | accept with timeout, fork, hand over, look at terminal, file and flag, stop | fork copies everything to the child; SIGINT reaches one process or all; the backlog is in the kernel |
| Log locking: `writeLog`, `writeInLogFile` | two semaphores, one local `sembuf` per call | wait for zero, increment, write, decrement | `writeInLogFile` calls `writeLog` inside its section through `isUseInLog` |
| Connection handling: `clientServerInteraction`, `readWithTimeOut` | the request object, `result`, the stream | create, read, answer, log, loop | calls the parser, the method and the log; the client sends, waits or leaves at any time |
| Request parsing: request.c | request object, the static header buffer | request line, headers | the static buffer outlives the request |
| Methods: methods.c | request object, the file system, `errno` | GET, HEAD, seven stubs, unknown | reads the file twice (size, contents), sends through `sendAll` |
| Access-log record: accessLoggin.c | the static `W3CLog` | filled by parser, methods and accept; written; cleared | inherited through fork |
| Configuration lookup: `getValueForKeyNumber`, `getValueForKeyString` | config.txt, accessLoggin.txt, dictionaryType.txt | look up a key, at every use | files may be edited while the server runs |
| Choice of the address: `checkExistenceSpecifiedAddr` | none | compare with the interfaces | decides where `connectToSocket` binds |
| Time and text helpers | none | | |

What is hard here: interleavings of parents, children, clients, operator and SIGINT; death of a
process inside a log call; two-step locking; a stream cut and joined by TCP against a parser that
takes one read for one request; static buffers and `errno` that outlive what they describe; a
flag read after `free`; files, of the site and of the configuration, that change between two
looks at them. `PROJECT.json` lists these hazards at their lines, with the properties
that watch them.

## Modules

| Module | Models | Notes |
|---|---|---|
| `ServerProcesses` | process lifecycle | one action per step of `main` and of the functions it calls; the environment (clients, terminal, command file, SIGINT) is nondeterministic |
| `ServerProcessesProofs` | | its inductive invariant and seven theorems |
| `MCServerProcesses` | | model values and symmetry for TLC |
| `ListenerService` | what all processes promise their clients together | abstract: a queue, taken in order, each once; opens once, stops once |
| `ListenerProofs` | | that `ServerProcesses` implements `ListenerService` |
| `LogLock` | log locking | one action per `semop`; both functions follow the one protocol, with nested calls |
| `LogLockProofs` | | four theorems |
| `MCLogLock` | | model values and symmetry |
| `ServerWithLog`, `MCServerWithLog` | `ServerProcesses` and `LogLock` together | every step of a process waits for its log calls; SIGINT reaches processes inside them |
| `ServerWithLogProofs` | | that the composition behaves as each of its parts, and what follows |
| `Connection` | connection handling, parsing, methods and the log record of one serving process | one action per outcome of a read, one per method, one each for log and loop; the client is nondeterministic |
| `RequestService` | what a handler promises a client that waits for each answer | abstract: one proper answer to each request, until the connection ends; `KeepsWord` says whether it ends only for a reason |
| `MCConnection` | | the sets of requests the runs use |
| `ConnectionProofs` | | four invariants, and that `Connection` implements `RequestService` |
| `HeaderParser` | `requestParametersParse` symbol by symbol, with the message array and the parsing of header values | one action per branch of the loop |
| `HeaderUnits` | the units of `Connection` as symbols of `HeaderParser` | states that the two modules agree |
| `MCHeaderParser` | | the texts |
| `HeaderParserProofs` | | four theorems |
| `GetResponse` | `methodGet`, `getLengthFile`, `readFile`, `sendAll` | one action per `stat`, opening, byte read and `send`; the file is edited and the client resets at any moment |
| `GetResponseProofs` | | seven theorems |
| `Config`, `MCConfig` | `getValueForKeyNumber`, `getValueForKeyString`, `checkExistenceSpecifiedAddr` and their callers for config.txt | one action per lookup, two when the file is measured before it is read |
| `ConfigProofs` | | three theorems |

`ServerWithLog` instantiates `ServerProcesses` and `LogLock` with their own variables.
`ServerProcesses` implements `ListenerService` (property `ServesInOrder`) and `Connection`
implements `RequestService` (`ServesRequests`), each under a refinement mapping. `HeaderParser`
is tied to `Connection` by `AgreesWithConnection` of `HeaderUnits`: on texts that consist of whole
headers, its loop ends as the parser operator of `Connection` says. `GetResponse` is the inside of the one
step `MethodGet` of `Connection`, and `Config` that of `ConnectToSocket` of `ServerProcesses`.

**State and code.** In `ServerProcesses`, `pc[p]` is the place in `main` ("check" is
`while(checkExit())`, "select" `acceptWithLogger`, "fork" the call, "handoff" the parent up to
`close(deskriptionS)`, "serving" `clientServerInteraction`, "release" the child up to
`close(deskriptionC)`, then "signal", "stdin", "config", and "stop" after the loop);
`listening` and `cfd` are the descriptors; `logIP` is `W3CLog.ClientIPAddress`, kept as the
connection it came from, "garbage" when it was read from the unset `socketClient`; `logClientIP`
is the line of accessLoggin.txt, and without it ("missing") `isUseInLog` tests a byte nobody wrote and may
answer otherwise at each call. A process that
ends gives back its descriptors, and with the last holder of S the backlog is reset. A SIGINT
at "select" may find the process before the system call, where the handler only sets the flag, or
inside it, where it becomes `ERROR_RUN` and exit.

In `LogLock`, `at[p][s]` is the place of process p in its call for semaphore s ("wait", "inc",
"inside", "dec"), `kind` the contents of its `sembuf`, of which the code sets only `sem_op`;
`semval` the values. Results of `semop` are ignored by the code, so a failed or interrupted one is
simply passed.

In `Connection`, the stream is a sequence of units: method and URI, version, header text, line
end, body; a read may end between any two of them. `ReadData` is one turn of the inner loop of
`clientServerInteraction` with everything `parseParameters` does in it; `req` is `*currentReq`,
`carry` the static `oneParameterBuffer`, `w3c` the static `W3CLog`, `errno` what earlier calls
left. A null pointer used by the parser or a method leads to "crashed". SIGPIPE ends the process before
the first byte of a response, or when a part of it has been sent ("cut"). The stubs of
POST, PUT, DELETE, OPTIONS, TRACE, CONNECT and PATCH are copies of each other and one action.
`FreedValue` chooses what the loop sees in the object `deleteRequest` has freed: "kept" is the
old value, "any" either value. Which one occurs depends on the allocator, so safety runs use
"any" unless the property is about the flag itself.

In `ServerWithLog` a process of the accept loop makes at most one log call between two of its
steps (`called` is that bound), a handler any number; `LoopLogsAt` and `HandlerCalls` say where the loop and
what the handlers log, so that a run with more processes can do with less. The numbers of processes that died inside a
call are not used again, so that a semaphore's holder stays recognizable.

In `HeaderParser`, `message` is the array of `clientServerInteraction` with the byte after it,
`oneParameterBuffer`, `ParseBuff_ptr` and `lenName` the static variables, and a symbol stands for a
character or part of a word; a call begins with any flags the request line may have left. `call`
remembers the text and the state a call began with, for the properties.

In `GetResponse`, `file` is a version and a length; `invitedFile`, `sizeFile` and `data` are what
`readFile` has open, asks for and has read. `fread` is one action per byte. An edit in place (append,
rewrite) reaches the open file, one of its name (replace, remove, deny) does not. `msg` is what `sendAll` was given,
`total` its counter, and `wire` the tokens the client gets: the head, the digits of sizes, line ends and bytes with
their version and offset. `dotted` is a path with "/../"; a path does not become or cease to be a
directory during a response. `errno` is not a variable: where it is tested after a call that succeeded, it may hold
anything. The first `send` after a client's reset fails and the next raises SIGPIPE; with
`Transient` a send may also fail on a good connection, and `methodGet` goes on regardless.

In `Config`, a text is a sequence of keys, spaces, line ends and words. `opened` is what a `FILE`
gives: an edit in place changes it, a new file under the old name does not. `"junk"` stands for
memory never written; a null pointer with a length added, and a copy of negative length, are
"crashed".

## Runs

| Run | Shows |
|---|---|
| `processes_safety` | one acceptor; S is shared only during a hand-over and never by a serving process; C belongs to one process; a serving process has its own client's address; connections are taken in order, each once, and none is lost while the server runs; with three slots, three clients, every system call able to fail, signals to one process or all, and address recording that may be switched on |
| `processes_liveness` | queued clients are served or the server has stopped; a cleared flag, a command file that keeps saying "exit", and a lone "out" stop the server; a stopped server frees the port |
| `lock_safety` | no increment is lost or returned twice, with garbage sembufs, signals and deaths |
| `lock_mutex` (violation) | the two-call lock does not exclude |
| `server_with_log` | an acceptor and two handlers that log without end, SIGINT at any time: once every process has caught SIGINT, no signal leaves a semaphore taken; if none is left so, and signals cut waits short only finitely often, every log call returns, connections are served, and a cleared flag and the command file stop the loop |
| `connection_polite` | a client that sends whole requests one at a time gets the proper answer to each, in order; the connection goes on exactly after persistent requests; the handler ends |
| `connection_exact` | some requests fill the buffer to `LENGTH_STRING - 1` bytes: each request is answered, but for one of those followed by silence, and a client that has gone |
| `connection_stream` | with the stream cut and joined anywhere, any kind of URI and any value of the freed flag: answers come in the order of the requests, what a cut request gets more than its answer is 400, and the log has exactly the responses sent whole |
| `connection_headers` | a header never takes effect on another request, unless a read fills the buffer exactly |
| `header_parser` | the parser stays in its buffer, reads the last read only, and does what the complete lines of its text say, continued from the call before; it agrees with the parser of `Connection` |
| `get_response` | chunks are well formed and bytes in order however the file is edited and sends are cut; a plain body is of one version unless the file is rewritten in place; nothing of a directory or a path with "/../" is sent; a response is complete when the file was only appended to; the record counts what was sent after the head; the loop ends |
| `config` | what the server listens on, how long a request waits and where it is looked up comes from a text the file had meanwhile, or the defaults; nothing but a bad or torn file, or an interface without an address, crashes the process |

The violation run contradicts a comment of the code, quoted in `PROJECT.json` under "findings".
Other disagreements between comments and code, visible in the models' definitions but with no run
of their own:

- `clientServerInteraction` tests `isKeapAliveUsing` of an object it has freed (Server.c:72 and 74), so
  not the Connection header (request.c:448, "parse value when parameter: connection") but the
  allocator decides.
- The statuses 501 and 505 of the parser become 400 in `methodUnknow` (methods.c:578; request.h:99
  and 103).
- "out" followed by the end of the input is lost: the read that returns 0 empties the buffer
  (auxiliaryFunction.c:66; 55, "purpose: stop server when need"). `LoneOutStops` is therefore
  stated for a terminal that stays open.
- Switching "Client IP address" off while the server runs leaves the address of an earlier accept
  in the record (workWithSockets.c:189; accessLoggin.h:15, "The IP address of the client that made
  the request."). `NoForeignAddress` is therefore checked and proved for recording that is at most
  switched on.
- After a read of exactly `LENGTH_STRING - 1` bytes a finished request waits for more, and the next
  request is parsed as further headers of it and never answered (Server.c:48). `HeadersAreOwn` is
  checked without such requests.
- A URI that is too long ends in 404 or a crash, not 414 (request.h:82).
- HEAD sends the error page with a status other than 200 (methods.c:144; request.h:26).
- A plain file that is appended to between `getLengthFile` and `readFile` is sent beyond the Content-Length
  its head told (methods.c:288 and 312). `WholeFile` states the length only for a file nobody edits.
- A response with an empty body has no length in its head, also when it keeps the connection alive
  (methods.c:129): an HTTP/1.0 client finds no end. The stubs answer so too.
- Two handlers whose waits are cut short by SIGINT again and again can take turns inside the section, and the
  acceptor's wait for zero never ends: then neither the flag nor the command file stops the server. TLC finds
  this when `Undisturbed` is weakened to `[]NoOrphan`; it takes three processes and signals without end.
- A client that has closed its half of the connection is answered 400 without end where the freed flag
  reads as set (Server.c:74). `HandlerEnds` is checked where it keeps its value.
- A directory is answered 423 when an interrupted `semop` left `EINTR` in `errno` (methods.c:203;
  request.h:89).
- A file that exists and cannot be opened is answered 200 without contents (methods.c:207;
  request.h:51).
- The stubs and `methodUnknow` declare 37 bytes and send 35 (methods.c:14).
- A file that vanishes after the head was sent is recorded with status 404, although 200 was sent,
  and one byte too few; a chunked response then has no last chunk (methods.c:254, 308, 352).
- After a failed `send` of part of a chunk `methodGet` goes on with the next chunk, so the stream the
  client gets is no sequence of chunks (methods.c:360); `ChunksWellFormed` is stated up to then.
- Any beginning of "keep-alive" or "close" counts as the word, an empty element (after a trailing
  semicolon) counts as "keep-alive", and a list with commas as neither (request.c:456).
- A missing key of a number ends the process instead of giving `KEY_ISNT_FOUND` (request.c:295), and
  a port that is no number is 0, so that the kernel chooses one (workWithSockets.c:83).
- An interface address that begins the configured one makes `checkExistenceSpecifiedAddr` succeed,
  and `bind` then fails: the server does not start, where any other absent address means all
  interfaces (workWithSockets.c:48).
- A SIGINT that kills the first handler, which was forked before the signal was caught, inside a log
  call leaves its semaphore above zero. The acceptor then waits in its next log call, and neither
  SIGINT nor the command file stops it.

**Bounds.** Three process slots suffice for the processes of one hand-over (acceptor, its parent,
one still serving) and let the table fill, so that `fork` fails; the backlog is 1, so it fills
with two waiting clients. One terminal line: "out" alone, or another. The liveness run has two
clients, signals to the whole group and an accept that may fail. `server_with_log` has three slots and two
clients, so that two handlers overlap and a third process waits for both. Its bounds are that handlers call
`writeInLogFile`, with one nested `writeLog`, and nothing else (`HandlerCalls`), that the loop logs once a round, at "check"
(`LoopLogsAt`), that sembufs are clean, and that of clients and free slots, which are alike, the first is taken (`InTurn`). Three
processes are the fewest of which two can be inside a log section and a third wait for both;
`NestedCalls` is 4 in `lock_mutex` (a `writeLog` at the start and end of each of the two lookups)
and 1 elsewhere; `lock_safety` has every kind of sembuf but "nowait" and "undo", which "both" combines. Two requests on a connection let state leak from one into the next, and
`connection_headers` takes three. `connection_exact` has two, each of which may be exact. `MaxResponses` exceeds the requests by what a client that has
left can still provoke; under "kept" it is never reached, and under "any" it ends a handler that
would answer the end of its input for ever.

`header_parser` makes two calls in a row, so that each can continue a header of the other, on
three blocks of two headers cut anywhere and on texts with odd values; a buffer of seven symbols
is shorter than one of the headers, and one text fills the array. `get_response` has chunks of
two bytes and files of up to four, so that there are none, one or two full chunks and a rest of
one; two edits can fall between any two of its steps, reads included; `MaxWire` is beyond every response that
ends. Its sizes have one digit; `ChunksCorrect` proves the framing for sizes of up to four. `config` has three good files, four that each break one condition of `WellFormed`, and no
file; three texts during one startup let every lookup see another.

**Deadlock** is checked in `lock_mutex`. Elsewhere the system may stop: all
processes ended, a semaphore is left above zero by a death, the handler ended, the method or the
last call returned, or the server exited.

**Fairness.** `ServerProcesses`: weak fairness of each process's own steps, because the kernel
schedules it and both selects have timeouts; nobody has to connect, type, send SIGINT, or let an
interaction end. `Connection`: weak fairness of
the handler, written with its enabling condition spelled out (`~Stopped`), because TLC evaluates
`ENABLED` of the parsing step far too slowly. No client has to do anything. `GetResponse`: weak
fairness of the method as a whole, a process that runs and a client that reads as long as it keeps
its connection; edits are bounded, as the file must stop growing. `ServerWithLog`: weak fairness of the steps of
main and of those inside a log call, strong fairness of the wait, because the kernel wakes waiters each time the value
reaches zero; no log call has to begin, and nothing bounds those of a handler. With weak fairness of the wait
`GoesOnDespiteLog` fails: handlers starve the acceptor. The hypothesis `Undisturbed` is no fairness but says
what the operator does not do: interrupt the waiting processes for ever.

## Proofs

Every safety property of a passing run is also a theorem, with the exceptions named at the end of
this section. A theorem holds for every value of the constants that satisfies the module's
`ConstantsAssumption`; TLC evaluates those assumptions in the runs.

**`ServerProcessesProofs`**, for every number of slots and connections, every backlog and every set
of failing calls: `TypeOK`, `SingleAcceptor`, `SoleListener`, `OneHandlerPerConnection`,
`NoStrayDescriptor` and, when the line of accessLoggin.txt is there and not switched off (`LogFiles` and `LogEdits` without "missing",
`LogEdits` without "no"), `NoForeignAddress`.
None of them is inductive: that a fork makes no second acceptor depends on there being one before,
and that the two holders of C are parent and child depends on C being nowhere else. `IndInv` adds where each
descriptor is open, by position in `main` (`DescriptorsMatchPlace`), that a connection is in
one place of the backlog or in processes, never both (`ConnectionsInOnePlace`), and that before the
socket is opened there is one process and nothing in the backlog (`StartsAlone`). The proof has one
lemma per group of actions; `NoForeignAddress` needs a further invariant, that a process between
accept and the hand-over has recorded the connection it holds. The model of SIGINT is the general
one: it may reach one process or all, before or inside the select of the accept loop.

**`ListenerProofs`** proves the refinement `ServesInOrder`: `ServerProcesses` implements `ListenerService`
under the mapping `Phase`, `Accepted`, `Waiting`, `Serving`, `Listener` of that module. The steps
fall into a few shapes (nothing changes hands; a process ends; a connection is accepted, handed
over, finished), each stated once as a lemma about the descriptors and mapped to one abstract
action or a stutter; `IndInv` gives that the step finds the descriptors where the shape needs them.

**`LogLockProofs`** proves that `TypeOK /\ SemCountsHolders` is inductive, for every kind of sembuf, from cardinality facts about
adding and removing one holder, and derives `DecrementNeverBlocks`: leaving a section needs nobody else.

**`ServerWithLogProofs`** proves `BehavesAsProcesses` and `BehavesAsLocks`: every step of the composition
is a step or a stutter of each part, so `PartsCorrect` carries the invariants of both over. The
signal that reaches several processes at once is what makes this more than a projection: it is one
step of `ServerProcesses` and may be deaths or interruptions in `LogLock`. `SignalsSafe` proves
`SignalsAreSafeOnceCaught` from these; it needs that a process inside select is not inside a
log call (`QuietInSelect`). The assumption `"one" \in Interrupts` says that a SIGINT to a single
process is possible, as it is on any system.

**`GetResponseProofs`**, for every file size, every chunk size below 64 K (25600 in methods.h:8), any number of
edits and every cutting of the sends: `TypeOK`, `DataInOrder`, `PlainOfOneVersion`, `RefusedNotSent`,
`ChunksWellFormed`, `WholeFile` and `RecordMatchesBody`. These properties speak of what the client has got; the
argument is that it is a prefix of `Stream`, all that `sendAll` was given, and that each of them holds of `Stream` when a piece
is complete and passes to its prefixes. Chunks are described by `Follows`, which says what token comes how far
behind the first digit of a size. `readFile`'s unfinished piece is kept apart: its bytes follow those of `Stream`, and their
version is that of the file it has open. The properties are stated with the positions of tokens and not with
filters, so that they could be proved.

**`HeaderParserProofs`**, for every length of the two arrays and every text that fits the message array:
`WithinBuffer` (of the static buffer), `OnlyThisRead`, `ParsedAsLines` and `AgreesWithConnection`. For the first two the inductive invariant relates
`ParseBuff_ptr` to the length of the array, and the position in the text to the end of the read. The
assumption `Texts \subseteq Seq(STRING)` is a typing of the constant.

`ParsedAsLines` compares the loop, one symbol at a time with static variables that outlive the
call, with what the text says when it is read as lines and words. The argument has three parts.

1. Lines. At every symbol the buffer holds the line the symbol is in, as far as it has come, and the flags
   are what the lines completed before it say (`ParsedTo`). `LineMore` and `LineNew` say what one symbol
   more and one newline more do to the line; `CutMore`, that cutting to the buffer commutes with adding a
   symbol.
2. Headers. The code compares the stored name, up to `lenName`, where the property looks at the beginning of
   the line. They are the same only because of `NameFound`: `lenName` is the place after the first colon of
   the buffer, or the last place when the colon came to a full buffer. In the second
   case there is no value.
3. Values. `Elements` is a recursive function, and each of its calls starts after the end of an element, so
   the claim about it (`Told`: the elements from a place on are the words from there on, and the last
   known one decides) is proved for the last place at which it could fail. This is induction without
   an induction theorem: a nonempty set of counterexamples has a least element (`LeastElement`), for
   which `ToldStep` contradicts.

The property states what is kept of a text by positions and cardinalities and not by filters,
so that it could be proved; for the same reason a semicolon is the symbol `"SC"` of the model.

`AgreesWithConnection` follows from `ParsedAsLines`, for every set of texts made of units: where the run
compares the two parsers on parts of three texts, the theorem compares them on sequences of any length
of the four headers and the newline, after any header left in the buffer.

1. Units in the text. `FlattenSeq` is recursive; `FlattenDefined` shows that the function it is
   defined by exists (again by a least counterexample), and `FlattenIs` that every unit stands in the
   joined text where the units before it end (`Lies`).
2. Lines. `Stands` relates the line in the buffer to Connection's carry: nothing, one header, or `Junk`,
   a line in which something follows a header. `KeptSays` and `JunkSays` show that such a line says to the
   flags what Connection reads from the carry.
3. Units and lines. `Walk` holds where a unit begins; `WalkText` and `WalkNewLine` preserve it, and `StopIs` finds
   that both parsers stop at the same newline, or both at the end.

`UnitsAssumption` asks of the constants that a header is shorter than the static buffer, with room for one
symbol more; the array of the code has 256 bytes, the headers it knows at most 26, and `"agent"` stands for
any header it does not know, as long as that fits too. It is needed: a header that fills
the buffer hides that more follows in its line, and `Connection` would call that line junk.

**`ConfigProofs`**, for every set of texts and interfaces and every buffer length: `ListensAsConfigured`,
`RequestAsConfigured` and `CrashesOnlyOnBadInput`. What a lookup returns is given by least and greatest
positions in a text, so these proofs begin with the least element of a nonempty set of naturals; `Places`
relates what the code has found so far to what the text says. Of the constants they assume that
`Files` and `Interfaces` hold sequences of strings, and that no file contains one of the symbols that
stand for failed lookups: these are names of the model, not of the program.

**`ConnectionProofs`**, for every set of requests, every bound, however the stream is cut, whatever signals arrive, and
for either value of the freed flag, but for what 2 and 3 assume:

1. `TypeOK`, `AnswersInOrder` and `LogMatchesWire` unconditionally. `Stream` says that what is unread is
   a tail of the units of the requests sent, in order and none twice, and `EndsWhole` that it ends
   where a request ends; `Ahead` and `Latest` that all unread units belong to requests after the one being
   answered or in part to it, and that answers were to earlier ones or, with 400, to its rest: a read that does not
   begin with a method gives a request of status 400 and no other. `Describes` says of the static record that its fields are
   those of the request in `req` from the parser until `Log` clears it.
2. `HeadersAreOwn`, under `NeitherFreedNorFull`: `FreedValue = "kept"` and no request fills the
   buffer to exactly `LENGTH_STRING - 1` bytes. Both are needed (TLC violates the property without
   either) and are the two disagreements listed above. The invariant is `Carried`: when a
   further request may come, the static buffer is empty or holds a part of a header whose end is the next unread unit.
3. `ServesRequests`, the refinement of `RequestService`, under `Polite`: requests are sent whole and one at a time, fit
   the buffer, have a version and a method the server knows, and GET and HEAD look up a file, a directory or
   nothing; no signal interrupts a call. The freed flag may keep its value or not: `KeepsWord` of the abstract
   specification says which, and the connection then ends exactly after requests that are not persistent, or after any. These are what the abstract specification
   promises answers for, and the run `connection_polite` has such requests, with the flag kept. `RequestUnderstood` computes what the
   parser makes of the units of a whole request: `HeadersSaid` finds the headers at the even places after the
   first line, and `Persists` that the last Connection header decides. The invariant `OneByOne` says, for each place of the
   handler, how many answers there are to how many requests (`OneUnread`, `Answering`, `Refusing`,
   `Decided`), and that `errno` is 0 or `ENOENT`, without which a directory would not be answered 404. One lemma per
   step maps it to `Ask`, `Answer`, `Silence`, `Close`, `Leave` or a stutter.

Not proved, and why:

- Liveness (`QueuedIsServed`, `InterruptStops`, `ExitFileStops`, `StopFreesPort`, `LoneOutStops`,
  `CallsReturn`, `GoesOnDespiteLog`, `Answered`, `HandlerEnds`, `MethodEnds`): fairness and `ENABLED` are
  beyond the prover.
- `MutualExclusion` does not hold; its run expects the violation.

All the other invariants and action properties of the runs, and the two refinements, are theorems.

## Not modelled

- Memory: ownership of the log record's strings (`malloc` at each accept, `free` in `clearW3CLog`), the
  heap running out, values longer than the arrays they are copied to (`IPaddress`, `document`,
  `typeConteType`).
- A read of -1 bytes writes its terminator before the message array, one of `LENGTH_STRING` bytes
  after it; `HeaderParser` has the second byte, neither model what else is there.
- The lengths of response heads (431), the dictionary of content types, and the texts of pages.
- accessLoggin.txt as a text: whether its lines say yes or no, or are missing, is a choice of the environment.
- Times: how long a read waits, so also the header keep-alive: (request.c:482 and 562), which sets the time of a
  second wait for the same request and nothing else; Accept-Language and Referer, whose parsers are empty.
- Time and text formatting (`getTimeS`, `convertToLower`, `freeNew`), the contents of the site, the build.
- `EINTR` is modelled for `select` and `semop`; other calls restart.

## Plan

The modules planned are written, and their safety properties and refinements proved. What is left:

1. Weaker hypotheses: `ServesPolite` for signals, with the status of a directory left open.
2. `server_with_log` with more calls in the handlers and the loop, beyond what TLC finishes in minutes today.
3. The framing of a response as the client of a whole connection sees it: `GetResponse` checks it for one
   response, `Connection` has responses as wholes.
