---------------------------- MODULE MCConnection ----------------------------
(* The requests TLC lets the client of Connection send. *)
EXTENDS Connection

R(method, version, uri, headers) ==
    [method |-> method, version |-> version, uri |-> uri, headers |-> headers,
     body |-> method \in {"POST", "PUT"}, exact |-> FALSE]

\* What a browser or a careful client sends.
OrdinaryRequests ==
    {R(m, v, u, h) : m \in {"GET", "HEAD"}, v \in {"1.0", "1.1"},
                     u \in {"file", "empty", "missing", "dir"},
                     h \in {<<>>, <<"close">>, <<"agent", "keep">>}}
    \cup {R("POST", v, "file", <<"close", "keep">>) : v \in {"1.0", "1.1"}}
    \cup {R("PUT", "1.1", "dir", <<"keep", "close">>), R("GET", "1.0", "file", <<"chunked">>)}

\* Requests that fill the buffer to exactly LENGTH_STRING - 1 bytes, and others.
ExactRequests ==
    {[r EXCEPT !.exact = e] : e \in BOOLEAN,
       r \in {R(m, v, u, h) : m \in {"GET", "POST"}, v \in {"1.0", "1.1", "2.0"},
                             u \in {"file", "missing", "dir"}, h \in {<<>>, <<"keep">>}}}

\* A few requests with headers and a body, for streams cut anywhere.
CutRequests ==
    {R("GET", "1.1", "file", <<"close">>), R("GET", "1.0", "missing", <<"agent", "keep">>),
     R("POST", "1.1", "dir", <<>>), R("GET", "2.0", "file", <<>>)}

\* The same, two that fill the buffer to LENGTH_STRING - 1 bytes, and one for each
\* other kind of URI.
StreamRequests ==
    CutRequests
    \cup {[r EXCEPT !.exact = TRUE] : r \in {R("HEAD", "1.1", "dir", <<>>), R("GET", "junk", "file", <<>>)}}
    \cup {R("HEAD", "1.0", "bare", <<>>), R("GET", "1.1", "denied", <<>>), R("GET", "1.0", "dotdot", <<>>),
          R("HEAD", "1.1", "long", <<>>), R("GET", "1.1", "huge", <<>>), R("BREW", "1.1", "empty", <<>>)}

=============================================================================
