------------------------------- MODULE MCConfig -------------------------------
(* The files and interfaces TLC gives Config. *)
EXTENDS Config

Line(s, value) == <<Key[s]>> \o value \o <<"NL">>

\* The lines in the order of the file of the repository, the first being "[".
FileOf(port, addr, backlog, timeout, folder) ==
    <<"[", "NL">> \o Line("port", port) \o Line("folder", folder) \o Line("addr", addr)
    \o Line("timeout", timeout) \o Line("backlog", backlog)

Usual == FileOf(<<"SP", "80">>, <<"SP", "ip1">>, <<"SP", "10">>, <<"SP", "5">>, <<"root">>)

GoodFiles ==
    {Usual,
     <<"x", "x", "NL", "x", "x", "NL">>
        \o FileOf(<<"8080">>, <<"SP", "ip1+">>, <<"SP", "SP", "5">>, <<"0", "SP">>, <<"SP", "home">>),
     FileOf(<<"word">>, <<"ip2", "SP">>, <<"0">>, <<"word">>, <<"SP", "root", "SP">>)}

\* A key that is missing, a value that is blank, a key inside another line and in a line
\* too long for the buffer, a last line without its end, an empty file.
BadFiles ==
    {SubSeq(Usual, 1, Len(Usual) - 5),
     FileOf(<<"80">>, <<"SP">>, <<"5">>, <<"SP">>, <<"SP">>),
     <<"x", Key.addr, "x", "x", "x", Key.addr, "ip2", "NL", Key.folder, "a", "b", "NL",
       "x", Key.port, "80", "NL", Key.timeout, "NL", Key.backlog, "10">>,
     <<>>}

MCFiles == GoodFiles \cup BadFiles \cup {Absent}

MCInterfaces ==
    {<<"ip1">>, <<NotIP, "ip1", "ip2">>, <<NotIP, "ip2", NoAddress, "ip1+">>, <<NoAddress>>, <<>>, Failing}

MCExtensions == {<<"ip1", "ip1+">>}

===============================================================================
