------------------------------- MODULE MCProxy -------------------------------
EXTENDS ProxyThreads

CONSTANTS c1, c2, c3, h1, h2

\* Three connections, so that a thread formats its log line after main has
\* accepted the next one, and two threads contend for each mutex while a
\* third is elsewhere; two hosts, so that a lookup can be overwritten.
MCConns == {c1, c2, c3}
MCHosts == {h1, h2}

\* The stack garbage in main's size happens to be a valid length.
MCAddrLenValid == {"valid"}
\* Every value the uninitialized size can have.
MCAddrLenAny == {"valid", "small", "negative"}

\* pthread_create succeeds, or it may also fail (EAGAIN).
MCCreateOk == {FALSE}
MCCreateAny == {FALSE, TRUE}

\* No failure of the environment, or every one of FailureKinds.
MCFailuresNone == {}
MCFailuresAll == {"start", "malloc", "sigpipe"}

\* MAXLINE: long enough for every line below, as 8192 is for real ones.
MCMaxLine == 9

\* Request streams: EOF, a GET of an absolute URI on h1 and on a name no
\* host answers to, and a HEAD on h2.
MCRequestsOk ==
  {<<>>, <<"HEAD", SP, "http://", h2, "/", SP, "HTTP/1.0", CR, LF>>}
    \cup {<<"GET", SP, "http://", h, "/", SP, "HTTP/1.0", CR, LF>> : h \in {h1, "y"}}
\* Also a relative URI, a line with no version after the URI and a line
\* with no space.
MCRequestsAny ==
  MCRequestsOk \cup {<<"GET", SP, "/", SP, "HTTP/1.0", CR, LF>>,
                     <<"GET", SP, "http://", h1, CR, LF>>, <<"x", CR, LF>>}

\* What follows the line in buf: a NUL, or a space before the first NUL.
MCGarbage == {<<>>, <<SP, "x">>}
\* The stack holds a NUL right after the line: parse_request and
\* parse_response see the line and, after a shorter one, the rest of the
\* request line, and nothing more.
MCGarbageNul == {<<>>}

\* Response streams: the server closes at once, or answers 200 with a body.
MCResponsesOk == {<<>>, StatusLine("S200") \o <<CR, LF, "x">>}
\* Also a status line with no space, long enough to cover both spaces of
\* the request line it is read over: parse_response then faults or not
\* on what the stack held after that line.
MCResponsesAny == MCResponsesOk \cup {<<"HTTP/1.0", "x", "x", "x", CR, LF>>}
=============================================================================
