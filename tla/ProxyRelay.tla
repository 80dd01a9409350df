----------------------------- MODULE ProxyRelay -----------------------------
(***************************************************************************)
(* The byte-level helpers of proxylab-handout/proxy.c as operators over    *)
(* streams: readline, relay_header, relay_content, parse_request and       *)
(* parse_response, and the relay half of process() built from them.       *)
(*                                                                         *)
(* A stream is what read() returns on a socket, one symbol per byte, up to *)
(* end of file; a final ERR symbol makes read() return -1 from there on.   *)
(* Bytes the code only copies are the symbol "x".  A symbol of Tokens      *)
(* stands for a word the code compares or converts as a whole: a method,  *)
(* the "http://" prefix, a "Content-Length: n" line start, a status code,  *)
(* a host name.  Writes to a socket are taken to succeed: writebuf loops   *)
(* until the whole buffer is written.                                      *)
(***************************************************************************)
EXTENDS Integers, Sequences, SequencesExt

CONSTANT MaxLine   \* MAXLINE of csapp.h: readline's and relay_content's buffer

SP  == " "
CR  == "cr"
LF  == "lf"
ERR == "err"

\* "Content-Length: n": the value atoi reads after the space.
ContentLength == [CL1 |-> 1, CL2 |-> 2]
\* The status code of a status line, as atoi reads it.
StatusCode == [S100 |-> 100, S200 |-> 200, S204 |-> 204, S304 |-> 304, S404 |-> 404]

StartsCRLF(buf) == Len(buf) >= 2 /\ buf[1] = CR /\ buf[2] = LF

RECURSIVE ReadFrom(_, _, _)

\* readline(sockfd, buf, len): read one byte at a time until len bytes or
\* a newline (kept); end of file or an error returns read()'s 0 or -1,
\* even after some bytes went into buf.  Result: [res, buf, rest].
ReadFrom(in, len, buf) ==
  IF Len(buf) = len THEN [res |-> len, buf |-> buf, rest |-> in]
  ELSE IF in = <<>> THEN [res |-> 0, buf |-> buf, rest |-> in]
  ELSE IF Head(in) = ERR THEN [res |-> -1, buf |-> buf, rest |-> in]
  ELSE IF Head(in) = LF
  THEN [res |-> Len(buf) + 1, buf |-> Append(buf, LF), rest |-> Tail(in)]
  ELSE ReadFrom(Tail(in), len, Append(buf, Head(in)))

ReadLine(in, len) == ReadFrom(in, len, <<>>)

\* The Content-Length test of relay_header on a line just read.
ContentOf(buf, content) ==
  IF buf # <<>> /\ buf[1] \in DOMAIN ContentLength
  THEN ContentLength[buf[1]] ELSE content

RECURSIVE HeaderFrom(_, _, _, _, _), HeaderLine(_, _, _, _, _)

\* One pass of relay_header's loop after readline returned r: stop on an
\* error, else note a Content-Length, write what was read, and stop on
\* end of file or on the empty line "\r\n".
HeaderLine(r, content, sum, out, len) ==
  IF r.res < 0 THEN [ret |-> -1, content |-> content, out |-> out, rest |-> r.rest]
  ELSE IF r.res = 0
  THEN [ret |-> sum, content |-> ContentOf(r.buf, content), out |-> out, rest |-> r.rest]
  ELSE IF StartsCRLF(r.buf)
  THEN [ret |-> sum + r.res, content |-> ContentOf(r.buf, content),
        out |-> out \o r.buf, rest |-> r.rest]
  ELSE HeaderFrom(r.rest, ContentOf(r.buf, content), sum + r.res, out \o r.buf, len)

HeaderFrom(in, content, sum, out, len) ==
  HeaderLine(ReadLine(in, len), content, sum, out, len)

\* relay_header(from, to, &content, buf).  Result: [ret, content, out, rest]
\* with out the bytes written to "to".
RelayHeader(in, len) == HeaderFrom(in, 0, 0, <<>>, len)

RECURSIVE ContentFrom(_, _, _, _, _, _)

\* Mutant of ContentFrom: the loop stops one byte past content.
ContentFromOffByOne(in, content, len, i, chunk, out) ==
  IF content # 0 /\ i = content + 1
  THEN [ret |-> i, out |-> out \o chunk, rest |-> in]
  ELSE IF Len(chunk) = len
  THEN ContentFrom(in, content, len, i, <<>>, out \o chunk)
  ELSE IF in = <<>> THEN [ret |-> i, out |-> out \o chunk, rest |-> in]
  ELSE IF Head(in) = ERR THEN [ret |-> -1, out |-> out, rest |-> in]
  ELSE ContentFrom(Tail(in), content, len, i + 1, Append(chunk, Head(in)), out)

\* relay_content's loop at byte i with j = Len(chunk) bytes in buf: stop at
\* content bytes (when content # 0), flush a full buf, then read a byte;
\* an error returns -1 with buf unflushed, end of file ends the loop.
\* The final writebuf(to, buf, j) flushes the rest.
ContentFrom(in, content, len, i, chunk, out) ==
  IF content # 0 /\ i = content
  THEN [ret |-> i, out |-> out \o chunk, rest |-> in]
  ELSE IF Len(chunk) = len
  THEN ContentFrom(in, content, len, i, <<>>, out \o chunk)
  ELSE IF in = <<>> THEN [ret |-> i, out |-> out \o chunk, rest |-> in]
  ELSE IF Head(in) = ERR THEN [ret |-> -1, out |-> out, rest |-> in]
  ELSE ContentFrom(Tail(in), content, len, i + 1, Append(chunk, Head(in)), out)

\* relay_content(from, to, content, buf, len).  Result: [ret, out, rest].
RelayContent(in, content, len) == ContentFrom(in, content, len, 0, <<>>, <<>>)

\* The index of the first symbol of s at or after from that is in S, or 0:
\* strchr and strpbrk.  0 stands for their NULL.
FindFrom(s, from, S) ==
  LET i == SelectInSeq(SubSeq(s, from, Len(s)), LAMBDA b : b \in S)
  IN  IF i = 0 THEN 0 ELSE from + i - 1

\* Mutant of ParseRequest: the method is copied with the space after it.
ParseRequestMethodSpace(line) ==
  LET tok == FindFrom(line, 1, {SP}) IN
  IF tok = 0 THEN [fault |-> TRUE, res |-> -1, method |-> <<>>, host |-> <<>>]
  ELSE IF tok = Len(line) \/ line[tok + 1] # "http://"
  THEN [fault |-> FALSE, res |-> -1, method |-> SubSeq(line, 1, tok), host |-> <<>>]
  ELSE LET hostend == FindFrom(line, tok + 2, {SP, ":", "/", CR, LF})
           end     == FindFrom(line, tok + 1, {SP})
       IN  [fault |-> hostend = 0 \/ end = 0, res |-> 0,
            method |-> SubSeq(line, 1, tok),
            host |-> SubSeq(line, tok + 2, hostend - 1)]

\* parse_request(buf, method, uri, hostname, &port) on the C string line.
\* A line with no space, or a URI with no space after it, makes strchr
\* return NULL, and strncpy is handed a length of about 4 GB: the process
\* faults.  Result: [fault, res, method, host], res being 0 or -1.
ParseRequest(line) ==
  LET tok == FindFrom(line, 1, {SP}) IN
  IF tok = 0 THEN [fault |-> TRUE, res |-> -1, method |-> <<>>, host |-> <<>>]
  ELSE IF tok = Len(line) \/ line[tok + 1] # "http://"
  THEN [fault |-> FALSE, res |-> -1, method |-> SubSeq(line, 1, tok - 1), host |-> <<>>]
  ELSE LET hostend == FindFrom(line, tok + 2, {SP, ":", "/", CR, LF})
           end     == FindFrom(line, tok + 1, {SP})
       IN  [fault |-> hostend = 0 \/ end = 0, res |-> 0,
            method |-> SubSeq(line, 1, tok - 1),
            host |-> SubSeq(line, tok + 2, hostend - 1)]

\* parse_response(buf) with no space in the C string buf reads strchr's
\* NULL + 1: the process faults.  readline writes no NUL, so the string is
\* the line and then whatever buf held after it, up to a NUL.
ResponseFaults(str) == FindFrom(str, 1, {SP}) = 0

\* parse_response(buf, &msg): atoi of the word after the first space of
\* the C string; a word that is not a number reads as 0.
ParseResponse(str) ==
  LET sp == FindFrom(str, 1, {SP}) IN
  IF sp = Len(str) \/ str[sp + 1] \notin DOMAIN StatusCode THEN 0
  ELSE StatusCode[str[sp + 1]]

\* The test before the response's relay_content in process().
HasBody(method, msg) ==
  /\ method # <<"HEAD">>
  /\ 2 <= msg \div 100 /\ msg # 204 /\ msg # 304

\* The relay of the response to the client in process(), after the request
\* was sent: readline of the status line, writebuf of it, relay_header,
\* and relay_content if the response has a body.  after is what buf holds
\* past the status line, up to a NUL, and parse_response reads it too.
\* Result: [fault, sum, out], sum being the size process() logs and out
\* the bytes the client receives.
ResponseRelay(resp, method, len, after) ==
  LET st == ReadLine(resp, len)
      hd == RelayHeader(st.rest, len)
      bd == RelayContent(hd.rest, hd.content, len)
  IN  IF st.res <= 0 THEN [fault |-> FALSE, sum |-> 0, out |-> <<>>]
      ELSE IF ResponseFaults(st.buf \o after) THEN [fault |-> TRUE, sum |-> 0, out |-> <<>>]
      ELSE IF HasBody(method, ParseResponse(st.buf \o after))
      THEN [fault |-> FALSE, sum |-> st.res + (IF bd.ret > 0 THEN bd.ret ELSE 0),
            out |-> st.buf \o hd.out \o bd.out]
      ELSE [fault |-> FALSE, sum |-> st.res, out |-> st.buf \o hd.out]
-----------------------------------------------------------------------------
(* Properties, over every response of a bounded shape.                     *)

StatusLine(code) == <<"HTTP/1.0", SP, code, CR, LF>>
FieldLines == {<<"x", CR, LF>>, <<"CL1", CR, LF>>, <<"CL2", CR, LF>>}
Methods == {<<"GET">>, <<"HEAD">>, <<"POST">>}

\* HTTP/1.0: the body a client is owed is the Content-Length bytes of
\* the last such field, or everything up to end of file; a HEAD request
\* and the statuses 1xx, 204 and 304 have none.
OwedBody(method, code, fields, body) ==
  LET cl == FoldLeft(LAMBDA c, l : IF l[1] \in DOMAIN ContentLength
                                   THEN ContentLength[l[1]] ELSE c, 0, fields)
  IN  IF method = <<"HEAD">> \/ code \in {"S100", "S204", "S304"} THEN <<>>
      ELSE IF cl = 0 THEN body ELSE SubSeq(body, 1, Min({cl, Len(body)}))

\* For each request method: for every response whose lines fit in MAXLINE
\* bytes, the relay hands the client the status line, the whole header up
\* to its empty line, and exactly the body it is owed, whatever buf held
\* after the status line (its own space comes first).
RelayOwed ==
  [method \in Methods |->
     \A code \in DOMAIN StatusCode, fields \in SeqOf(FieldLines, 2), n \in 0..MaxLine + 1,
        after \in {<<>>, <<SP, "x">>, <<"x">>} :
       LET head == StatusLine(code) \o FlattenSeq(fields) \o <<CR, LF>>
           body == [i \in 1..n |-> "x"]
       IN  ResponseRelay(head \o body, method, MaxLine, after).out
             = head \o OwedBody(method, code, fields, body)]
=============================================================================
