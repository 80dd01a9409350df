---------------------------- MODULE ProxyThreads ----------------------------
(***************************************************************************)
(* The threads of proxylab-handout/proxy.c.  main accepts a connection,    *)
(* copies the client's address into a malloc'd threaddata bundle and       *)
(* spawns a detached thread running process() on it.  Each thread reads    *)
(* the request line, resolves the host with gethostbyname under the       *)
(* "syscall" mutex (gethostbyname returns a pointer to one static hostent  *)
(* shared by all threads), connects, relays request and response, and,    *)
(* when anything reached the client, formats a log line and writes it to  *)
(* stdout and to proxy.log under the "logfile" mutex.  It then closes both *)
(* sockets and frees its bundle.                                           *)
(*                                                                         *)
(* A connection is a model value and is also its client's address.  The   *)
(* request line and the response are streams of module ProxyRelay, read    *)
(* and parsed by its readline, parse_request and relay operators; every    *)
(* other socket call is one step with its success and failure outcomes.   *)
(* A fault in a parser kills the process: every thread stops and the      *)
(* kernel closes every socket.                                             *)
(***************************************************************************)
EXTENDS ProxyRelay, FiniteSets

CONSTANTS Conns,        \* the connections clients open, one thread each
          Hosts,        \* the end servers requests name
          AddrLenInit,  \* values main's uninitialized "size" may start with
          CreateFails,  \* outcomes pthread_create may have: FALSE, TRUE
          None,         \* no connection / no owner / no hostent
          Garbled,      \* a client address accept only partly wrote
          Requests,     \* streams a client sends: its request line, or EOF
          StackGarbage, \* bytes after the line in the uninitialized buf,
                        \* up to the first NUL
          Responses,    \* streams an end server sends back
          Failures      \* failures of the environment a run admits, a
                        \* subset of FailureKinds

(* "start": a call of main's start-up fails (socket, setsockopt, bind,   *)
(* listen in open_proxyfd, or fopen); "malloc": malloc of a bundle        *)
(* returns NULL; "sigpipe": a client closes its connection before its     *)
(* response is written.  Nothing in proxy.c ignores SIGPIPE.              *)
FailureKinds == {"start", "malloc", "sigpipe"}

ASSUME Failures \subseteq FailureKinds

\* A host name parse_request copied out that no host answers to.
Unknown == "unknown"

(* main's "size", the addrlen passed to accept, is never initialized.     *)
(* "valid": it happens to be >= sizeof(struct sockaddr_in); "small": it   *)
(* is in 0..15, so accept copies a truncated address, and then writes 16  *)
(* back; "negative": as an int it is < 0, so every accept fails with      *)
(* EINVAL after the kernel has taken the connection, and size never       *)
(* changes.                                                               *)
AddrLens == {"valid", "small", "negative"}

VARIABLES mainpc,     \* "start", "accept" or "create"; "exited" after a failed
                      \* start-up, "crashed" once the process died
          size,       \* main's addrlen, one of AddrLens
          arrived,    \* connections that reached the listening socket
          newfd,      \* the connection main accepted and has not handed on
          client,     \* main's struct sockaddr_in, the last accepted peer
          data,       \* connection -> the client address in its bundle
          pc,         \* connection -> where its thread is in process()
          request,    \* connection -> the host and method its request line
                      \* names, and the relay outcomes buf's contents allow
          hostent,    \* gethostbyname's static result
          server,     \* connection -> the address open_serverfd copied
          syscall,    \* holder of the syscall mutex, or None
          logfile,    \* holder of the logfile mutex, or None
          logline,    \* connection -> the entry format_log_entry built
          stdout,     \* entries printf wrote, in order
          logfd,      \* entries fprintf wrote to proxy.log, in order
          clientfds,  \* accepted client sockets not yet closed
          serverfds   \* end-server sockets not yet closed

vars == <<mainpc, size, arrived, newfd, client, data, pc, request, hostent,
          server, syscall, logfile, logline, stdout, logfd, clientfds, serverfds>>

mainVars == <<mainpc, size, arrived, newfd, client, data>>

\* The points of process() a thread can be at; "idle" before it exists.
Stages == {"idle", "read", "lock_sys", "gethost", "copy", "connect",
           "relay", "lock_log", "format", "printf", "fprintf", "close_server",
           "close_client", "done"}

\* Thread t moves from one point of process() to the next.
Goto(t, from, to) == pc[t] = from /\ pc' = [pc EXCEPT ![t] = to]

Init == /\ mainpc = "start"
        /\ size \in AddrLenInit
        /\ arrived = {}
        /\ newfd = None
        /\ client = Garbled
        /\ data = [c \in Conns |-> None]
        /\ pc = [c \in Conns |-> "idle"]
        /\ request = [c \in Conns |-> None]
        /\ hostent = None
        /\ server = [c \in Conns |-> None]
        /\ syscall = None
        /\ logfile = None
        /\ logline = [c \in Conns |-> None]
        /\ stdout = <<>>
        /\ logfd = <<>>
        /\ clientfds = {}
        /\ serverfds = {}

-----------------------------------------------------------------------------
(* main                                                                    *)

\* The process dies of a segmentation fault or a signal: main and every
\* thread stop, and the kernel closes every descriptor.
Fault == /\ mainpc' = "crashed"
         /\ clientfds' = {} /\ serverfds' = {}
         /\ UNCHANGED <<size, arrived, newfd, client, data, pc, request, hostent,
                        server, syscall, logfile, logline, stdout, logfd>>

\* The start-up of main: pthread_mutex_init (its "< 0" test never holds, as
\* it returns an error number), open_proxyfd (socket, setsockopt, bind,
\* listen; each failure closes the socket and returns -1), and fopen of
\* proxy.log.  A failure exits the process before any connection.
StartUp ==
  /\ mainpc = "start"
  /\ \/ mainpc' = "accept"
     \/ "start" \in Failures /\ mainpc' = "exited"
  /\ UNCHANGED <<size, arrived, newfd, client, data, pc, request, hostent, server,
                 syscall, logfile, logline, stdout, logfd, clientfds, serverfds>>

\* accept(sockfd, &client, &size) on connection c.  With a negative size
\* the kernel drops c and returns EINVAL: perror, continue.  Otherwise the
\* peer's address is copied into client (only partly when size is small)
\* and size is set to sizeof(struct sockaddr_in).
Accept ==
  /\ mainpc = "accept"
  /\ \E c \in Conns \ arrived :
       /\ arrived' = arrived \cup {c}
       /\ IF size = "negative"
          THEN UNCHANGED <<mainpc, size, newfd, client, clientfds>>
          ELSE /\ mainpc' = "create"
               /\ size' = "valid"
               /\ newfd' = c
               /\ client' = IF size = "small" THEN Garbled ELSE c
               /\ clientfds' = clientfds \cup {c}
  /\ UNCHANGED <<data, pc, request, hostent, server, syscall, logfile,
                 logline, stdout, logfd, serverfds>>

\* data = malloc(...); its fields set, client memcpy'd in; pthread_create.
\* On failure: free(data); perror; continue, with newfd still open.
Create ==
  /\ mainpc = "create"
  /\ mainpc' = "accept"
  /\ newfd' = None
  /\ \E fails \in CreateFails :
       IF fails
       THEN UNCHANGED <<data, pc>>
       ELSE /\ data' = [data EXCEPT ![newfd] = client]
            /\ pc' = [pc EXCEPT ![newfd] = "read"]
  /\ UNCHANGED <<size, arrived, client, request, hostent, server, syscall,
                 logfile, logline, stdout, logfd, clientfds, serverfds>>

\* data = malloc(sizeof(struct threaddata)) returned NULL, and
\* data->sockfd = newfd writes through it: the process faults.
CreateNoMem == /\ mainpc = "create" /\ "malloc" \in Failures /\ Fault

-----------------------------------------------------------------------------
(* process(), one action per step a thread takes                          *)

\* readline(sockfd, buf, MAXLINE) of the request line.  parse_request reads
\* buf as a C string, but readline writes no NUL: the string runs on into
\* whatever the stack held, g.  EOF or a read error is no request.  The
\* outcome keeps buf, which the response's status line is read over.
RequestOutcome(r, g) ==
  [buf |-> r.buf \o g] @@
    IF r.res <= 0 THEN [fault |-> FALSE, res |-> -1, method |-> <<>>, host |-> <<>>]
    ELSE ParseRequest(r.buf \o g)

\* The hostname parse_request copied out, as gethostbyname will see it.
HostName(s) == IF Len(s) = 1 /\ s[1] \in Hosts THEN s[1] ELSE Unknown

\* Every outcome readline and parse_request can give on a request stream.
RequestOutcomes ==
  {RequestOutcome(ReadLine(in, MaxLine), g) : in \in Requests, g \in StackGarbage}

\* Every buf a request leaves.
RequestBufs == {p.buf : p \in RequestOutcomes}

\* What the status line's C string runs on into: the rest of the request's
\* buf b up to its NUL (the client sends only the request line, so
\* relay_header leaves buf as it was), or, once the line has covered that
\* NUL, more of the stack.
StaleAfter(line, b) ==
  IF Len(line) <= Len(b) THEN {SubSeq(b, Len(line) + 1, Len(b))} ELSE StackGarbage

\* Every outcome of the response relay, by the request's method and buf.
RelayOutcomes(m, b) ==
  UNION {{ResponseRelay(resp, m, MaxLine, a) :
            a \in StaleAfter(ReadLine(resp, MaxLine).buf, b)} : resp \in Responses}

\* Every outcome the relay of any request can have.
RelayOutcomeSet == UNION {RelayOutcomes(m, b) : m \in Methods, b \in RequestBufs}

\* The request was parsed to p without a fault: a URI "http://h..." goes on
\* to open_serverfd for host h; no line or a URI of any other form goes
\* on to the final close.
ReadDone(t, p) ==
  /\ ~p.fault
  /\ IF p.res = 0
     THEN /\ Goto(t, "read", "lock_sys")
          /\ request' = [request EXCEPT ![t] = [host |-> HostName(p.host), method |-> p.method,
                                                     relay |-> RelayOutcomes(p.method, p.buf)]]
     ELSE Goto(t, "read", "close_client") /\ UNCHANGED request
  /\ UNCHANGED <<hostent, server, syscall, logfile, logline, stdout, logfd, clientfds, serverfds>>

ReadRequest(t) == \E p \in RequestOutcomes : ReadDone(t, p)

\* parse_request on the line read faults.
RequestFaults(t) ==
  /\ pc[t] = "read"
  /\ \E p \in RequestOutcomes : p.fault
  /\ Fault

\* pthread_mutex_lock(mutex) in open_serverfd.
LockSyscall(t) ==
  /\ syscall = None
  /\ Goto(t, "lock_sys", "gethost")
  /\ syscall' = t
  /\ UNCHANGED <<request, hostent, server, logfile, logline, stdout, logfd, clientfds, serverfds>>

\* Mutant of GetHostByName: the mutex is released before the memcpy.
GetHostByNameUnlocks(t) ==
  /\ \/ /\ Goto(t, "gethost", "copy") /\ request[t].host \in Hosts
        /\ hostent' = request[t].host /\ syscall' = None
     \/ Goto(t, "gethost", "close_client") /\ syscall' = None /\ UNCHANGED hostent
  /\ UNCHANGED <<request, server, logfile, logline, stdout, logfd, clientfds, serverfds>>

\* Mutant of GetHostByName: the error path returns without unlocking.
GetHostByNameKeepsLock(t) ==
  /\ \/ /\ Goto(t, "gethost", "copy") /\ request[t].host \in Hosts
        /\ hostent' = request[t].host /\ UNCHANGED syscall
     \/ Goto(t, "gethost", "close_client") /\ UNCHANGED <<syscall, hostent>>
  /\ UNCHANGED <<request, server, logfile, logline, stdout, logfd, clientfds, serverfds>>

\* gethostbyname(hostname) fills the static hostent, for a name some host
\* answers to; on failure the mutex is unlocked and open_serverfd returns -1.
GetHostByName(t) ==
  /\ \/ /\ Goto(t, "gethost", "copy") /\ request[t].host \in Hosts
        /\ hostent' = request[t].host /\ UNCHANGED syscall
     \/ Goto(t, "gethost", "close_client") /\ syscall' = None /\ UNCHANGED hostent
  /\ UNCHANGED <<request, server, logfile, logline, stdout, logfd, clientfds, serverfds>>

\* memcpy(&server.sin_addr, host->h_addr_list[0], ...); unlock.
CopyAddress(t) ==
  /\ Goto(t, "copy", "connect")
  /\ server' = [server EXCEPT ![t] = hostent]
  /\ syscall' = None
  /\ UNCHANGED <<request, hostent, logfile, logline, stdout, logfd, clientfds, serverfds>>

\* socket and connect: a connected end-server socket, or -1 (a socket
\* that failed to connect is closed inside open_serverfd).
Connect(t) ==
  /\ \/ Goto(t, "connect", "relay") /\ serverfds' = serverfds \cup {t}
     \/ Goto(t, "connect", "close_client") /\ UNCHANGED serverfds
  /\ UNCHANGED <<request, hostent, server, syscall, logfile, logline, stdout, logfd, clientfds>>

\* writebuf of the request line, relay_header, relay_content for a POST
\* (their results are ignored), then the response relayed as rr: sum is
\* positive when the end server sent a status line.  The status line is
\* read into buf, so the request's bytes there are gone.
RelayDone(t, rr) ==
  /\ ~rr.fault
  /\ IF rr.sum # 0 THEN Goto(t, "relay", "lock_log") ELSE Goto(t, "relay", "close_server")
  /\ request' = [request EXCEPT ![t].relay = {}]
  /\ UNCHANGED <<hostent, server, syscall, logfile, logline, stdout, logfd, clientfds, serverfds>>

Relay(t) ==
  /\ pc[t] = "relay"
  /\ \E rr \in request[t].relay : RelayDone(t, rr)

\* parse_response on the status line faults, or the client has closed its
\* connection and writebuf's write of the status line raises SIGPIPE.
RelayFaults(t) ==
  /\ pc[t] = "relay"
  /\ \E rr \in request[t].relay :
       rr.fault \/ ("sigpipe" \in Failures /\ rr.out # <<>>)
  /\ Fault

\* if(sum): pthread_mutex_lock(data->logfile).
LockLogfile(t) ==
  /\ logfile = None
  /\ Goto(t, "lock_log", "format")
  /\ logfile' = t
  /\ UNCHANGED <<request, hostent, server, syscall, logline, stdout, logfd, clientfds, serverfds>>

\* Mutant of FormatLogEntry: the address is read from main's client, as if
\* the thread had been handed &client instead of a copy.
FormatLogEntryShared(t) ==
  /\ Goto(t, "format", "printf")
  /\ logline' = [logline EXCEPT ![t] = [conn |-> t, addr |-> client, host |-> request[t].host]]
  /\ UNCHANGED <<request, hostent, server, syscall, logfile, stdout, logfd, clientfds, serverfds>>

\* format_log_entry(buf, &data->client, uri, sum): the client address
\* comes from the thread's bundle.
FormatLogEntry(t) ==
  /\ Goto(t, "format", "printf")
  /\ logline' = [logline EXCEPT ![t] = [conn |-> t, addr |-> data[t], host |-> request[t].host]]
  /\ UNCHANGED <<request, hostent, server, syscall, logfile, stdout, logfd, clientfds, serverfds>>

\* Mutant of PrintLog: the logfile mutex is released after printf.
PrintLogUnlocks(t) ==
  /\ Goto(t, "printf", "fprintf")
  /\ stdout' = Append(stdout, logline[t])
  /\ logfile' = None
  /\ UNCHANGED <<request, hostent, server, syscall, logline, logfd, clientfds, serverfds>>

\* printf("%s\n", buf).
PrintLog(t) ==
  /\ Goto(t, "printf", "fprintf")
  /\ stdout' = Append(stdout, logline[t])
  /\ UNCHANGED <<request, hostent, server, syscall, logfile, logline, logfd, clientfds, serverfds>>

\* fprintf(data->logfd, "%s\n", buf); pthread_mutex_unlock(data->logfile).
WriteLogFile(t) ==
  /\ Goto(t, "fprintf", "close_server")
  /\ logfd' = Append(logfd, logline[t])
  /\ logfile' = None
  /\ UNCHANGED <<request, hostent, server, syscall, logline, stdout, clientfds, serverfds>>

\* Mutant of CloseServer: close(sockfd) where close(newfd) was meant.
CloseServerWrongFd(t) ==
  /\ Goto(t, "close_server", "close_client")
  /\ clientfds' = clientfds \ {t}
  /\ UNCHANGED <<request, hostent, server, syscall, logfile, logline, stdout, logfd, serverfds>>

\* close(newfd).
CloseServer(t) ==
  /\ Goto(t, "close_server", "close_client")
  /\ serverfds' = serverfds \ {t}
  /\ UNCHANGED <<request, hostent, server, syscall, logfile, logline, stdout, logfd, clientfds>>

\* close(sockfd); free(data).
CloseClient(t) ==
  /\ Goto(t, "close_client", "done")
  /\ clientfds' = clientfds \ {t}
  /\ UNCHANGED <<request, hostent, server, syscall, logfile, logline, stdout, logfd, serverfds>>

Thread(t) ==
  /\ mainpc # "crashed"
  /\ \/ /\ \/ ReadRequest(t)    \/ LockSyscall(t)    \/ GetHostByName(t)
           \/ CopyAddress(t)    \/ Connect(t)        \/ Relay(t)
           \/ LockLogfile(t)    \/ FormatLogEntry(t) \/ PrintLog(t)
           \/ WriteLogFile(t)   \/ CloseServer(t)    \/ CloseClient(t)
        /\ UNCHANGED mainVars
     \/ RequestFaults(t)
     \/ RelayFaults(t)

Next == StartUp \/ Accept \/ Create \/ CreateNoMem \/ \E t \in Conns : Thread(t)

\* Every runnable thread, main included, is eventually scheduled; each
\* socket call eventually returns, with data or an error.
Fairness == /\ WF_vars(StartUp) /\ WF_vars(Accept) /\ WF_vars(Create)
            /\ \A t \in Conns : WF_vars(Thread(t))

Spec == Init /\ [][Next]_vars /\ Fairness

-----------------------------------------------------------------------------
(* Properties                                                              *)

\* A log line: the connection it is about, the client address it shows,
\* the host of the URI.
Entries == [conn : Conns, addr : Conns \cup {Garbled}, host : Hosts]

TypeOK ==
  /\ mainpc \in {"start", "accept", "create", "exited", "crashed"}
  /\ size \in AddrLens
  /\ arrived \subseteq Conns
  /\ newfd \in Conns \cup {None}
  /\ client \in Conns \cup {Garbled}
  /\ data \in [Conns -> Conns \cup {Garbled, None}]
  /\ pc \in [Conns -> Stages]
  /\ request \in [Conns -> [host : Hosts \cup {Unknown}, method : Methods,
                                    relay : SUBSET RelayOutcomeSet] \cup {None}]
  /\ hostent \in Hosts \cup {None}
  /\ server \in [Conns -> Hosts \cup {None}]
  /\ syscall \in Conns \cup {None}
  /\ logfile \in Conns \cup {None}
  /\ logline \in [Conns -> Entries \cup {None}]
  /\ stdout \in Seq(Entries)
  /\ logfd \in Seq(Entries)
  /\ clientfds \subseteq arrived
  /\ serverfds \subseteq Conns

\* Every thread connects to the host its own request names, although
\* gethostbyname hands all threads one static hostent: open_serverfd holds
\* the syscall mutex from the lookup to the memcpy out of it.
ConnectsToRequestedHost == \A t \in Conns : server[t] # None => server[t] = request[t].host

\* stdout and proxy.log receive the same lines in the same order; they
\* differ only by the line of the thread that has printed it and not yet
\* written it to the file.  process() holds the logfile mutex across both.
LogsAgree ==
  /\ IsPrefix(logfd, stdout)
  /\ \/ Len(stdout) = Len(logfd)
     \/ Len(stdout) = Len(logfd) + 1 /\ logfile # None /\ pc[logfile] = "fprintf"

\* Every line of proxy.log shows the address of the client whose request it
\* records, although main overwrites its client struct on the next accept:
\* main copies it into the thread's bundle before pthread_create.
LogNamesClient == \A i \in 1..Len(logfd) : logfd[i].addr = logfd[i].conn

\* Every open socket has an owner that will close it: a client socket is
\* main's newfd or belongs to a thread still in process(), and an
\* end-server socket belongs to a thread between connect and close(newfd).
NoLeakedSocket ==
  /\ \A c \in clientfds : c = newfd \/ pc[c] \notin {"idle", "done"}
  /\ \A c \in serverfds : pc[c] \in {"relay", "lock_log", "format", "printf", "fprintf", "close_server"}

\* A thread that has relayed a response handed its client what HTTP owes
\* it for its request's method, whatever well-formed response the end
\* server sent: readline's line splitting, relay_header's end-of-header and
\* Content-Length tests, relay_content's buffer flushes and its count, and
\* process()'s HEAD/204/304 test agree with HTTP.
RelayDeliversResponse ==
  \A t \in Conns : pc[t] \in {"lock_log", "format", "printf", "fprintf", "close_server"}
                    => RelayOwed[request[t].method]

\* Every connection that reaches the proxy is eventually served to the end
\* of process(): its thread closes its socket and frees its bundle.
EveryConnectionServed == \A c \in Conns : c \in arrived ~> pc[c] = "done"

\* The same, unless the process has died: no thread waits forever on a
\* mutex another holds, whichever of open_serverfd's and process()'s error
\* paths it takes, and main keeps accepting.
ServedUnlessCrashed ==
  \A c \in Conns : c \in arrived ~> (pc[c] = "done" \/ mainpc = "crashed")
=============================================================================
