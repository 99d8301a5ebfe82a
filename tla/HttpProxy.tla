------------------------------- MODULE HttpProxy -------------------------------
(***************************************************************************)
(* The HTTP proxy (3/src): main accepts connections and starts one         *)
(* detached thread for each; handle_client reads a request, edits it in    *)
(* its buffer, connects to the host it names, sends the request and relays *)
(* the answer.  All threads share the process's table of descriptors, in   *)
(* which the kernel hands out the lowest free number.                      *)
(*                                                                         *)
(* What it does to the text of a request is in RequestEdit; an answer is   *)
(* a sequence of numbered pieces.  Left out: how parsing finds a request   *)
(* malformed, and a client that neither reads nor goes away.               *)
(***************************************************************************)
EXTENDS RequestEdit

CONSTANTS Connections,  \* the clients' connections, each served by one thread
          Limits,       \* how many descriptors the process may have, beside the
                        \* listening one
          MaxPieces,    \* bound: pieces in a server's answer
          BuffSize,     \* pieces the buffer holds
          SendStep,     \* bound: tokens that part of a request is a multiple of
          Requests,     \* the requests that each client may send
          NULL

ASSUME ProxyConstantsOK ==
    /\ Limits \subseteq Nat \ {0} /\ MaxPieces \in Nat
    /\ BuffSize \in Nat \ {0} /\ SendStep \in Nat \ {0}
    /\ NULL \notin Connections \cup Nat \cup [side : {"client", "remote"}, conn : Connections]
    /\ "main" \notin Connections
    /\ DOMAIN Requests = Connections
    /\ \A k \in Connections : Requests[k] \subseteq
          [url : Seq(STRING) \ {<<>>}, version : Versions, headers : Seq(Seq(STRING))]

VARIABLES
    table,           \* what every descriptor stands for
    mpc,             \* control point of main
    accepted,        \* the connection main is working on
    client_sock_fd,  \* of main and of every thread
    arg,             \* the cell main allocates for a thread, which frees it
    pc,              \* control point of the thread of every connection
    remote_sock_fd,
    request,         \* the request a thread has read
    buffer,          \* of a thread: the request first, then the answer
    total, sent,     \* readed and sent, then remote_read and client_sent
    fetched,         \* pieces of its answer a server has been asked for
    received,        \* what the peer of every socket has received
    left,            \* sockets whose peer has gone away
    mute,            \* clients that connect and never say a word
    unfreed,         \* history: connections whose malloc() failed
    dead             \* SIGPIPE has ended the process

mainVars    == <<mpc, accepted, arg, unfreed>>
fdVars      == <<table, client_sock_fd, remote_sock_fd>>
requestVars == <<request>>
bufferVars  == <<buffer, total, sent>>
peerVars    == <<fetched, received, left, mute>>
vars == <<mainVars, fdVars, pc, requestVars, bufferVars, peerVars, dead>>

Main    == "main"
Fds     == DOMAIN table
Sockets == [side : {"client", "remote"}, conn : Connections]

client(k) == [side |-> "client", conn |-> k]
remote(k) == [side |-> "remote", conn |-> k]

FreeFds   == {d \in Fds : table[d] = NULL}
LowestFree == Min(FreeFds)

MainPCs == {"accept", "alloc", "create", "close"}
PCs == {"pending", "accepted", "start", "read_request", "parse", "resolve",
        "socket", "connect", "send", "relay_read", "relay_write",
        "close_client", "close_remote", "gone"}

Goto(k, label) == pc' = [pc EXCEPT ![k] = label]

-----------------------------------------------------------------------------
\* The requests, and their texts as they are sent, after parsing, and at the end.
AllRequests == UNION {Requests[k] : k \in Connections}
TextOf   == [q \in AllRequests |-> Text(q)]
ParsedOf == [q \in AllRequests |-> Parsed(q)]
EditedOf == [q \in AllRequests |-> Edited(q)]

\* What the buffer holds beyond a text that has become shorter is left over.
Padded(text, n) == text \o [i \in 1 .. Max({0, n - Len(text)}) |-> "stale"]

\* The pieces i to j of the answer to a connection.
Pieces(k, i, j) == [n \in 1 .. j - i + 1 |-> <<k, i + n - 1>>]

-----------------------------------------------------------------------------
(* Slips the code could have had: each stands in for the action it is named  *)
(* after when the properties are tried out.  None is part of Next.           *)

\* main hands over the address of its own variable, not of a cell: the thread
\* finds there what main has accepted since.
StartShared(k) ==
    /\ pc[k] = "start"
    /\ client_sock_fd' = [client_sock_fd EXCEPT ![k] =
                             IF mpc = "accept" THEN arg[k] ELSE client_sock_fd[Main]]
    /\ arg' = [arg EXCEPT ![k] = NULL]
    /\ Goto(k, "read_request")
    /\ UNCHANGED <<mpc, accepted, unfreed, table, remote_sock_fd, requestVars,
                   bufferVars, peerVars, dead>>

\* A connect() that fails closes the remote socket only.
ConnectFailsHalf(k) ==
    /\ pc[k] = "connect"
    /\ Goto(k, "close_remote")
    /\ UNCHANGED <<mainVars, fdVars, requestVars, bufferVars, peerVars, dead>>

\* main stops when a thread cannot be created.
CreateThreadFailsStop ==
    /\ mpc = "create"
    /\ arg' = [arg EXCEPT ![accepted] = NULL]
    /\ mpc' = "stopped"
    /\ UNCHANGED <<accepted, unfreed, fdVars, pc, requestVars, bufferVars,
                   peerVars, dead>>

\* After a partial write() the loop starts again from the start of the buffer.
WriteFromStart(k, fd, step) ==
    \E n \in 1 .. total[k] - sent[k] :
       /\ n % step = 0 \/ n = total[k] - sent[k]
       /\ sent' = [sent EXCEPT ![k] = @ + n]
       /\ received' = IF table[fd] \in left THEN received
                      ELSE [received EXCEPT ![table[fd]] = @ \o SubSeq(buffer[k], 1, n)]

\* The loop asks every write() for as much as the first one.
WriteTotal(k, fd, step) ==
    \E n \in 1 .. total[k] :
       /\ sent' = [sent EXCEPT ![k] = @ + n]
       /\ received' = IF table[fd] \in left THEN received
                      ELSE [received EXCEPT ![table[fd]] =
                               @ \o SubSeq(buffer[k], sent[k] + 1,
                                           Min({Len(buffer[k]), sent[k] + n}))]

-----------------------------------------------------------------------------
(* main                                                                    *)

\* The next round of the loop, whose locals are gone.
Continue ==
    /\ mpc' = "accept"
    /\ accepted' = NULL
    /\ client_sock_fd' = [client_sock_fd EXCEPT ![Main] = NULL]

Accept ==
    /\ mpc = "accept" /\ FreeFds # {}
    /\ \E k \in Connections :
          /\ pc[k] = "pending"
          /\ accepted' = k
          /\ Goto(k, "accepted")
          /\ table' = [table EXCEPT ![LowestFree] = client(k)]
    /\ client_sock_fd' = [client_sock_fd EXCEPT ![Main] = LowestFree]
    /\ mpc' = "alloc"
    /\ UNCHANGED <<arg, unfreed, remote_sock_fd, requestVars, bufferVars,
                   peerVars, dead>>

\* The table is full: main says so and tries again.
AcceptFails ==
    /\ mpc = "accept" /\ FreeFds = {}
    /\ UNCHANGED vars

AllocArg ==
    /\ mpc = "alloc"
    /\ arg' = [arg EXCEPT ![accepted] = client_sock_fd[Main]]
    /\ mpc' = "create"
    /\ UNCHANGED <<accepted, unfreed, fdVars, pc, requestVars, bufferVars,
                   peerVars, dead>>

\* malloc() fails: main goes on to the next connection, and closes nothing.
AllocArgFails ==
    /\ mpc = "alloc"
    /\ unfreed' = unfreed \cup {accepted}
    /\ Goto(accepted, "gone")
    /\ Continue
    /\ UNCHANGED <<arg, table, remote_sock_fd, requestVars, bufferVars, peerVars,
                   dead>>

CreateThread ==
    /\ mpc = "create"
    /\ Goto(accepted, "start")
    /\ Continue
    /\ UNCHANGED <<arg, unfreed, table, remote_sock_fd, requestVars, bufferVars,
                   peerVars, dead>>

CreateThreadFails ==
    /\ mpc = "create"
    /\ arg' = [arg EXCEPT ![accepted] = NULL]
    /\ mpc' = "close"
    /\ UNCHANGED <<accepted, unfreed, fdVars, pc, requestVars, bufferVars,
                   peerVars, dead>>

CloseRefused ==
    /\ mpc = "close"
    /\ table' = [table EXCEPT ![client_sock_fd[Main]] = NULL]
    /\ Goto(accepted, "gone")
    /\ Continue
    /\ UNCHANGED <<arg, unfreed, remote_sock_fd, requestVars, bufferVars, peerVars,
                   dead>>

MainStep ==
    /\ ~dead
    /\ \/ Accept \/ AcceptFails \/ AllocArg \/ AllocArgFails
       \/ CreateThread \/ CreateThreadFails \/ CloseRefused

-----------------------------------------------------------------------------
(* handle_client                                                           *)

Start(k) ==
    /\ pc[k] = "start"
    /\ client_sock_fd' = [client_sock_fd EXCEPT ![k] = arg[k]]
    /\ arg' = [arg EXCEPT ![k] = NULL]
    /\ Goto(k, "read_request")
    /\ UNCHANGED <<mpc, accepted, unfreed, table, remote_sock_fd, requestVars,
                   bufferVars, peerVars, dead>>

\* One read() takes what has come of the request; nothing bounds the wait.
ReadRequest(k) ==
    /\ pc[k] = "read_request" /\ k \notin mute
    /\ \E q \in Requests[k] :
          /\ request' = [request EXCEPT ![k] = q]
          /\ total' = [total EXCEPT ![k] = Len(TextOf[q])]
    /\ Goto(k, "parse")
    /\ UNCHANGED <<mainVars, fdVars, buffer, sent, peerVars, dead>>

\* read() returns 0 or -1.
ReadRequestFails(k) ==
    /\ pc[k] = "read_request" /\ k \notin mute
    /\ Goto(k, "close_client")
    /\ UNCHANGED <<mainVars, fdVars, requestVars, bufferVars, peerVars, dead>>

\* parse_request_line and parse_headers accept the request and edit it ...
Parse(k) ==
    /\ pc[k] = "parse"
    /\ buffer' = [buffer EXCEPT ![k] = Padded(ParsedOf[request[k]], total[k])]
    /\ Goto(k, "resolve")
    /\ UNCHANGED <<mainVars, fdVars, requestVars, total, sent, peerVars, dead>>

\* ... or refuse it: another method or version, a malformed header, no host,
\* or a request of which only a part has come with the first read().
ParseFails(k) ==
    /\ pc[k] = "parse"
    /\ Goto(k, "close_client")
    /\ UNCHANGED <<mainVars, fdVars, requestVars, bufferVars, peerVars, dead>>

ResolveHost(k) ==
    /\ pc[k] = "resolve"
    /\ Goto(k, "socket") \/ Goto(k, "close_client")
    /\ UNCHANGED <<mainVars, fdVars, requestVars, bufferVars, peerVars, dead>>

Socket(k) ==
    /\ pc[k] = "socket"
    /\ \/ /\ FreeFds # {}
          /\ table' = [table EXCEPT ![LowestFree] = remote(k)]
          /\ remote_sock_fd' = [remote_sock_fd EXCEPT ![k] = LowestFree]
          /\ Goto(k, "connect")
       \/ /\ FreeFds = {}
          /\ Goto(k, "close_client")
          /\ UNCHANGED <<table, remote_sock_fd>>
    /\ UNCHANGED <<mainVars, client_sock_fd, requestVars, bufferVars, peerVars,
                   dead>>

\* Connected; and the URL is rewritten.
Connect(k) ==
    /\ pc[k] = "connect"
    /\ buffer' = [buffer EXCEPT ![k] = Padded(EditedOf[request[k]], total[k])]
    /\ sent' = [sent EXCEPT ![k] = 0]
    /\ Goto(k, "send")
    /\ UNCHANGED <<mainVars, fdVars, requestVars, total, peerVars, dead>>

\* Refused, or not answered within five seconds.
ConnectFails(k) ==
    /\ pc[k] = "connect"
    /\ Goto(k, "close_client")
    /\ UNCHANGED <<mainVars, fdVars, requestVars, bufferVars, peerVars, dead>>

\* write() of the rest of the buffer: all of it goes out, or some of it.
WriteSome(k, fd, step) ==
    \E n \in 1 .. total[k] - sent[k] :
       /\ n % step = 0 \/ n = total[k] - sent[k]
       /\ sent' = [sent EXCEPT ![k] = @ + n]
       /\ received' = IF table[fd] \in left THEN received
                      ELSE [received EXCEPT ![table[fd]] =
                               @ \o SubSeq(buffer[k], sent[k] + 1, sent[k] + n)]

\* The loop ends when all has been sent.
WrittenThen(k, label) == Goto(k, IF sent'[k] >= total[k] THEN label ELSE pc[k])

Send(k) ==
    /\ pc[k] = "send"
    /\ WriteSome(k, remote_sock_fd[k], SendStep)
    /\ WrittenThen(k, "relay_read")
    /\ UNCHANGED <<mainVars, fdVars, requestVars, buffer, total, fetched, left,
                   mute, dead>>

\* write() to the server returns -1: after five seconds, or the server is gone.
SendFails(k) ==
    /\ pc[k] = "send"
    /\ Goto(k, "close_client")
    /\ UNCHANGED <<mainVars, fdVars, requestVars, bufferVars, peerVars, dead>>

RelayRead(k) ==
    /\ pc[k] = "relay_read"
    /\ LET j == table[remote_sock_fd[k]].conn IN
       \E n \in 1 .. Min({BuffSize, MaxPieces - fetched[j]}) :
          /\ buffer' = [buffer EXCEPT ![k] = Pieces(j, fetched[j] + 1, fetched[j] + n)]
          /\ total' = [total EXCEPT ![k] = n]
          /\ fetched' = [fetched EXCEPT ![j] = @ + n]
    /\ sent' = [sent EXCEPT ![k] = 0]
    /\ Goto(k, "relay_write")
    /\ UNCHANGED <<mainVars, fdVars, requestVars, received, left, mute, dead>>

\* read() returns 0, or -1 after five seconds: either is the end of the answer.
RelayEnd(k) ==
    /\ pc[k] = "relay_read"
    /\ Goto(k, "close_client")
    /\ UNCHANGED <<mainVars, fdVars, requestVars, bufferVars, peerVars, dead>>

RelayWrite(k) ==
    /\ pc[k] = "relay_write"
    /\ WriteSome(k, client_sock_fd[k], 1)
    /\ WrittenThen(k, "relay_read")
    /\ UNCHANGED <<mainVars, fdVars, requestVars, buffer, total, fetched, left,
                   mute, dead>>

\* write() to a client that has gone away returns -1.
RelayFails(k) ==
    /\ pc[k] = "relay_write"
    /\ table[client_sock_fd[k]] \in left
    /\ Goto(k, "close_client")
    /\ UNCHANGED <<mainVars, fdVars, requestVars, bufferVars, peerVars, dead>>

\* A write() to a peer that has gone away raises SIGPIPE, which nobody handles.
SigPipe(k) ==
    /\ \/ pc[k] = "send" /\ table[remote_sock_fd[k]] \in left
       \/ pc[k] = "relay_write" /\ table[client_sock_fd[k]] \in left
    /\ dead' = TRUE
    /\ UNCHANGED <<mainVars, fdVars, pc, requestVars, bufferVars, peerVars>>

\* The thread returns: its locals are gone, and so is what its peers had to say.
Return(k) ==
    /\ Goto(k, "gone")
    /\ request' = [request EXCEPT ![k] = NULL]
    /\ buffer' = [buffer EXCEPT ![k] = <<>>]
    /\ total' = [total EXCEPT ![k] = 0]
    /\ sent' = [sent EXCEPT ![k] = 0]
    /\ fetched' = [fetched EXCEPT ![k] = 0]
    /\ received' = [received EXCEPT ![client(k)] = <<>>, ![remote(k)] = <<>>]
    /\ left' = left \ {client(k), remote(k)}

\* close(client_sock_fd), on every path; the remote socket follows if there is one.
CloseClient(k) ==
    /\ pc[k] = "close_client"
    /\ table' = [table EXCEPT ![client_sock_fd[k]] = NULL]
    /\ client_sock_fd' = [client_sock_fd EXCEPT ![k] = NULL]
    /\ \/ remote_sock_fd[k] = NULL /\ Return(k)
       \/ /\ remote_sock_fd[k] # NULL
          /\ Goto(k, "close_remote")
          /\ UNCHANGED <<requestVars, bufferVars, fetched, received, left>>
    /\ UNCHANGED <<mainVars, remote_sock_fd, mute, dead>>

CloseRemote(k) ==
    /\ pc[k] = "close_remote"
    /\ table' = [table EXCEPT ![remote_sock_fd[k]] = NULL]
    /\ remote_sock_fd' = [remote_sock_fd EXCEPT ![k] = NULL]
    /\ Return(k)
    /\ UNCHANGED <<mainVars, client_sock_fd, mute, dead>>

HandlerStep(k) ==
    /\ ~dead
    /\ \/ Start(k) \/ ReadRequest(k) \/ ReadRequestFails(k) \/ Parse(k) \/ ParseFails(k)
       \/ ResolveHost(k) \/ Socket(k) \/ Connect(k) \/ ConnectFails(k) \/ Send(k) \/ SendFails(k)
       \/ RelayRead(k) \/ RelayEnd(k) \/ RelayWrite(k) \/ RelayFails(k)
       \/ SigPipe(k) \/ CloseClient(k) \/ CloseRemote(k)

\* A server or a client goes away, as a thread is about to write to it: no other
\* step of the thread depends on it.  What it has received is lost with it.
PeerLeaves(s) ==
    /\ ~dead
    /\ s \notin left
    /\ pc[s.conn] = IF s.side = "remote" THEN "send" ELSE "relay_write"
    /\ left' = left \cup {s}
    /\ received' = [received EXCEPT ![s] = <<>>]
    /\ UNCHANGED <<mainVars, fdVars, pc, requestVars, bufferVars, fetched, mute,
                   dead>>

-----------------------------------------------------------------------------

Init ==
    /\ \E n \in Limits : table = [d \in 1 .. n |-> NULL]
    /\ mpc = "accept"
    /\ accepted = NULL
    /\ client_sock_fd = [k \in Connections \cup {Main} |-> NULL]
    /\ arg = [k \in Connections |-> NULL]
    /\ pc = [k \in Connections |-> "pending"]
    /\ remote_sock_fd = [k \in Connections |-> NULL]
    /\ request = [k \in Connections |-> NULL]
    /\ buffer = [k \in Connections |-> <<>>]
    /\ total = [k \in Connections |-> 0]
    /\ sent = [k \in Connections |-> 0]
    /\ fetched = [k \in Connections |-> 0]
    /\ received = [s \in Sockets |-> <<>>]
    /\ left = {}
    /\ mute \in SUBSET Connections
    /\ unfreed = {}
    /\ dead = FALSE

Waiting(k) == pc[k] = "read_request" /\ k \in mute

\* All clients that spoke have been served, and main waits for more; or the
\* process is dead.
Resting ==
    /\ \/ dead
       \/ /\ mpc = "accept"
          /\ \A k \in Connections : pc[k] = "gone" \/ Waiting(k)
    /\ UNCHANGED vars

Next ==
    \/ MainStep
    \/ \E k \in Connections : HandlerStep(k)
    \/ \E s \in Sockets : PeerLeaves(s)
    \/ Resting

\* The kernel runs every runnable thread, and the timeouts of the remote socket
\* expire.  Nothing makes a mute client speak.
Safe == Init /\ [][Next]_vars
Spec ==
    /\ Safe
    /\ WF_vars(MainStep)
    /\ \A k \in Connections : WF_vars(HandlerStep(k))

-----------------------------------------------------------------------------
(* Properties                                                              *)

\* The type invariant; no loop on write() runs beyond what is to be sent.
TypeOK ==
    /\ \E n \in Limits : table \in [1 .. n -> Sockets \cup {NULL}]
    /\ mpc \in MainPCs
    /\ accepted \in Connections \cup {NULL}
    /\ client_sock_fd \in [Connections \cup {Main} -> Fds \cup {NULL}]
    /\ arg \in [Connections -> Fds \cup {NULL}]
    /\ pc \in [Connections -> PCs]
    /\ remote_sock_fd \in [Connections -> Fds \cup {NULL}]
    /\ \A k \in Connections : /\ request[k] \in Requests[k] \cup {NULL}
                              /\ total[k] \in Nat
                              /\ sent[k] \in 0 .. total[k]
    /\ fetched \in [Connections -> 0 .. MaxPieces]
    /\ left \subseteq Sockets
    /\ mute \subseteq Connections
    /\ unfreed \subseteq Connections
    /\ dead \in BOOLEAN

HoldsClient(k) == pc[k] \in PCs \ {"pending", "accepted", "start", "close_remote", "gone"}
HoldsRemote(k) ==
    \/ pc[k] \in {"connect", "send", "relay_read", "relay_write", "close_remote"}
    \/ pc[k] = "close_client" /\ remote_sock_fd[k] # NULL

\* A descriptor that a thread is going to use or to close is its own, whatever
\* the other threads have closed and the kernel has handed out again since.
DescriptorsOwned ==
    /\ \A k \in Connections :
          /\ pc[k] = "start" => table[arg[k]] = client(k)
          /\ HoldsClient(k) => table[client_sock_fd[k]] = client(k)
          /\ HoldsRemote(k) => table[remote_sock_fd[k]] = remote(k)
    /\ mpc # "accept" => table[client_sock_fd[Main]] = client(accepted)

\* Every open socket is still somebody's to close, on all the early returns of
\* handle_client; except the ones for which main could not allocate a cell.
NothingLeaked ==
    \A d \in Fds : table[d] # NULL =>
        LET k == table[d].conn IN
        IF table[d].side = "remote" THEN HoldsRemote(k)
        ELSE HoldsClient(k) \/ pc[k] \in {"accepted", "start"} \/ k \in unfreed

\* Whatever the partial reads and writes and the neighbours do, a server has
\* received a part of the edited request of its own connection, and a client
\* the pieces of its own answer in their order, all of them when the thread
\* turns to the server for more.
RelayFaithful ==
    \A k \in Connections :
        /\ pc[k] = "send" => IsPrefix(received[remote(k)], buffer[k])
        /\ IsPrefix(received[client(k)], Pieces(k, 1, fetched[k]))
        /\ pc[k] = "relay_read" /\ client(k) \notin left =>
              received[client(k)] = Pieces(k, 1, fetched[k])

\* A request reaches its server as the edits mean it to: with a path for a URL,
\* Connection: close, and every other header as the client wrote it.  That is so
\* of the plain requests and of no others (a URL without a path, another URL that
\* the search hits instead, and a value shorter than close make the edits cut or
\* overwrite something else), as far as a request does not grow.
RequestAsMeant ==
    \A k \in Connections :
        LET q == request[k] IN
        /\ pc[k] = "relay_read"
        /\ remote(k) \notin left
        /\ Len(EditedOf[q]) <= Len(TextOf[q])
        => (Lines(received[remote(k)]) = MeantLines(q)) <=> Plain(q)

\* Every client that speaks is accepted and its thread ends, with whatever
\* failures of its own and its neighbours' and however long mute clients keep
\* theirs (the client's socket has no timeout), as long as these leave a
\* descriptor, no cell was missing (a descriptor is then lost for good) and
\* the process lives.
ConnectionsEnd ==
    Cardinality(mute) < Cardinality(Fds) =>
        \A k \in Connections :
            (pc[k] = "pending" /\ k \notin mute)
                ~> (pc[k] = "gone" \/ dead \/ unfreed # {})

\* What the comment on parse_headers says of a request: its Connection is set to
\* close when it reaches the server.
ConnectionSetToClose ==
    \A k \in Connections :
        pc[k] = "relay_read" /\ remote(k) \notin left =>
            IsPrefix(EditedOf[request[k]], received[remote(k)])

=============================================================================
