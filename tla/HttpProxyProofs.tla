--------------------------- MODULE HttpProxyProofs ---------------------------
(***************************************************************************)
(* Theorems about the proxy: its threads use and close only descriptors    *)
(* of their own, lose none, and relay every byte to the right peer.  They  *)
(* hold for any number of connections and descriptors, any requests,       *)
(* answers and sizes of the buffer, and need no fairness.                  *)
(***************************************************************************)
EXTENDS HttpProxy, RequestEditProofs

-----------------------------------------------------------------------------
(* The inductive invariant                                                 *)

\* What the table and its users may hold.
TableTypeOK ==
    /\ \E n \in Limits : table \in [1 .. n -> Sockets \cup {NULL}]
    /\ mpc \in MainPCs
    /\ accepted \in Connections \cup {NULL}
    /\ client_sock_fd \in [Connections \cup {Main} -> Fds \cup {NULL}]
    /\ arg \in [Connections -> Fds \cup {NULL}]
    /\ pc \in [Connections -> PCs]
    /\ remote_sock_fd \in [Connections -> Fds \cup {NULL}]
    /\ unfreed \subseteq Connections

\* While main works on a connection it has its descriptor, and no thread has.
MainInv ==
    /\ mpc # "accept" => /\ accepted \in Connections
                         /\ pc[accepted] = "accepted"
                         /\ client_sock_fd[Main] \in Fds
                         /\ table[client_sock_fd[Main]] = client(accepted)
    /\ mpc = "create" => arg[accepted] = client_sock_fd[Main]
    /\ \A k \in Connections :
          pc[k] = "accepted" => mpc # "accept" /\ accepted = k

\* A thread that is going to use or to close a descriptor has one, its own; and
\* the variable for the server's socket is set only as long as it has that one.
ThreadInv ==
    \A k \in Connections :
        /\ pc[k] = "start" => arg[k] \in Fds /\ table[arg[k]] = client(k)
        /\ HoldsClient(k) => /\ client_sock_fd[k] \in Fds
                             /\ table[client_sock_fd[k]] = client(k)
        /\ HoldsRemote(k) => /\ remote_sock_fd[k] \in Fds
                             /\ table[remote_sock_fd[k]] = remote(k)
        /\ remote_sock_fd[k] # NULL => HoldsRemote(k)
        /\ k \in unfreed => pc[k] = "gone"

\* No socket has two descriptors: closing one of them would not end it.
OneDescriptor ==
    \A d, e \in Fds : table[d] # NULL /\ table[d] = table[e] => d = e

\* NothingLeaked, socket by socket.
Accounted ==
    \A k \in Connections, d \in Fds :
        /\ table[d] = client(k) =>
              HoldsClient(k) \/ pc[k] \in {"accepted", "start"} \/ k \in unfreed
        /\ table[d] = remote(k) => HoldsRemote(k)

FdInv == TableTypeOK /\ MainInv /\ ThreadInv /\ OneDescriptor /\ Accounted

-----------------------------------------------------------------------------
(* Sockets and descriptors                                                 *)

LEMMA SocketFacts ==
    /\ NULL \notin Sockets /\ NULL \notin Connections /\ Main \notin Connections
    /\ \A k \in Connections :
          /\ client(k) \in Sockets /\ remote(k) \in Sockets
          /\ client(k) # NULL /\ remote(k) # NULL
          /\ client(k).side = "client" /\ client(k).conn = k
          /\ remote(k).side = "remote" /\ remote(k).conn = k
    /\ \A j, k \in Connections :
          /\ client(j) # remote(k)
          /\ client(j) = client(k) => j = k
          /\ remote(j) = remote(k) => j = k
    /\ \A s \in Sockets :
          /\ s.conn \in Connections
          /\ \/ s = client(s.conn) /\ s.side # "remote"
             \/ s = remote(s.conn)
  BY ProxyConstantsOK DEF Sockets, client, remote, Main

\* The kernel hands out a descriptor that is free.
LEMMA LowestIsFree ==
    ASSUME TableTypeOK, FreeFds # {}
    PROVE  LowestFree \in Fds /\ table[LowestFree] = NULL
<1>1. Fds \in SUBSET Nat
  BY ProxyConstantsOK DEF TableTypeOK, Fds
<1>2. FreeFds \in SUBSET Nat
  BY <1>1 DEF FreeFds
<1> QED BY <1>2, MinOfNaturals DEF LowestFree, FreeFds

LEMMA NullIsNoFd == TableTypeOK => NULL \notin Fds
  BY ProxyConstantsOK DEF TableTypeOK, Fds

LEMMA AccountedMeans ==
    TableTypeOK => (Accounted <=> NothingLeaked)
<1>1. SUFFICES ASSUME TableTypeOK PROVE Accounted <=> NothingLeaked
  OBVIOUS
<1>2. \A d \in Fds : table[d] \in Sockets \cup {NULL}
  BY <1>1 DEF TableTypeOK, Fds
<1>3. Accounted => NothingLeaked
  BY <1>2, SocketFacts DEF Accounted, NothingLeaked
<1>4. NothingLeaked => Accounted
  BY SocketFacts DEF Accounted, NothingLeaked
<1> QED BY <1>3, <1>4

-----------------------------------------------------------------------------
(* The steps of main                                                       *)

LEMMA AcceptFd == FdInv /\ Accept => FdInv'
<1>1. SUFFICES ASSUME FdInv, Accept PROVE FdInv'
  OBVIOUS
<1> USE <1>1
<1>2. PICK k \in Connections :
          /\ pc[k] = "pending" /\ accepted' = k
          /\ pc' = [pc EXCEPT ![k] = "accepted"]
          /\ table' = [table EXCEPT ![LowestFree] = client(k)]
  BY DEF Accept, Goto
<1> DEFINE d == LowestFree
<1>3. /\ mpc = "accept" /\ mpc' = "alloc"
      /\ client_sock_fd' = [client_sock_fd EXCEPT ![Main] = d]
      /\ UNCHANGED <<arg, unfreed, remote_sock_fd>>
  BY DEF Accept
<1>4. d \in Fds /\ table[d] = NULL
  BY LowestIsFree DEF FdInv, Accept
<1>5. Fds' = Fds
  BY <1>2 DEF Fds
<1> HIDE DEF d
<1>6. TableTypeOK'
  BY <1>2, <1>3, <1>4, <1>5, SocketFacts DEF FdInv, TableTypeOK, MainPCs, PCs
<1>7. /\ pc'[k] = "accepted" /\ \A j \in Connections \ {k} : pc'[j] = pc[j]
      /\ table'[d] = client(k) /\ \A e \in Fds \ {d} : table'[e] = table[e]
      /\ client_sock_fd'[Main] = d
      /\ \A j \in Connections : client_sock_fd'[j] = client_sock_fd[j]
  BY <1>2, <1>3, <1>4, SocketFacts DEF d, FdInv, TableTypeOK, Fds
<1>8. MainInv'
  BY <1>2, <1>3, <1>4, <1>5, <1>7 DEF FdInv, MainInv
<1>9. ThreadInv'
  BY <1>2, <1>3, <1>4, <1>5, <1>7, SocketFacts
  DEF FdInv, ThreadInv, HoldsClient, HoldsRemote, PCs
<1>10. OneDescriptor'
  <2>1. \A e \in Fds : table[e] # client(k)
    BY <1>2 DEF FdInv, Accounted, ThreadInv, HoldsClient
  <2> QED BY <1>2, <1>4, <1>5, <1>7, <2>1 DEF FdInv, OneDescriptor
<1>11. Accounted'
  BY <1>2, <1>3, <1>4, <1>5, <1>7, SocketFacts
  DEF FdInv, Accounted, HoldsClient, HoldsRemote, PCs
<1> QED BY <1>6, <1>8, <1>9, <1>10, <1>11 DEF FdInv

LEMMA AllocArgFd == FdInv /\ AllocArg => FdInv'
<1>1. SUFFICES ASSUME FdInv, AllocArg PROVE FdInv'
  OBVIOUS
<1> USE <1>1
<1>2. /\ mpc = "alloc" /\ mpc' = "create" /\ accepted \in Connections
      /\ pc[accepted] = "accepted" /\ client_sock_fd[Main] \in Fds
      /\ UNCHANGED <<accepted, unfreed, table, client_sock_fd, remote_sock_fd, pc>>
  BY DEF AllocArg, FdInv, MainInv, fdVars
<1>3. /\ arg' = [arg EXCEPT ![accepted] = client_sock_fd[Main]]
      /\ arg'[accepted] = client_sock_fd[Main]
      /\ \A k \in Connections : pc[k] = "start" => arg'[k] = arg[k]
      /\ Fds' = Fds
  BY <1>2 DEF AllocArg, FdInv, TableTypeOK, Fds
<1>4. TableTypeOK'
  BY <1>2, <1>3 DEF FdInv, TableTypeOK, MainPCs
<1>5. MainInv'
  BY <1>2, <1>3 DEF FdInv, MainInv
<1>6. ThreadInv'
  BY <1>2, <1>3 DEF FdInv, ThreadInv, HoldsClient, HoldsRemote
<1>7. OneDescriptor' /\ Accounted'
  BY <1>2, <1>3 DEF FdInv, OneDescriptor, Accounted, HoldsClient, HoldsRemote
<1> QED BY <1>4, <1>5, <1>6, <1>7 DEF FdInv

LEMMA CreateThreadFailsFd == FdInv /\ CreateThreadFails => FdInv'
<1>1. SUFFICES ASSUME FdInv, CreateThreadFails PROVE FdInv'
  OBVIOUS
<1> USE <1>1
<1>2. /\ mpc = "create" /\ mpc' = "close" /\ accepted \in Connections
      /\ pc[accepted] = "accepted"
      /\ UNCHANGED <<accepted, unfreed, table, client_sock_fd, remote_sock_fd, pc>>
  BY DEF CreateThreadFails, FdInv, MainInv, fdVars
<1>3. /\ arg' = [arg EXCEPT ![accepted] = NULL]
      /\ \A k \in Connections : pc[k] = "start" => arg'[k] = arg[k]
      /\ Fds' = Fds
  BY <1>2 DEF CreateThreadFails, FdInv, TableTypeOK, Fds
<1>4. TableTypeOK'
  BY <1>2, <1>3 DEF FdInv, TableTypeOK, MainPCs
<1>5. MainInv'
  BY <1>2, <1>3 DEF FdInv, MainInv
<1>6. ThreadInv'
  BY <1>2, <1>3 DEF FdInv, ThreadInv, HoldsClient, HoldsRemote
<1>7. OneDescriptor' /\ Accounted'
  BY <1>2, <1>3 DEF FdInv, OneDescriptor, Accounted, HoldsClient, HoldsRemote
<1> QED BY <1>4, <1>5, <1>6, <1>7 DEF FdInv

\* main is done with its connection: the thread has it, or nobody needs it.
LEMMA CreateThreadFd == FdInv /\ (CreateThread \/ AllocArgFails) => FdInv'
<1>1. SUFFICES ASSUME FdInv, CreateThread \/ AllocArgFails PROVE FdInv'
  OBVIOUS
<1> USE <1>1
<1>2. /\ mpc # "accept" /\ accepted \in Connections
      /\ pc[accepted] = "accepted"
      /\ UNCHANGED <<arg, table, remote_sock_fd>> /\ Fds' = Fds
      /\ mpc' = "accept" /\ accepted' = NULL
      /\ client_sock_fd' = [client_sock_fd EXCEPT ![Main] = NULL]
  BY DEF CreateThread, AllocArgFails, FdInv, MainInv, Continue, Fds
<1>3. \A k \in Connections : client_sock_fd'[k] = client_sock_fd[k]
  BY <1>2, SocketFacts DEF FdInv, TableTypeOK
<1>4. PICK label \in {"start", "gone"} :
          /\ pc' = [pc EXCEPT ![accepted] = label]
          /\ label = "start" => mpc = "create" /\ unfreed' = unfreed
          /\ label = "gone" => unfreed' = unfreed \cup {accepted}
  BY DEF CreateThread, AllocArgFails, Goto
<1>5. /\ pc'[accepted] = label
      /\ \A k \in Connections \ {accepted} : pc'[k] = pc[k]
  BY <1>2, <1>4 DEF FdInv, TableTypeOK
<1>6. TableTypeOK'
  BY <1>2, <1>4 DEF FdInv, TableTypeOK, MainPCs, PCs
<1>7. MainInv'
  BY <1>2, <1>4, <1>5 DEF FdInv, MainInv
<1>8. ThreadInv'
  BY <1>2, <1>3, <1>4, <1>5
  DEF FdInv, MainInv, ThreadInv, HoldsClient, HoldsRemote, PCs
<1>9. OneDescriptor'
  BY <1>2 DEF FdInv, OneDescriptor
<1>10. Accounted'
  BY <1>2, <1>4, <1>5 DEF FdInv, Accounted, HoldsClient, HoldsRemote, PCs
<1> QED BY <1>6, <1>7, <1>8, <1>9, <1>10 DEF FdInv

LEMMA CloseRefusedFd == FdInv /\ CloseRefused => FdInv'
<1>1. SUFFICES ASSUME FdInv, CloseRefused PROVE FdInv'
  OBVIOUS
<1> USE <1>1
<1> DEFINE d == client_sock_fd[Main]
<1>2. /\ mpc # "accept" /\ accepted \in Connections
      /\ pc[accepted] = "accepted"
      /\ d \in Fds /\ table[d] = client(accepted)
      /\ UNCHANGED <<arg, remote_sock_fd, unfreed>>
      /\ mpc' = "accept" /\ accepted' = NULL
      /\ client_sock_fd' = [client_sock_fd EXCEPT ![Main] = NULL]
      /\ table' = [table EXCEPT ![d] = NULL]
      /\ pc' = [pc EXCEPT ![accepted] = "gone"]
  BY DEF CloseRefused, FdInv, MainInv, Continue, Goto
<1> HIDE DEF d
<1>3. Fds' = Fds /\ \A k \in Connections : client_sock_fd'[k] = client_sock_fd[k]
  BY <1>2, SocketFacts DEF FdInv, TableTypeOK, Fds
<1>4. /\ pc'[accepted] = "gone"
      /\ \A k \in Connections \ {accepted} : pc'[k] = pc[k]
      /\ table'[d] = NULL /\ \A e \in Fds \ {d} : table'[e] = table[e]
  BY <1>2 DEF FdInv, TableTypeOK, Fds
<1>5. TableTypeOK'
  BY <1>2, <1>3 DEF FdInv, TableTypeOK, MainPCs, PCs
<1>6. MainInv'
  BY <1>2, <1>4 DEF FdInv, MainInv
<1>7. ThreadInv'
  BY <1>2, <1>3, <1>4, SocketFacts
  DEF FdInv, ThreadInv, HoldsClient, HoldsRemote, PCs
<1>8. OneDescriptor'
  BY <1>2, <1>3, <1>4 DEF FdInv, OneDescriptor
<1>9. Accounted'
  BY <1>2, <1>3, <1>4, SocketFacts
  DEF FdInv, OneDescriptor, Accounted, HoldsClient, HoldsRemote, PCs
<1> QED BY <1>5, <1>6, <1>7, <1>8, <1>9 DEF FdInv

-----------------------------------------------------------------------------
(* The steps of handle_client                                              *)

LEMMA StartFd ==
    ASSUME FdInv, NEW k \in Connections, Start(k)
    PROVE  FdInv'
<1>1. /\ pc[k] = "start"
      /\ arg[k] \in Fds /\ table[arg[k]] = client(k)
      /\ pc' = [pc EXCEPT ![k] = "read_request"]
      /\ client_sock_fd' = [client_sock_fd EXCEPT ![k] = arg[k]]
      /\ arg' = [arg EXCEPT ![k] = NULL]
      /\ UNCHANGED <<mpc, accepted, unfreed, table, remote_sock_fd>> /\ Fds' = Fds
  BY DEF Start, Goto, FdInv, ThreadInv, Fds
<1>2. /\ pc'[k] = "read_request" /\ \A j \in Connections \ {k} : pc'[j] = pc[j]
      /\ \A j \in Connections \ {k} : arg'[j] = arg[j]
      /\ client_sock_fd'[k] = arg[k]
      /\ \A j \in (Connections \cup {Main}) \ {k} :
            client_sock_fd'[j] = client_sock_fd[j]
  BY <1>1, Zenon DEF FdInv, TableTypeOK
<1>3. TableTypeOK'
  BY <1>1 DEF FdInv, TableTypeOK, PCs
<1>4. MainInv'
  BY <1>1, <1>2, SocketFacts DEF FdInv, MainInv
<1>5. ThreadInv'
  BY <1>1, <1>2 DEF FdInv, ThreadInv, HoldsClient, HoldsRemote, PCs
<1>6. OneDescriptor'
  BY <1>1 DEF FdInv, OneDescriptor
<1>7. Accounted'
  BY <1>1, <1>2 DEF FdInv, Accounted, HoldsClient, HoldsRemote, PCs
<1> QED BY <1>3, <1>4, <1>5, <1>6, <1>7 DEF FdInv

\* The steps between, which leave all descriptors alone: a thread that works on
\* its server's socket may only turn to another such step or to the end.
Serving == {"read_request", "parse", "resolve", "socket", "connect", "send",
            "relay_read", "relay_write", "close_client"}
WithRemote == {"connect", "send", "relay_read", "relay_write"}

LEMMA QuietFd ==
    ASSUME FdInv, NEW k \in Connections, NEW label \in Serving,
           UNCHANGED <<mainVars, fdVars>>, pc' = [pc EXCEPT ![k] = label],
           pc[k] \in Serving \ {"close_client"},
           label \in WithRemote => pc[k] \in WithRemote,
           pc[k] \in WithRemote => label \in WithRemote \cup {"close_client"}
    PROVE  FdInv'
<1>1. /\ UNCHANGED <<mpc, accepted, unfreed, arg, table, client_sock_fd, remote_sock_fd>>
      /\ Fds' = Fds
  BY DEF mainVars, fdVars, Fds
<1>2. pc'[k] = label /\ \A j \in Connections \ {k} : pc'[j] = pc[j]
  BY DEF FdInv, TableTypeOK
<1>3. /\ \A j \in Connections : HoldsClient(j)' <=> HoldsClient(j)
      /\ \A j \in Connections : HoldsRemote(j)' <=> HoldsRemote(j)
  <2>1. pc[k] \in WithRemote <=> remote_sock_fd[k] # NULL
    BY NullIsNoFd DEF FdInv, ThreadInv, HoldsRemote, Serving, WithRemote
  <2>2. HoldsClient(k)' <=> HoldsClient(k)
    BY <1>2 DEF HoldsClient, Serving, PCs
  <2>3. HoldsRemote(k)' <=> HoldsRemote(k)
    BY <1>1, <1>2, <2>1 DEF HoldsRemote, Serving, WithRemote
  <2> QED BY <1>1, <1>2, <2>2, <2>3 DEF HoldsClient, HoldsRemote
<1>4. TableTypeOK'
  BY <1>1 DEF FdInv, TableTypeOK, PCs, Serving
<1>5. MainInv'
  BY <1>1, <1>2 DEF FdInv, MainInv, Serving
<1>6. ThreadInv'
  BY <1>1, <1>2, <1>3 DEF FdInv, ThreadInv, Serving
<1>7. OneDescriptor'
  BY <1>1 DEF FdInv, OneDescriptor
<1>8. Accounted'
  BY <1>1, <1>2, <1>3 DEF FdInv, Accounted, Serving
<1> QED BY <1>4, <1>5, <1>6, <1>7, <1>8 DEF FdInv

LEMMA SocketFd ==
    ASSUME FdInv, NEW k \in Connections, Socket(k)
    PROVE  FdInv'
<1>1. CASE FreeFds = {}
  BY <1>1, QuietFd DEF Socket, Goto, Serving, WithRemote, mainVars, fdVars
<1>2. CASE FreeFds # {}
  <2> DEFINE d == LowestFree
  <2>1. /\ pc[k] = "socket" /\ pc' = [pc EXCEPT ![k] = "connect"]
        /\ table' = [table EXCEPT ![d] = remote(k)]
        /\ remote_sock_fd' = [remote_sock_fd EXCEPT ![k] = d]
        /\ UNCHANGED <<mpc, accepted, arg, unfreed, client_sock_fd>>
    BY <1>2 DEF Socket, Goto, mainVars
  <2>2. d \in Fds /\ table[d] = NULL
    BY <1>2, LowestIsFree DEF FdInv
  <2> HIDE DEF d
  <2>3. Fds' = Fds
    BY <2>1 DEF Fds
  <2>4. /\ pc'[k] = "connect" /\ \A j \in Connections \ {k} : pc'[j] = pc[j]
        /\ table'[d] = remote(k) /\ \A e \in Fds \ {d} : table'[e] = table[e]
        /\ remote_sock_fd'[k] = d
        /\ \A j \in Connections \ {k} : remote_sock_fd'[j] = remote_sock_fd[j]
    BY <2>1, <2>2 DEF FdInv, TableTypeOK, Fds
  <2>5. TableTypeOK'
    BY <2>1, <2>2, <2>3, SocketFacts DEF FdInv, TableTypeOK, PCs
  <2>6. MainInv'
    BY <2>1, <2>2, <2>3, <2>4, SocketFacts DEF FdInv, MainInv
  <2>7. ThreadInv'
    BY <2>1, <2>2, <2>3, <2>4, SocketFacts
    DEF FdInv, ThreadInv, HoldsClient, HoldsRemote, PCs
  <2>8. OneDescriptor'
    <3>1. \A e \in Fds : table[e] # remote(k)
      BY <2>1 DEF FdInv, Accounted, HoldsRemote
    <3> QED BY <2>2, <2>3, <2>4, <3>1 DEF FdInv, OneDescriptor
  <2>9. Accounted'
    BY <2>1, <2>2, <2>3, <2>4, SocketFacts
    DEF FdInv, Accounted, HoldsClient, HoldsRemote, PCs
  <2> QED BY <2>5, <2>6, <2>7, <2>8, <2>9 DEF FdInv
<1> QED BY <1>1, <1>2

\* The client's descriptor goes first; the thread ends if it has no other.
LEMMA CloseClientFd ==
    ASSUME FdInv, NEW k \in Connections, CloseClient(k)
    PROVE  FdInv'
<1> DEFINE d == client_sock_fd[k]
<1>1. /\ pc[k] = "close_client"
      /\ table' = [table EXCEPT ![d] = NULL]
      /\ client_sock_fd' = [client_sock_fd EXCEPT ![k] = NULL]
      /\ UNCHANGED <<mpc, accepted, arg, unfreed, remote_sock_fd>>
  BY DEF CloseClient, mainVars
<1>2. d \in Fds /\ table[d] = client(k)
  BY <1>1 DEF FdInv, ThreadInv, HoldsClient, PCs
<1>3. PICK label \in {"gone", "close_remote"} :
          /\ pc' = [pc EXCEPT ![k] = label]
          /\ label = "gone" <=> remote_sock_fd[k] = NULL
  BY DEF CloseClient, Return, Goto
<1> HIDE DEF d
<1>4. Fds' = Fds
  BY <1>1 DEF Fds
<1>5. /\ pc'[k] = label /\ \A j \in Connections \ {k} : pc'[j] = pc[j]
      /\ table'[d] = NULL /\ \A e \in Fds \ {d} : table'[e] = table[e]
  BY <1>1, <1>2, <1>3 DEF FdInv, TableTypeOK, Fds
<1>6. \A j \in (Connections \cup {Main}) \ {k} : client_sock_fd'[j] = client_sock_fd[j]
  BY <1>1 DEF FdInv, TableTypeOK
<1>7. TableTypeOK'
  BY <1>1, <1>3, <1>4 DEF FdInv, TableTypeOK, PCs
<1>8. MainInv'
  BY <1>1, <1>2, <1>3, <1>4, <1>5, <1>6, SocketFacts DEF FdInv, MainInv
<1>9. ThreadInv'
  BY <1>1, <1>2, <1>3, <1>4, <1>5, <1>6, SocketFacts
  DEF FdInv, ThreadInv, HoldsClient, HoldsRemote, PCs
<1>10. OneDescriptor'
  BY <1>4, <1>5 DEF FdInv, OneDescriptor
<1>11. Accounted'
  BY <1>1, <1>2, <1>3, <1>4, <1>5, SocketFacts
  DEF FdInv, OneDescriptor, Accounted, HoldsClient, HoldsRemote, PCs
<1> QED BY <1>7, <1>8, <1>9, <1>10, <1>11 DEF FdInv

LEMMA CloseRemoteFd ==
    ASSUME FdInv, NEW k \in Connections, CloseRemote(k)
    PROVE  FdInv'
<1> DEFINE d == remote_sock_fd[k]
<1>1. /\ pc[k] = "close_remote"
      /\ table' = [table EXCEPT ![d] = NULL]
      /\ remote_sock_fd' = [remote_sock_fd EXCEPT ![k] = NULL]
      /\ pc' = [pc EXCEPT ![k] = "gone"]
      /\ UNCHANGED <<mpc, accepted, arg, unfreed, client_sock_fd>>
  BY DEF CloseRemote, Return, Goto, mainVars
<1>2. d \in Fds /\ table[d] = remote(k)
  BY <1>1 DEF FdInv, ThreadInv, HoldsRemote
<1> HIDE DEF d
<1>3. Fds' = Fds
  BY <1>1 DEF Fds
<1>4. /\ pc'[k] = "gone" /\ \A j \in Connections \ {k} : pc'[j] = pc[j]
      /\ table'[d] = NULL /\ \A e \in Fds \ {d} : table'[e] = table[e]
      /\ remote_sock_fd'[k] = NULL
      /\ \A j \in Connections \ {k} : remote_sock_fd'[j] = remote_sock_fd[j]
  BY <1>1, <1>2 DEF FdInv, TableTypeOK, Fds
<1>5. TableTypeOK'
  BY <1>1, <1>3 DEF FdInv, TableTypeOK, PCs
<1>6. MainInv'
  BY <1>1, <1>2, <1>3, <1>4, SocketFacts DEF FdInv, MainInv
<1>7. ThreadInv'
  BY <1>1, <1>2, <1>3, <1>4, SocketFacts
  DEF FdInv, ThreadInv, HoldsClient, HoldsRemote, PCs
<1>8. OneDescriptor'
  BY <1>3, <1>4 DEF FdInv, OneDescriptor
<1>9. Accounted'
  BY <1>1, <1>2, <1>3, <1>4, SocketFacts
  DEF FdInv, OneDescriptor, Accounted, HoldsClient, HoldsRemote, PCs
<1> QED BY <1>5, <1>6, <1>7, <1>8, <1>9 DEF FdInv

LEMMA HandlerFd ==
    ASSUME FdInv, NEW k \in Connections, HandlerStep(k)
    PROVE  FdInv'
<1> DEFINE Quiet(labels) ==
        /\ UNCHANGED <<mainVars, fdVars>>
        /\ \E label \in labels : Goto(k, label)
<1>1. CASE Start(k)
  BY <1>1, StartFd
<1>2. CASE ReadRequest(k) \/ ReadRequestFails(k) \/ Parse(k) \/ ParseFails(k) \/ ResolveHost(k)
  <2>1. pc[k] \in {"read_request", "parse", "resolve"}
    BY <1>2 DEF ReadRequest, ReadRequestFails, Parse, ParseFails, ResolveHost
  <2>2. Quiet({"parse", "resolve", "socket", "close_client"})
    BY <1>2 DEF ReadRequest, ReadRequestFails, Parse, ParseFails, ResolveHost
  <2> QED BY <2>1, <2>2, QuietFd DEF Serving, WithRemote, Goto
<1>3. CASE Socket(k)
  BY <1>3, SocketFd
<1>4. CASE Connect(k) \/ ConnectFails(k) \/ SendFails(k) \/ RelayRead(k) \/ RelayEnd(k)
           \/ RelayFails(k)
  <2>1. pc[k] \in WithRemote
    BY <1>4 DEF Connect, ConnectFails, SendFails, RelayRead, RelayEnd, RelayFails, WithRemote
  <2>2. Quiet({"send", "relay_write", "close_client"})
    BY <1>4 DEF Connect, ConnectFails, SendFails, RelayRead, RelayEnd, RelayFails
  <2> QED BY <2>1, <2>2, QuietFd DEF Serving, WithRemote, Goto
<1>5. CASE Send(k) \/ RelayWrite(k)
  <2>1. pc[k] \in {"send", "relay_write"}
    BY <1>5 DEF Send, RelayWrite
  <2>2. Quiet({pc[k], "relay_read"})
    BY <1>5 DEF Send, RelayWrite, WrittenThen
  <2> QED BY <2>1, <2>2, QuietFd DEF Serving, WithRemote, Goto
<1>6. CASE SigPipe(k)
  BY <1>6 DEF SigPipe, mainVars, fdVars, FdInv, TableTypeOK, MainInv, ThreadInv,
              OneDescriptor, Accounted, HoldsClient, HoldsRemote, Fds
<1>7. CASE CloseClient(k)
  BY <1>7, CloseClientFd
<1>8. CASE CloseRemote(k)
  BY <1>8, CloseRemoteFd
<1> QED BY <1>1, <1>2, <1>3, <1>4, <1>5, <1>6, <1>7, <1>8 DEF HandlerStep

LEMMA FdUnchanged ==
    FdInv /\ UNCHANGED <<mainVars, fdVars, pc>> => FdInv'
  BY DEF mainVars, fdVars, FdInv, TableTypeOK, MainInv, ThreadInv,
         OneDescriptor, Accounted, HoldsClient, HoldsRemote, Fds

LEMMA FdNext == FdInv /\ [Next]_vars => FdInv'
<1>1. SUFFICES ASSUME FdInv, [Next]_vars PROVE FdInv'
  OBVIOUS
<1>2. CASE MainStep
  BY <1>1, <1>2, AcceptFd, AllocArgFd, CreateThreadFailsFd, CreateThreadFd, CloseRefusedFd,
     FdUnchanged DEF MainStep, AcceptFails, vars
<1>3. CASE \E k \in Connections : HandlerStep(k)
  BY <1>1, <1>3, HandlerFd
<1>4. CASE \E s \in Sockets : PeerLeaves(s)
  BY <1>1, <1>4, FdUnchanged DEF PeerLeaves
<1>5. CASE Resting \/ UNCHANGED vars
  BY <1>1, <1>5, FdUnchanged DEF Resting, vars
<1> QED BY <1>1, <1>2, <1>3, <1>4, <1>5 DEF Next

LEMMA FdInit == Init => FdInv
<1>1. SUFFICES ASSUME Init PROVE FdInv
  OBVIOUS
<1>2. PICK n \in Limits : table = [d \in 1 .. n |-> NULL]
  BY <1>1 DEF Init
<1>3. \A k \in Connections : ~HoldsClient(k) /\ ~HoldsRemote(k)
  BY <1>1 DEF Init, HoldsClient, HoldsRemote, PCs
<1>4. TableTypeOK
  BY <1>1, <1>2 DEF Init, TableTypeOK, MainPCs, PCs
<1>5. MainInv /\ ThreadInv
  BY <1>1, <1>3 DEF Init, MainInv, ThreadInv
<1>6. OneDescriptor /\ Accounted
  BY <1>2, <1>3, SocketFacts DEF OneDescriptor, Accounted, Fds
<1> QED BY <1>4, <1>5, <1>6 DEF FdInv

LEMMA FdsKept == Safe => []FdInv
  BY FdInit, FdNext, PTL DEF Safe

-----------------------------------------------------------------------------
(* What the table promises                                                 *)

\* No thread ever uses or closes a descriptor that has become somebody else's,
\* however the closes of one thread and the accepts and sockets of the others
\* interleave (main's hand-over of the cell, and the closes of handle_client).
THEOREM DescriptorsStayOwn == Safe => []DescriptorsOwned
<1>1. FdInv => DescriptorsOwned
  BY DEF FdInv, MainInv, ThreadInv, DescriptorsOwned
<1> QED BY FdsKept, <1>1, PTL

\* No return of handle_client and no failure of main loses a descriptor, except
\* the failing malloc() (handle_client's early returns, main's error paths).
THEOREM NoDescriptorLost == Safe => []NothingLeaked
<1>1. FdInv => NothingLeaked
  BY AccountedMeans DEF FdInv
<1> QED BY FdsKept, <1>1, PTL

-----------------------------------------------------------------------------
(* The invariant of the relay                                              *)

\* What the buffers and the peers' streams are made of.
Tokens == STRING \cup Vocabulary \cup {"stale"} \cup (Connections \X Nat)

BufferTypeOK ==
    /\ request \in [Connections -> AllRequests \cup {NULL}]
    /\ buffer \in [Connections -> Seq(Tokens)]
    /\ total \in [Connections -> Nat]
    /\ sent \in [Connections -> Nat]
    /\ fetched \in [Connections -> 0 .. MaxPieces]
    /\ received \in [Sockets -> Seq(Tokens)]
    /\ left \subseteq Sockets
    /\ mute \subseteq Connections
    /\ dead \in BOOLEAN

Unread   == {"pending", "accepted", "start", "read_request"}
Unsent   == Unread \cup {"parse", "resolve", "socket", "connect"}
Relaying == {"relay_read", "relay_write"}

\* How far a connection has come, and what its two peers have of it: nothing, or
\* the part of the buffer that has been sent to the server, or the pieces of the
\* answer in front of those that wait in the buffer.  A peer that has gone away
\* has nothing.
Progress(k) ==
    LET t == total[k]
        s == sent[k]
        f == fetched[k]
        Has(socket, seq) == received[socket] = IF socket \in left THEN <<>> ELSE seq
    IN  /\ request[k] \in Requests[k] \cup {NULL}
        /\ s <= t
        /\ pc[k] \in Unread => t = 0
        /\ pc[k] \in Unsent \ Unread => request[k] \in Requests[k]
        /\ pc[k] \in Unsent => received[remote(k)] = <<>>
        /\ pc[k] = "send" => /\ t <= Len(buffer[k])
                             /\ Has(remote(k), SubSeq(buffer[k], 1, s))
        /\ pc[k] \in Unsent \cup {"send"} => f = 0 /\ received[client(k)] = <<>>
        /\ pc[k] = "relay_read" => Has(client(k), Pieces(k, 1, f))
        /\ pc[k] = "relay_write" => /\ t <= f
                                    /\ buffer[k] = Pieces(k, f - t + 1, f)
                                    /\ Has(client(k), Pieces(k, 1, f - t + s))
        /\ IsPrefix(received[client(k)], Pieces(k, 1, f))

RelayInv == BufferTypeOK /\ \A k \in Connections : Progress(k)

-----------------------------------------------------------------------------
(* Texts and pieces                                                        *)

LEMMA TextTypes ==
    ASSUME NEW k \in Connections, NEW q \in Requests[k]
    PROVE  /\ q \in AllRequests
           /\ TextOf[q] \in Seq(Tokens)
           /\ ParsedOf[q] \in Seq(Tokens)
           /\ EditedOf[q] \in Seq(Tokens)
           /\ q \in RequestsOf(Tokens)
<1>1. q \in AllRequests
  BY DEF AllRequests
<1>2. STRING \subseteq Tokens /\ Words \subseteq Tokens /\ Versions \subseteq Tokens
  BY DEF Tokens, Vocabulary, Words, Versions
<1>3. /\ q = [url |-> q.url, version |-> q.version, headers |-> q.headers]
      /\ q.url \in Seq(STRING) /\ q.url # <<>> /\ q.version \in Versions
      /\ q.headers \in Seq(Seq(STRING))
  BY ProxyConstantsOK
<1> HIDE DEF Tokens
<1>4. q.url \in Seq(Tokens) /\ q.version \in Tokens
  BY <1>2, <1>3, SeqMonotonic
<1>5. Seq(STRING) \subseteq Seq(Tokens)
  BY <1>2, SeqMonotonic
<1>6. q.headers \in Seq(Seq(Tokens))
  BY <1>3, <1>5, SeqMonotonic
<1>7. q \in RequestsOf(Tokens)
  BY <1>3, <1>4, <1>6 DEF RequestsOf
<1>8. Text(q) \in Seq(Tokens) /\ Parsed(q) \in Seq(Tokens) /\ Edited(q) \in Seq(Tokens)
  BY <1>2, <1>7, EditsAreTexts
<1> QED BY <1>1, <1>7, <1>8 DEF TextOf, ParsedOf, EditedOf

\* A text with stale bytes behind it, as many as it is short of n.
PadsOut(S, text, n) ==
    \E rest \in Seq(S) :
       /\ Padded(text, n) = text \o rest
       /\ Len(text) + Len(rest) >= n
       /\ Len(text) <= n => Len(text) + Len(rest) = n

LEMMA PaddedParts ==
    ASSUME NEW S, NEW text \in Seq(S), NEW n \in Nat, "stale" \in S
    PROVE  PadsOut(S, text, n)
<1> DEFINE m == Max({0, n - Len(text)})
           rest == [i \in 1 .. m |-> "stale"]
<1>1. Len(text) \in Nat
  OBVIOUS
<1>2. m \in Nat /\ m >= n - Len(text) /\ (Len(text) <= n => m = n - Len(text))
  <2>1. PICK l \in Nat : l = Len(text)
    BY <1>1
  <2>2. PICK d \in Int : d = n - l
    OBVIOUS
  <2>3. Max({0, d}) = IF 0 <= d THEN d ELSE 0
    <3>1. 0 \in Int
      OBVIOUS
    <3> QED BY <3>1, MinMaxOfTwo, Zenon
  <2> QED BY <2>1, <2>2, <2>3
<1> HIDE DEF m
<1>3. rest \in Seq(S) /\ Len(rest) = m
  BY <1>2
<1>4. Padded(text, n) = text \o rest
  BY DEF Padded, m
<1> HIDE DEF rest
<1>5. Len(text) + Len(rest) >= n /\ (Len(text) <= n => Len(text) + Len(rest) = n)
  BY <1>1, <1>2, <1>3
<1> QED BY <1>3, <1>4, <1>5, Zenon DEF PadsOut

LEMMA PaddedType ==
    ASSUME NEW S, NEW text \in Seq(S), NEW n \in Nat, "stale" \in S
    PROVE  /\ Padded(text, n) \in Seq(S)
           /\ Len(Padded(text, n)) >= n
           /\ Len(text) <= n => Len(Padded(text, n)) = n
<1>1. PICK rest \in Seq(S) :
         /\ Padded(text, n) = text \o rest
         /\ Len(text) + Len(rest) >= n
         /\ Len(text) <= n => Len(text) + Len(rest) = n
  BY PaddedParts DEF PadsOut
<1>2. text \o rest \in Seq(S) /\ Len(text \o rest) = Len(text) + Len(rest)
  BY ConcatProperties
<1> QED BY <1>1, <1>2

Piece(k, m) == <<k, m>>

\* The pieces i + 1 to i + n of an answer, one by one.
LEMMA PiecesType ==
    ASSUME NEW k \in Connections, NEW i \in Nat, NEW j \in Nat, NEW n \in Nat, j = i + n
    PROVE  /\ Pieces(k, i + 1, j) \in Seq(Tokens)
           /\ Len(Pieces(k, i + 1, j)) = n
           /\ \A m \in 1 .. n : Pieces(k, i + 1, j)[m] = Piece(k, i + m)
<1>1. Pieces(k, i + 1, j) = [m \in 1 .. n |-> Piece(k, i + m)]
  <2>1. 1 .. j - (i + 1) + 1 = 1 .. n /\ \A m \in 1 .. n : (i + 1) + m - 1 = i + m
    OBVIOUS
  <2> QED BY <2>1 DEF Pieces, Piece
<1>2. \A m \in 1 .. n : Piece(k, i + m) \in Tokens
  BY DEF Piece, Tokens
<1> HIDE DEF Tokens, Piece
<1> QED BY <1>1, <1>2

LEMMA AnswerType ==
    ASSUME NEW k \in Connections, NEW n \in Nat
    PROVE  /\ Pieces(k, 1, n) \in Seq(Tokens)
           /\ Len(Pieces(k, 1, n)) = n
           /\ \A m \in 1 .. n : Pieces(k, 1, n)[m] = Piece(k, m)
<1>1. 0 + 1 = 1 /\ n = 0 + n /\ \A m \in 1 .. n : 0 + m = m
  OBVIOUS
<1>2. /\ Pieces(k, 0 + 1, n) \in Seq(Tokens)
      /\ Len(Pieces(k, 0 + 1, n)) = n
      /\ \A m \in 1 .. n : Pieces(k, 0 + 1, n)[m] = Piece(k, 0 + m)
  BY PiecesType
<1> QED BY <1>1, <1>2

\* The pieces sent, those from l to m of the ones from i to j, join the pieces
\* before them.
Joins(i, j, l, m, a, b) ==
    /\ i \in Nat /\ j \in Nat /\ l \in Nat /\ m \in Nat /\ a \in Nat /\ b \in Nat
    /\ i >= 1 /\ l >= 1 /\ l - 1 <= m /\ m <= j - i + 1
    /\ a = i + l - 2 /\ b = i + m - 1

Joined(x, y, l, m) == x \o SubSeq(y, l, m)

LEMMA PiecesJoin ==
    ASSUME NEW k \in Connections, NEW first, NEW last, NEW l, NEW m, NEW a, NEW b,
           Joins(first, last, l, m, a, b)
    PROVE  Joined(Pieces(k, 1, a), Pieces(k, first, last), l, m) = Pieces(k, 1, b)
<1>0. a \in Nat /\ b \in Nat
  BY DEF Joins
<1>1. PICK i \in Nat, c \in Nat, s \in Nat, n \in Nat :
         /\ first = i + 1 /\ last = i + c /\ l = s + 1 /\ m = s + n
         /\ s + n <= c /\ a = i + s /\ b = a + n
  <2>1. /\ first - 1 \in Nat /\ last - first + 1 \in Nat /\ l - 1 \in Nat /\ m - l + 1 \in Nat
        /\ first = (first - 1) + 1 /\ last = (first - 1) + (last - first + 1)
        /\ l = (l - 1) + 1 /\ m = (l - 1) + (m - l + 1)
        /\ (l - 1) + (m - l + 1) <= last - first + 1
        /\ a = (first - 1) + (l - 1) /\ b = a + (m - l + 1)
    BY DEF Joins
  <2> QED BY <2>1
<1> DEFINE x == Pieces(k, 1, a)
           y == Pieces(k, first, last)
           z == Pieces(k, 1, b)
<1>2. /\ x \in Seq(Tokens) /\ Len(x) = a /\ \A o \in 1 .. a : x[o] = Piece(k, o)
      /\ z \in Seq(Tokens) /\ Len(z) = b /\ \A o \in 1 .. b : z[o] = Piece(k, o)
  BY <1>0, AnswerType
<1>3. y \in Seq(Tokens) /\ Len(y) = c /\ \A o \in 1 .. c : y[o] = Piece(k, i + o)
  BY <1>1, PiecesType
<1> HIDE DEF x, y, z
<1>4. \A o \in 1 .. Len(x) : x[o] = z[o]
  BY <1>1, <1>2
<1>5. \A o \in 1 .. n : y[s + o] = z[Len(x) + o]
  <2>1. \A o \in 1 .. n : s + o \in 1 .. c /\ a + o \in 1 .. b /\ i + (s + o) = a + o
    BY <1>1
  <2> QED BY <1>2, <1>3, <2>1
<1>6. s + n <= Len(y) /\ Len(z) = Len(x) + n
  BY <1>1, <1>2, <1>3
<1>7. x \o SubSeq(y, s + 1, s + n) = z
  <2>1. Continues(Tokens, x, y, z, s, n)
    BY <1>1, <1>2, <1>3, <1>4, <1>5, <1>6 DEF Continues
  <2> QED BY <2>1, Continued
<1> QED BY <1>1, <1>7 DEF x, y, z, Joined

LEMMA PiecesPrefix ==
    ASSUME NEW k \in Connections, NEW i \in Nat, NEW j \in Nat, i <= j
    PROVE  IsPrefix(Pieces(k, 1, i), Pieces(k, 1, j))
<1> DEFINE s == Pieces(k, 1, i)
           t == Pieces(k, 1, j)
<1>1. /\ s \in Seq(Tokens) /\ Len(s) = i /\ \A m \in 1 .. i : s[m] = Piece(k, m)
      /\ t \in Seq(Tokens) /\ Len(t) = j /\ \A m \in 1 .. j : t[m] = Piece(k, m)
  BY AnswerType
<1> HIDE DEF s, t
<1> DEFINE u == SubSeq(s, 1, i)
           v == SubSeq(t, 1, i)
<1>2. /\ u \in Seq(Tokens) /\ Len(u) = i /\ \A m \in 1 .. i : u[m] = s[m]
      /\ v \in Seq(Tokens) /\ Len(v) = i /\ \A m \in 1 .. i : v[m] = t[m]
  BY <1>1
<1> HIDE DEF u, v
<1>3. u = v
  <2>1. \A m \in 1 .. Len(u) : u[m] = v[m]
    BY <1>1, <1>2
  <2> QED BY <1>2, <2>1, SeqEqual
<1> QED BY <1>1, <1>3 DEF IsPrefix, s, t, u, v

LEMMA EmptyPrefix ==
    ASSUME NEW S, NEW b \in Seq(S)
    PROVE  IsPrefix(<<>>, b)
  BY DEF IsPrefix

-----------------------------------------------------------------------------
(* The relay, action by action                                             *)

\* A connection that a step does not touch is where it was.
LEMMA ProgressKept ==
    ASSUME NEW j \in Connections, Progress(j),
           pc'[j] = pc[j], request'[j] = request[j], buffer'[j] = buffer[j],
           total'[j] = total[j], sent'[j] = sent[j], fetched'[j] = fetched[j],
           received'[client(j)] = received[client(j)],
           received'[remote(j)] = received[remote(j)],
           client(j) \in left' <=> client(j) \in left,
           remote(j) \in left' <=> remote(j) \in left
    PROVE  Progress(j)'
  BY DEF Progress

\* The moves of a thread after which no more is known of its buffer than before.
Moves(from, to) ==
    /\ to \notin Relaying \cup {"send"}
    /\ to \in Unread => from \in Unread
    /\ to \in Unsent \ Unread => from \in Unsent \ Unread

LEMMA RelayMoves ==
    ASSUME RelayInv, TableTypeOK, NEW k \in Connections, NEW label,
           Moves(pc[k], label), Goto(k, label),
           UNCHANGED <<requestVars, bufferVars, peerVars, dead>>
    PROVE  RelayInv'
<1>1. /\ request' = request /\ buffer' = buffer /\ total' = total /\ sent' = sent
      /\ fetched' = fetched /\ received' = received /\ left' = left /\ mute' = mute
      /\ dead' = dead
  BY DEF requestVars, bufferVars, peerVars
<1>2. BufferTypeOK'
  BY <1>1 DEF RelayInv, BufferTypeOK
<1>3. pc'[k] = label /\ \A j \in Connections \ {k} : pc'[j] = pc[j]
  BY DEF Goto, TableTypeOK
<1>4. ASSUME NEW j \in Connections \ {k} PROVE Progress(j)'
  BY <1>1, <1>3, ProgressKept DEF RelayInv
<1>5. Progress(k)'
  <2>1. Progress(k)
    BY DEF RelayInv
  <2> QED BY <1>1, <1>3, <2>1 DEF Progress, Moves, Relaying, Unsent
<1> QED BY <1>2, <1>4, <1>5 DEF RelayInv

LEMMA RelayUnchanged ==
    ASSUME RelayInv, UNCHANGED <<pc, requestVars, bufferVars, peerVars>>, dead' \in BOOLEAN
    PROVE  RelayInv'
  BY DEF requestVars, bufferVars, peerVars, RelayInv, BufferTypeOK, Progress

LEMMA MainRelay ==
    ASSUME FdInv, RelayInv, MainStep
    PROVE  RelayInv'
<1>1. TableTypeOK /\ MainInv
  BY DEF FdInv
<1>2. CASE Accept
  <2>1. PICK k \in Connections : pc[k] = "pending" /\ Goto(k, "accepted")
    BY <1>2 DEF Accept
  <2>2. Moves(pc[k], "accepted")
    BY <2>1 DEF Moves, Relaying, Unread, Unsent
  <2> QED BY <1>1, <1>2, <2>1, <2>2, RelayMoves DEF Accept
<1>3. CASE AllocArgFails \/ CreateThread \/ CloseRefused
  <2>1. accepted \in Connections /\ pc[accepted] = "accepted"
    BY <1>1, <1>3 DEF MainInv, AllocArgFails, CreateThread, CloseRefused
  <2>2. PICK label \in {"gone", "start"} : Goto(accepted, label)
    BY <1>3 DEF AllocArgFails, CreateThread, CloseRefused
  <2>3. Moves(pc[accepted], label)
    BY <2>1, <2>2 DEF Moves, Relaying, Unread, Unsent
  <2>4. UNCHANGED <<requestVars, bufferVars, peerVars, dead>>
    BY <1>3 DEF AllocArgFails, CreateThread, CloseRefused
  <2> QED BY <1>1, <2>1, <2>2, <2>3, <2>4, RelayMoves
<1>4. CASE AcceptFails \/ AllocArg \/ CreateThreadFails
  <2>1. UNCHANGED <<pc, requestVars, bufferVars, peerVars>> /\ dead' = dead
    BY <1>4 DEF AcceptFails, AllocArg, CreateThreadFails, vars
  <2> QED BY <2>1, RelayUnchanged DEF RelayInv, BufferTypeOK
<1> QED BY <1>2, <1>3, <1>4 DEF MainStep

LEMMA QuietRelay ==
    ASSUME FdInv, RelayInv, NEW k \in Connections,
           \/ Start(k) \/ ReadRequestFails(k) \/ ParseFails(k) \/ ResolveHost(k)
           \/ Socket(k) \/ ConnectFails(k) \/ SendFails(k) \/ RelayEnd(k) \/ RelayFails(k)
    PROVE  RelayInv'
<1>1. TableTypeOK
  BY DEF FdInv
<1>2. UNCHANGED <<requestVars, bufferVars, peerVars, dead>>
  BY DEF Start, ReadRequestFails, ParseFails, ResolveHost, Socket, ConnectFails,
         SendFails, RelayEnd, RelayFails
<1>3. \E label \in {"read_request", "socket", "connect", "close_client"} :
        Goto(k, label) /\ Moves(pc[k], label)
  BY DEF Start, ReadRequestFails, ParseFails, ResolveHost, Socket, ConnectFails,
         SendFails, RelayEnd, RelayFails, Moves, Relaying, Unread, Unsent
<1> QED BY <1>1, <1>2, <1>3, RelayMoves

LEMMA ReadRequestRelay ==
    ASSUME FdInv, RelayInv, NEW k \in Connections, ReadRequest(k)
    PROVE  RelayInv'
<1>1. PICK q \in Requests[k] : /\ request' = [request EXCEPT ![k] = q]
                               /\ total' = [total EXCEPT ![k] = Len(TextOf[q])]
  BY DEF ReadRequest
<1>2. q \in AllRequests /\ Len(TextOf[q]) \in Nat
  BY TextTypes
<1>3. TableTypeOK /\ BufferTypeOK /\ Progress(k) /\ pc[k] = "read_request"
  BY DEF FdInv, RelayInv, ReadRequest
<1>4. /\ pc'[k] = "parse" /\ request'[k] = q /\ total'[k] = Len(TextOf[q])
      /\ \A j \in Connections \ {k} :
            pc'[j] = pc[j] /\ request'[j] = request[j] /\ total'[j] = total[j]
      /\ buffer' = buffer /\ sent' = sent /\ fetched' = fetched /\ received' = received
      /\ left' = left /\ mute' = mute /\ dead' = dead
  BY <1>1, <1>3 DEF ReadRequest, Goto, peerVars, TableTypeOK, BufferTypeOK
<1>5. BufferTypeOK'
  BY <1>1, <1>2, <1>3, <1>4 DEF BufferTypeOK
<1>6. ASSUME NEW j \in Connections \ {k} PROVE Progress(j)'
  BY <1>4, ProgressKept DEF RelayInv
<1>7. Progress(k)'
  BY <1>2, <1>3, <1>4 DEF Progress, Relaying, Unread, Unsent, BufferTypeOK
<1> QED BY <1>5, <1>6, <1>7 DEF RelayInv

LEMMA ParseRelay ==
    ASSUME FdInv, RelayInv, NEW k \in Connections, Parse(k)
    PROVE  RelayInv'
<1>1. TableTypeOK /\ BufferTypeOK /\ Progress(k) /\ pc[k] = "parse"
  BY DEF FdInv, RelayInv, Parse
<1>2. Padded(ParsedOf[request[k]], total[k]) \in Seq(Tokens)
  <2>1. request[k] \in Requests[k]
    BY <1>1 DEF Progress, Unread, Unsent
  <2>2. ParsedOf[request[k]] \in Seq(Tokens) /\ total[k] \in Nat /\ "stale" \in Tokens
    BY <1>1, <2>1, TextTypes DEF BufferTypeOK, Tokens
  <2> QED BY <2>2, PaddedType
<1>3. /\ pc'[k] = "resolve"
      /\ \A j \in Connections \ {k} : pc'[j] = pc[j] /\ buffer'[j] = buffer[j]
      /\ request' = request /\ total' = total /\ sent' = sent /\ fetched' = fetched
      /\ received' = received /\ left' = left /\ mute' = mute /\ dead' = dead
  BY <1>1 DEF Parse, Goto, requestVars, peerVars, TableTypeOK, BufferTypeOK
<1>4. BufferTypeOK'
  BY <1>1, <1>2, <1>3 DEF BufferTypeOK, Parse
<1>5. ASSUME NEW j \in Connections \ {k} PROVE Progress(j)'
  BY <1>3, ProgressKept DEF RelayInv
<1>6. Progress(k)'
  BY <1>1, <1>3 DEF Progress, Relaying, Unread, Unsent
<1> QED BY <1>4, <1>5, <1>6 DEF RelayInv

LEMMA ConnectRelay ==
    ASSUME FdInv, RelayInv, NEW k \in Connections, Connect(k)
    PROVE  RelayInv'
<1>1. TableTypeOK /\ BufferTypeOK /\ Progress(k) /\ pc[k] = "connect"
  BY DEF FdInv, RelayInv, Connect
<1> DEFINE text == Padded(EditedOf[request[k]], total[k])
<1>2. text \in Seq(Tokens) /\ Len(text) >= total[k]
  <2>1. request[k] \in Requests[k]
    BY <1>1 DEF Progress, Unread, Unsent
  <2>2. EditedOf[request[k]] \in Seq(Tokens) /\ total[k] \in Nat /\ "stale" \in Tokens
    BY <1>1, <2>1, TextTypes DEF BufferTypeOK, Tokens
  <2> QED BY <2>2, PaddedType
<1>3. /\ pc'[k] = "send" /\ buffer'[k] = text /\ sent'[k] = 0
      /\ \A j \in Connections \ {k} :
            pc'[j] = pc[j] /\ buffer'[j] = buffer[j] /\ sent'[j] = sent[j]
      /\ request' = request /\ total' = total /\ fetched' = fetched
      /\ received' = received /\ left' = left /\ mute' = mute /\ dead' = dead
  BY <1>1 DEF Connect, Goto, requestVars, peerVars, TableTypeOK, BufferTypeOK
<1>4. BufferTypeOK'
  BY <1>1, <1>2, <1>3 DEF BufferTypeOK, Connect
<1>5. ASSUME NEW j \in Connections \ {k} PROVE Progress(j)'
  BY <1>3, ProgressKept DEF RelayInv
<1> HIDE DEF text
<1>6. SubSeq(text, 1, 0) = <<>>
  BY <1>2
<1>7. Progress(k)'
  <2>1. /\ request[k] \in Requests[k] /\ received[remote(k)] = <<>>
        /\ fetched[k] = 0 /\ received[client(k)] = <<>>
        /\ IsPrefix(received[client(k)], Pieces(k, 1, fetched[k]))
    BY <1>1 DEF Progress, Unread, Unsent
  <2>2. 0 <= total[k]
    BY <1>1 DEF BufferTypeOK
  <2>3. pc'[k] \notin Unread /\ pc'[k] \notin Unsent /\ pc'[k] \notin Relaying
    BY <1>3 DEF Unread, Unsent, Relaying
  <2> QED BY <1>2, <1>3, <1>6, <2>1, <2>2, <2>3 DEF Progress, Relaying
<1> QED BY <1>4, <1>5, <1>7 DEF RelayInv

\* One write() to the server: the server has that much more of the buffer.
SendsOn(k, s, t, n, b) ==
    /\ s = sent[k] /\ t = total[k] /\ b = buffer[k] /\ s + n <= t /\ t <= Len(b)
    /\ sent' = [sent EXCEPT ![k] = s + n]
    /\ received' \in [Sockets -> Seq(Tokens)]
    /\ received'[remote(k)] = IF remote(k) \in left THEN <<>> ELSE SubSeq(b, 1, s + n)
    /\ pc'[k] = IF s + n >= t THEN "relay_read" ELSE "send"
    /\ \A j \in Connections \ {k} :
          /\ pc'[j] = pc[j] /\ sent'[j] = sent[j]
          /\ received'[remote(j)] = received[remote(j)]
    /\ \A j \in Connections : received'[client(j)] = received[client(j)]
    /\ request' = request /\ buffer' = buffer /\ total' = total
    /\ fetched' = fetched /\ left' = left /\ mute' = mute /\ dead' = dead

LEMMA SendsPart ==
    ASSUME FdInv, RelayInv, NEW k \in Connections, Send(k)
    PROVE  \E s \in Nat, t \in Nat, n \in Nat, b \in Seq(Tokens) : SendsOn(k, s, t, n, b)
<1>1. /\ TableTypeOK /\ BufferTypeOK /\ Progress(k) /\ pc[k] = "send"
      /\ client(k) \in Sockets /\ remote(k) \in Sockets
      /\ table[remote_sock_fd[k]] = remote(k)
  BY SocketFacts DEF FdInv, RelayInv, Send, ThreadInv, HoldsRemote
<1>2. PICK n \in 1 .. total[k] - sent[k] :
         /\ sent' = [sent EXCEPT ![k] = @ + n]
         /\ received' = IF remote(k) \in left THEN received
                        ELSE [received EXCEPT ![remote(k)] =
                                 @ \o SubSeq(buffer[k], sent[k] + 1, sent[k] + n)]
  BY <1>1 DEF Send, WriteSome
<1>3. PICK s \in Nat, t \in Nat, b \in Seq(Tokens) :
         s = sent[k] /\ t = total[k] /\ b = buffer[k] /\ t <= Len(b) /\ s + n <= t /\ n \in Nat
  BY <1>1, <1>2 DEF BufferTypeOK, Progress
<1>4. /\ pc'[k] = IF s + n >= t THEN "relay_read" ELSE "send"
      /\ sent'[k] = s + n
      /\ \A j \in Connections \ {k} :
            /\ pc'[j] = pc[j] /\ sent'[j] = sent[j]
            /\ received'[remote(j)] = received[remote(j)]
      /\ \A j \in Connections : received'[client(j)] = received[client(j)]
      /\ request' = request /\ buffer' = buffer /\ total' = total /\ fetched' = fetched
      /\ left' = left /\ mute' = mute /\ dead' = dead
  <2>1. /\ pc' = [pc EXCEPT ![k] = IF sent'[k] >= total[k] THEN "relay_read" ELSE pc[k]]
        /\ request' = request /\ buffer' = buffer /\ total' = total /\ fetched' = fetched
        /\ left' = left /\ mute' = mute /\ dead' = dead
    BY DEF Send, WrittenThen, Goto, requestVars
  <2>2. sent'[k] = s + n /\ \A j \in Connections \ {k} : sent'[j] = sent[j]
    BY <1>1, <1>2, <1>3 DEF BufferTypeOK
  <2>3. /\ pc'[k] = IF s + n >= t THEN "relay_read" ELSE pc[k]
        /\ \A j \in Connections \ {k} : pc'[j] = pc[j]
    BY <1>1, <1>3, <2>1, <2>2 DEF TableTypeOK
  <2>4. \A q \in Sockets \ {remote(k)} : received'[q] = received[q]
    BY <1>1, <1>2 DEF BufferTypeOK
  <2>5. /\ \A j \in Connections \ {k} : received'[remote(j)] = received[remote(j)]
        /\ \A j \in Connections : received'[client(j)] = received[client(j)]
    BY <2>4, SocketFacts
  <2> QED BY <1>1, <2>1, <2>2, <2>3, <2>5
<1>5. /\ received'[remote(k)] = IF remote(k) \in left THEN <<>> ELSE SubSeq(b, 1, s + n)
      /\ SubSeq(b, 1, s + n) \in Seq(Tokens)
  <2>1. SubSeq(b, 1, s) \o SubSeq(b, s + 1, s + n) = SubSeq(b, 1, s + n)
    <3>1. n \in Nat /\ s + n <= Len(b)
      BY <1>3
    <3> QED BY <1>3, <3>1, SubSeqJoin, Zenon
  <2>2. received[remote(k)] = IF remote(k) \in left THEN <<>> ELSE SubSeq(b, 1, s)
    BY <1>1, <1>3 DEF Progress
  <2>3. SubSeq(b, 1, s + n) \in Seq(Tokens)
    <3>1. b \in Seq(Tokens) /\ s \in Nat /\ n \in Nat /\ s + n <= Len(b)
      BY <1>3
    <3> QED BY ONLY <3>1
  <2> QED BY <1>1, <1>2, <1>3, <2>1, <2>2, <2>3 DEF BufferTypeOK
<1>6. sent' = [sent EXCEPT ![k] = s + n] /\ received' \in [Sockets -> Seq(Tokens)]
  BY <1>1, <1>2, <1>3, <1>5 DEF BufferTypeOK
<1> QED BY <1>3, <1>4, <1>5, <1>6 DEF SendsOn

LEMMA SendRelay ==
    ASSUME FdInv, RelayInv, NEW k \in Connections, Send(k)
    PROVE  RelayInv'
<1>1. BufferTypeOK /\ Progress(k) /\ pc[k] = "send"
  BY DEF RelayInv, Send
<1>p. PICK s \in Nat, t \in Nat, n \in Nat, b \in Seq(Tokens) : SendsOn(k, s, t, n, b)
  BY SendsPart
<1>2. /\ s = sent[k] /\ t = total[k] /\ b = buffer[k] /\ s + n <= t /\ t <= Len(b)
      /\ sent' = [sent EXCEPT ![k] = s + n]
      /\ received' \in [Sockets -> Seq(Tokens)]
      /\ received'[remote(k)] = IF remote(k) \in left THEN <<>> ELSE SubSeq(b, 1, s + n)
      /\ pc'[k] = IF s + n >= t THEN "relay_read" ELSE "send"
      /\ \A j \in Connections \ {k} :
            /\ pc'[j] = pc[j] /\ sent'[j] = sent[j]
            /\ received'[remote(j)] = received[remote(j)]
      /\ \A j \in Connections : received'[client(j)] = received[client(j)]
      /\ request' = request /\ buffer' = buffer /\ total' = total
      /\ fetched' = fetched /\ left' = left /\ mute' = mute /\ dead' = dead
  BY <1>p DEF SendsOn
<1>3. sent'[k] = s + n /\ s + n \in Nat
  BY <1>1, <1>2 DEF BufferTypeOK
<1>4. BufferTypeOK'
  BY <1>1, <1>2, <1>3 DEF BufferTypeOK
<1>5. ASSUME NEW j \in Connections \ {k} PROVE Progress(j)'
  BY <1>2, ProgressKept DEF RelayInv
<1>6. Progress(k)'
  <2>1. Pieces(k, 1, 0) = <<>>
    BY AnswerType
  <2>2. fetched[k] = 0 /\ received[client(k)] = <<>>
    BY <1>1 DEF Progress
  <2> QED BY <1>1, <1>2, <1>3, <2>1, <2>2 DEF Progress, Relaying, Unread, Unsent
<1> QED BY <1>4, <1>5, <1>6 DEF RelayInv

\* The next pieces are in the buffer, and none of them is missing before them.
LEMMA RelayReadRelay ==
    ASSUME FdInv, RelayInv, NEW k \in Connections, RelayRead(k)
    PROVE  RelayInv'
<1>1. /\ TableTypeOK /\ BufferTypeOK /\ Progress(k) /\ pc[k] = "relay_read"
      /\ client(k) \in Sockets /\ remote(k) \in Sockets
      /\ table[remote_sock_fd[k]].conn = k
  BY SocketFacts DEF FdInv, RelayInv, RelayRead, ThreadInv, HoldsRemote
<1>2. PICK n \in 1 .. Min({BuffSize, MaxPieces - fetched[k]}) :
         /\ buffer' = [buffer EXCEPT ![k] = Pieces(k, fetched[k] + 1, fetched[k] + n)]
         /\ total' = [total EXCEPT ![k] = n]
         /\ fetched' = [fetched EXCEPT ![k] = @ + n]
  BY <1>1 DEF RelayRead
<1>3. PICK f \in Nat : f = fetched[k] /\ n \in Nat /\ f + n <= MaxPieces
  <2>1. PICK d \in Int : d = MaxPieces - fetched[k]
    BY <1>1, ProxyConstantsOK DEF BufferTypeOK
  <2>2. BuffSize \in Int
    BY ProxyConstantsOK
  <2>3. Min({BuffSize, d}) = IF BuffSize <= d THEN BuffSize ELSE d
    BY <2>1, <2>2, MinMaxOfTwo, Zenon
  <2>4. Min({BuffSize, MaxPieces - fetched[k]}) = Min({BuffSize, d})
    BY <2>1, Zenon
  <2>5. n \in Nat /\ n <= d
    BY <2>1, <2>2, <2>3, <2>4
  <2> QED BY <1>1, <2>1, <2>5, ProxyConstantsOK DEF BufferTypeOK
<1>4. PICK g \in Nat : g = f + n
  BY <1>3
<1>5. /\ pc'[k] = "relay_write" /\ buffer'[k] = Pieces(k, f + 1, g) /\ total'[k] = n
      /\ sent'[k] = 0 /\ fetched'[k] = g
      /\ \A j \in Connections \ {k} :
            /\ pc'[j] = pc[j] /\ buffer'[j] = buffer[j] /\ total'[j] = total[j]
            /\ sent'[j] = sent[j] /\ fetched'[j] = fetched[j]
      /\ request' = request /\ received' = received /\ left' = left /\ mute' = mute
      /\ dead' = dead
  BY <1>1, <1>2, <1>3, <1>4 DEF RelayRead, Goto, requestVars, TableTypeOK, BufferTypeOK
<1>6. BufferTypeOK'
  <2>1. Pieces(k, f + 1, g) \in Seq(Tokens)
    BY <1>3, <1>4, PiecesType
  <2>2. buffer' \in [Connections -> Seq(Tokens)] /\ fetched' \in [Connections -> 0 .. MaxPieces]
    BY <1>1, <1>2, <1>3, <1>4, <2>1, ProxyConstantsOK DEF BufferTypeOK
  <2>3. total' \in [Connections -> Nat] /\ sent' \in [Connections -> Nat]
    BY <1>1, <1>2, <1>3 DEF BufferTypeOK, RelayRead
  <2> QED BY <1>1, <1>5, <2>2, <2>3 DEF BufferTypeOK
<1>7. ASSUME NEW j \in Connections \ {k} PROVE Progress(j)'
  BY <1>5, ProgressKept DEF RelayInv
<1>8. Progress(k)'
  <2>1. /\ received[client(k)] = IF client(k) \in left THEN <<>> ELSE Pieces(k, 1, f)
        /\ request[k] \in Requests[k] \cup {NULL}
    BY <1>1, <1>3 DEF Progress
  <2>2. IsPrefix(Pieces(k, 1, f), Pieces(k, 1, g)) /\ IsPrefix(<<>>, Pieces(k, 1, g))
    <3>1. IsPrefix(Pieces(k, 1, f), Pieces(k, 1, g))
      BY <1>3, <1>4, PiecesPrefix
    <3>2. Pieces(k, 1, g) \in Seq(Tokens)
      BY AnswerType
    <3> QED BY <3>1, <3>2, EmptyPrefix
  <2>3. IsPrefix(received[client(k)], Pieces(k, 1, g))
    BY <2>1, <2>2
  <2>4. g - n = f /\ f + 0 = f /\ 0 <= n /\ n <= g
    BY <1>3, <1>4
  <2>5. pc'[k] \notin Unread /\ pc'[k] \notin Unsent
    BY <1>5 DEF Unread, Unsent
  <2> QED BY <1>5, <2>1, <2>3, <2>4, <2>5 DEF Progress
<1> QED BY <1>6, <1>7, <1>8 DEF RelayInv

LEMMA RelayWriteRelay ==
    ASSUME FdInv, RelayInv, NEW k \in Connections, RelayWrite(k)
    PROVE  RelayInv'
<1>1. /\ TableTypeOK /\ BufferTypeOK /\ Progress(k) /\ pc[k] = "relay_write"
      /\ client(k) \in Sockets /\ remote(k) \in Sockets
      /\ table[client_sock_fd[k]] = client(k)
  BY SocketFacts DEF FdInv, RelayInv, RelayWrite, ThreadInv, HoldsClient, PCs
<1>2. PICK n \in 1 .. total[k] - sent[k] :
         /\ sent' = [sent EXCEPT ![k] = @ + n]
         /\ received' = IF client(k) \in left THEN received
                        ELSE [received EXCEPT ![client(k)] =
                                 @ \o SubSeq(buffer[k], sent[k] + 1, sent[k] + n)]
  BY <1>1 DEF RelayWrite, WriteSome
<1>3. PICK s \in Nat, t \in Nat, f \in Nat :
         /\ s = sent[k] /\ t = total[k] /\ f = fetched[k] /\ t <= f /\ s + n <= t
         /\ n \in Nat /\ n > 0
  <2>1. PICK s \in Nat, t \in Nat, f \in Nat : s = sent[k] /\ t = total[k] /\ f = fetched[k]
    BY ProxyConstantsOK, <1>1 DEF BufferTypeOK
  <2>2. t <= f
    BY <1>1, <2>1 DEF Progress
  <2>3. n \in 1 .. t - s
    BY <2>1
  <2> QED BY <2>1, <2>2, <2>3
<1>4. PICK i \in Nat, a \in Nat, b \in Nat :
         i = f - t /\ a = i + s /\ b = a + n /\ b <= f /\ s + n <= f - i
  BY <1>3
<1>5. /\ pc'[k] = IF s + n >= t THEN "relay_read" ELSE "relay_write"
      /\ sent'[k] = s + n
      /\ \A j \in Connections \ {k} :
            /\ pc'[j] = pc[j] /\ sent'[j] = sent[j]
            /\ received'[client(j)] = received[client(j)]
      /\ \A j \in Connections : received'[remote(j)] = received[remote(j)]
      /\ request' = request /\ buffer' = buffer /\ total' = total /\ fetched' = fetched
      /\ left' = left /\ mute' = mute /\ dead' = dead
  <2>1. /\ pc' = [pc EXCEPT ![k] = IF sent'[k] >= total[k] THEN "relay_read" ELSE pc[k]]
        /\ request' = request /\ buffer' = buffer /\ total' = total /\ fetched' = fetched
        /\ left' = left /\ mute' = mute /\ dead' = dead
    BY DEF RelayWrite, WrittenThen, Goto, requestVars
  <2>2. sent'[k] = s + n /\ \A j \in Connections \ {k} : sent'[j] = sent[j]
    BY <1>1, <1>2, <1>3 DEF BufferTypeOK
  <2>3. /\ pc'[k] = IF s + n >= t THEN "relay_read" ELSE pc[k]
        /\ \A j \in Connections \ {k} : pc'[j] = pc[j]
    BY <1>1, <1>3, <2>1, <2>2 DEF TableTypeOK
  <2>4. \A q \in Sockets \ {client(k)} : received'[q] = received[q]
    BY <1>1, <1>2 DEF BufferTypeOK
  <2>5. /\ \A j \in Connections \ {k} : received'[client(j)] = received[client(j)]
        /\ \A j \in Connections : received'[remote(j)] = received[remote(j)]
    BY <2>4, SocketFacts
  <2> QED BY <1>1, <2>1, <2>2, <2>3, <2>5
<1>6. /\ received'[client(k)] = IF client(k) \in left THEN <<>> ELSE Pieces(k, 1, b)
      /\ Pieces(k, 1, b) \in Seq(Tokens)
  <2>1. Pieces(k, 1, a) \o SubSeq(Pieces(k, i + 1, f), s + 1, s + n) = Pieces(k, 1, b)
    <3>1. PICK first, l, m : first = i + 1 /\ l = s + 1 /\ m = s + n
      OBVIOUS
    <3>2. Joins(first, f, l, m, a, b)
      BY <1>3, <1>4, <3>1 DEF Joins
    <3>3. Joined(Pieces(k, 1, a), Pieces(k, first, f), l, m) = Pieces(k, 1, b)
      BY <3>2, PiecesJoin
    <3> QED BY <3>1, <3>3 DEF Joined
  <2>2. /\ received[client(k)] = IF client(k) \in left THEN <<>> ELSE Pieces(k, 1, a)
        /\ buffer[k] = Pieces(k, i + 1, f)
    BY <1>1, <1>3, <1>4 DEF Progress
  <2>3. Pieces(k, 1, b) \in Seq(Tokens)
    BY AnswerType
  <2> QED BY <1>1, <1>2, <1>3, <2>1, <2>2, <2>3 DEF BufferTypeOK
<1>7. BufferTypeOK'
  <2>1. sent' \in [Connections -> Nat]
    BY <1>1, <1>2, <1>3 DEF BufferTypeOK
  <2>2. received' \in [Sockets -> Seq(Tokens)]
    BY <1>1, <1>2, <1>6 DEF BufferTypeOK
  <2> QED BY <1>1, <1>5, <2>1, <2>2 DEF BufferTypeOK
<1>8. ASSUME NEW j \in Connections \ {k} PROVE Progress(j)'
  BY <1>5, ProgressKept DEF RelayInv
<1>9. Progress(k)'
  <2>1. /\ request[k] \in Requests[k] \cup {NULL}
        /\ buffer[k] = Pieces(k, f - t + 1, f)
    BY <1>1, <1>3 DEF Progress
  <2>2. IsPrefix(Pieces(k, 1, b), Pieces(k, 1, f)) /\ IsPrefix(<<>>, Pieces(k, 1, f))
    BY <1>4, PiecesPrefix, AnswerType, EmptyPrefix
  <2>3. IsPrefix(received'[client(k)], Pieces(k, 1, f))
    BY <1>6, <2>2
  <2>4. f - t + (s + n) = b /\ (s + n >= t => b = f)
    BY <1>3, <1>4
  <2>5. pc'[k] \notin Unread /\ pc'[k] \notin Unsent /\ pc'[k] # "send"
    BY <1>5 DEF Unread, Unsent
  <2> QED BY <1>3, <1>5, <1>6, <2>1, <2>3, <2>4, <2>5 DEF Progress
<1> QED BY <1>7, <1>8, <1>9 DEF RelayInv

LEMMA ReturnRelay ==
    ASSUME TableTypeOK, RelayInv, NEW k \in Connections, Return(k), mute' = mute, dead' = dead
    PROVE  RelayInv'
<1>1. /\ BufferTypeOK /\ client(k) \in Sockets /\ remote(k) \in Sockets
      /\ Pieces(k, 1, 0) = <<>>
  BY SocketFacts, AnswerType DEF RelayInv
<1>2. BufferTypeOK'
  <2>1. <<>> \in Seq(Tokens) /\ 0 \in 0 .. MaxPieces
    BY ProxyConstantsOK
  <2>2. received' \in [Sockets -> Seq(Tokens)] /\ left' \subseteq Sockets
    BY <1>1, <2>1 DEF BufferTypeOK, Return
  <2>3. /\ buffer' \in [Connections -> Seq(Tokens)] /\ fetched' \in [Connections -> 0 .. MaxPieces]
        /\ request' \in [Connections -> AllRequests \cup {NULL}]
    BY <1>1, <2>1 DEF BufferTypeOK, Return
  <2>4. total' \in [Connections -> Nat] /\ sent' \in [Connections -> Nat]
    BY <1>1 DEF BufferTypeOK, Return
  <2> QED BY <1>1, <2>2, <2>3, <2>4 DEF BufferTypeOK
<1>3. ASSUME NEW j \in Connections \ {k} PROVE Progress(j)'
  <2>1. /\ client(j) \in Sockets /\ remote(j) \in Sockets
        /\ client(j) \notin {client(k), remote(k)} /\ remote(j) \notin {client(k), remote(k)}
    BY SocketFacts
  <2>2. /\ pc'[j] = pc[j] /\ request'[j] = request[j] /\ buffer'[j] = buffer[j]
        /\ total'[j] = total[j] /\ sent'[j] = sent[j] /\ fetched'[j] = fetched[j]
    BY <1>1 DEF Return, Goto, TableTypeOK, BufferTypeOK
  <2>3. /\ received'[client(j)] = received[client(j)]
        /\ received'[remote(j)] = received[remote(j)]
        /\ client(j) \in left' <=> client(j) \in left
        /\ remote(j) \in left' <=> remote(j) \in left
    BY <1>1, <2>1 DEF Return, BufferTypeOK
  <2>4. Progress(j)
    BY DEF RelayInv
  <2> QED BY <2>2, <2>3, <2>4, ProgressKept
<1>4. Progress(k)'
  <2>1. /\ pc'[k] = "gone" /\ request'[k] = NULL /\ total'[k] = 0 /\ sent'[k] = 0
        /\ fetched'[k] = 0 /\ received'[client(k)] = <<>>
    BY <1>1, SocketFacts DEF Return, Goto, TableTypeOK, BufferTypeOK
  <2>2. IsPrefix(<<>>, Pieces(k, 1, 0))
    BY AnswerType, EmptyPrefix
  <2> QED BY <2>1, <2>2 DEF Progress, Unread, Unsent
<1> QED BY <1>2, <1>3, <1>4 DEF RelayInv

LEMMA CloseRelay ==
    ASSUME FdInv, RelayInv, NEW k \in Connections, CloseClient(k) \/ CloseRemote(k)
    PROVE  RelayInv'
<1>1. TableTypeOK /\ mute' = mute /\ dead' = dead
  BY DEF FdInv, CloseClient, CloseRemote
<1>2. CASE Return(k)
  BY <1>1, <1>2, ReturnRelay
<1>3. CASE ~Return(k)
  <2>1. pc[k] = "close_client" /\ Goto(k, "close_remote")
    BY <1>3 DEF CloseClient, CloseRemote
  <2>2. UNCHANGED <<requestVars, bufferVars, peerVars, dead>>
    BY <1>1, <1>3 DEF CloseClient, CloseRemote, peerVars
  <2>3. Moves(pc[k], "close_remote")
    BY DEF Moves, Relaying, Unread, Unsent
  <2> QED BY <1>1, <2>1, <2>2, <2>3, RelayMoves
<1> QED BY <1>2, <1>3

LEMMA PeerLeavesRelay ==
    ASSUME FdInv, RelayInv, NEW s \in Sockets, PeerLeaves(s)
    PROVE  RelayInv'
<1>1. PICK k \in Connections : k = s.conn
  BY SocketFacts
<1>2. /\ BufferTypeOK /\ Progress(k)
      /\ \/ s = client(k) /\ pc[k] = "relay_write"
         \/ s = remote(k) /\ pc[k] = "send"
  BY <1>1, SocketFacts DEF RelayInv, PeerLeaves
<1>3. /\ pc' = pc /\ request' = request /\ buffer' = buffer /\ total' = total
      /\ sent' = sent /\ fetched' = fetched /\ mute' = mute /\ dead' = dead
      /\ left' = left \cup {s} /\ received'[s] = <<>>
      /\ \A r \in Sockets \ {s} : received'[r] = received[r]
  BY <1>2 DEF PeerLeaves, requestVars, bufferVars, BufferTypeOK
<1>4. BufferTypeOK'
  BY <1>2, <1>3 DEF BufferTypeOK, PeerLeaves
<1>5. ASSUME NEW j \in Connections \ {k} PROVE Progress(j)'
  <2>1. /\ client(j) \in Sockets /\ remote(j) \in Sockets
        /\ client(j) # s /\ remote(j) # s
    BY <1>2, SocketFacts
  <2>2. Progress(j)
    BY DEF RelayInv
  <2> QED BY <1>3, <2>1, <2>2, ProgressKept
<1>6. Progress(k)'
  <2>1. IsPrefix(<<>>, Pieces(k, 1, fetched[k]))
    <3>1. PICK f \in Nat : f = fetched[k]
      BY <1>2, ProxyConstantsOK DEF BufferTypeOK
    <3> QED BY <3>1, AnswerType, EmptyPrefix
  <2>2. client(k) \in Sockets /\ remote(k) \in Sockets /\ client(k) # remote(k)
    BY SocketFacts
  <2> QED BY <1>2, <1>3, <2>1, <2>2 DEF Progress, Unread, Unsent
<1> QED BY <1>4, <1>5, <1>6 DEF RelayInv

LEMMA RelayNext == FdInv /\ RelayInv /\ [Next]_vars => RelayInv'
<1>1. SUFFICES ASSUME FdInv, RelayInv, [Next]_vars PROVE RelayInv'
  OBVIOUS
<1>2. CASE MainStep
  BY <1>1, <1>2, MainRelay
<1>3. CASE \E k \in Connections : HandlerStep(k)
  <2>1. PICK k \in Connections : HandlerStep(k)
    BY <1>3
  <2>2. CASE SigPipe(k)
    BY <1>1, <2>2, RelayUnchanged DEF SigPipe
  <2> QED BY <1>1, <2>1, <2>2, QuietRelay, ReadRequestRelay, ParseRelay, ConnectRelay,
             SendRelay, RelayReadRelay, RelayWriteRelay, CloseRelay DEF HandlerStep
<1>4. CASE \E s \in Sockets : PeerLeaves(s)
  BY <1>1, <1>4, PeerLeavesRelay
<1>5. CASE Resting \/ UNCHANGED vars
  <2>1. UNCHANGED <<pc, requestVars, bufferVars, peerVars>> /\ dead' = dead
    BY <1>5 DEF Resting, vars
  <2> QED BY <1>1, <2>1, RelayUnchanged DEF RelayInv, BufferTypeOK
<1> QED BY <1>1, <1>2, <1>3, <1>4, <1>5 DEF Next

LEMMA RelayInit == Init => RelayInv
<1>1. SUFFICES ASSUME Init PROVE RelayInv
  OBVIOUS
<1>2. BufferTypeOK
  <2>1. <<>> \in Seq(Tokens) /\ 0 \in 0 .. MaxPieces
    BY ProxyConstantsOK
  <2> QED BY <1>1, <2>1 DEF Init, BufferTypeOK
<1>3. ASSUME NEW k \in Connections PROVE Progress(k)
  <2>1. IsPrefix(<<>>, Pieces(k, 1, 0))
    BY AnswerType, EmptyPrefix
  <2>2. /\ pc[k] = "pending" /\ request[k] = NULL /\ total[k] = 0 /\ sent[k] = 0
        /\ fetched[k] = 0 /\ received[client(k)] = <<>> /\ received[remote(k)] = <<>>
    BY <1>1, SocketFacts DEF Init
  <2> QED BY <2>1, <2>2 DEF Progress, Unread, Unsent
<1> QED BY <1>2, <1>3 DEF RelayInv

LEMMA RelayKept == Safe => [](FdInv /\ RelayInv)
<1>1. Init => FdInv /\ RelayInv
  BY FdInit, RelayInit
<1>2. FdInv /\ RelayInv /\ [Next]_vars => (FdInv /\ RelayInv)'
  BY FdNext, RelayNext
<1> QED BY <1>1, <1>2, PTL DEF Safe

-----------------------------------------------------------------------------
(* What the relay promises                                                 *)

\* The type invariant, with what the loops on write() never exceed.
THEOREM TypeCorrect == Safe => []TypeOK
<1>1. FdInv /\ RelayInv => TypeOK
  <2>1. SUFFICES ASSUME FdInv, RelayInv PROVE TypeOK
    OBVIOUS
  <2>2. TableTypeOK /\ BufferTypeOK /\ \A k \in Connections : Progress(k)
    BY <2>1 DEF FdInv, RelayInv
  <2>3. ASSUME NEW k \in Connections
        PROVE  request[k] \in Requests[k] \cup {NULL} /\ total[k] \in Nat /\ sent[k] \in 0 .. total[k]
    BY <2>2 DEF BufferTypeOK, Progress
  <2> QED BY <2>2, <2>3 DEF TypeOK, TableTypeOK, BufferTypeOK
<1> QED BY RelayKept, <1>1, PTL

\* Whatever reads and writes are partial, whoever goes away and however the
\* threads interleave, a server has a part of its own connection's request and a
\* client the pieces of its own answer in their order (the loops on read() and
\* write() in handle_client, which share neither a buffer nor a descriptor).
THEOREM BytesArriveInOrder == Safe => []RelayFaithful
<1>1. FdInv /\ RelayInv => RelayFaithful
  <2>1. SUFFICES ASSUME RelayInv, NEW k \in Connections
                 PROVE  /\ pc[k] = "send" => IsPrefix(received[remote(k)], buffer[k])
                        /\ IsPrefix(received[client(k)], Pieces(k, 1, fetched[k]))
                        /\ pc[k] = "relay_read" /\ client(k) \notin left =>
                              received[client(k)] = Pieces(k, 1, fetched[k])
    BY DEF RelayFaithful
  <2>2. BufferTypeOK /\ Progress(k)
    BY <2>1 DEF RelayInv
  <2>3. CASE pc[k] = "send"
    <3>1. PICK b \in Seq(Tokens), s \in Nat : b = buffer[k] /\ s = sent[k] /\ s <= Len(b)
      BY <2>2, <2>3 DEF BufferTypeOK, Progress
    <3>2. IsPrefix(SubSeq(b, 1, s), b) /\ IsPrefix(<<>>, b)
      <4>1. SubSeq(b, 1, s) = SubSeq(SubSeq(b, 1, s), 1, Len(SubSeq(b, 1, s)))
        BY <3>1
      <4>2. Len(SubSeq(b, 1, s)) = s
        BY <3>1
      <4> QED BY <3>1, <4>1, <4>2, EmptyPrefix DEF IsPrefix
    <3> QED BY <2>2, <2>3, <3>1, <3>2 DEF Progress
  <2> QED BY <2>2, <2>3 DEF Progress
<1> QED BY RelayKept, <1>1, PTL

-----------------------------------------------------------------------------
(* What a server gets                                                      *)

\* When the whole request has been sent, its server has the edited text, as many
\* tokens of it as the client's text had: a shorter one is followed by what the
\* client's text has left in the buffer, a longer one is cut off (handle_client
\* sends total_read bytes, which it counted before the edits).
SentOf(q) == SubSeq(Padded(EditedOf[q], Len(TextOf[q])), 1, Len(TextOf[q]))

RequestArrives ==
    \A k \in Connections :
        pc[k] = "relay_read" /\ remote(k) \notin left => received[remote(k)] = SentOf(request[k])

\* From the read of the request to its last write, the length is that of the
\* client's text and the buffer that of the edits; then the server has it all.
Sending == {"parse", "resolve", "socket", "connect", "send"}

Arriving(k) ==
    LET q == request[k] IN
    /\ pc[k] \in Sending \cup Relaying => q \in Requests[k]
    /\ pc[k] \in Sending => total[k] = Len(TextOf[q])
    /\ pc[k] = "send" => buffer[k] = Padded(EditedOf[q], Len(TextOf[q]))
    /\ pc[k] \in Relaying /\ remote(k) \notin left => received[remote(k)] = SentOf(q)

ArriveInv == \A k \in Connections : Arriving(k)

\* The steps after which no more is to be known of a connection than before.
LEMMA ArrivingKept ==
    ASSUME NEW j \in Connections, Arriving(j), request'[j] = request[j],
           \/ pc'[j] \notin Relaying \cup Sending
           \/ /\ pc'[j] = pc[j] \/ (pc'[j] \in Sending \ {"send"} /\ pc[j] \in Sending)
              /\ total'[j] = total[j]
              /\ buffer'[j] = buffer[j] \/ pc'[j] # "send"
              /\ received'[remote(j)] = received[remote(j)]
              /\ remote(j) \in left => remote(j) \in left'
           \/ /\ {pc[j], pc'[j]} \subseteq Relaying
              /\ received'[remote(j)] = received[remote(j)]
              /\ remote(j) \in left => remote(j) \in left'
    PROVE  Arriving(j)'
  BY DEF Arriving, Sending, Relaying

\* A thread writes into no other's buffer, and to no other's sockets.
LEMMA OthersKept ==
    ASSUME FdInv, RelayInv, NEW k \in Connections, HandlerStep(k),
           NEW j \in Connections \ {k}
    PROVE  /\ pc'[j] = pc[j] /\ request'[j] = request[j] /\ buffer'[j] = buffer[j]
           /\ total'[j] = total[j] /\ received'[remote(j)] = received[remote(j)]
           /\ remote(j) \in left' <=> remote(j) \in left
<1>1. /\ TableTypeOK /\ BufferTypeOK /\ remote(j) \in Sockets /\ client(k) \in Sockets
      /\ remote(k) \in Sockets
      /\ remote(j) \notin {client(k), remote(k)}
  BY SocketFacts DEF FdInv, RelayInv
<1>2. CASE Send(k) \/ RelayWrite(k)
  <2>1. PICK fd \in {remote_sock_fd[k], client_sock_fd[k]}, step \in {SendStep, 1} :
           /\ WriteSome(k, fd, step)
           /\ table[fd] \in {client(k), remote(k)}
    BY <1>2 DEF Send, RelayWrite, FdInv, ThreadInv, HoldsClient, HoldsRemote, PCs
  <2>2. received'[remote(j)] = received[remote(j)]
    BY <1>1, <2>1 DEF WriteSome, BufferTypeOK
  <2> QED
    BY <1>1, <1>2, <2>2
       DEF Send, RelayWrite, WrittenThen, Goto, requestVars, TableTypeOK, BufferTypeOK
<1>3. CASE CloseClient(k) \/ CloseRemote(k)
  BY <1>1, <1>3
     DEF CloseClient, CloseRemote, Return, Goto, requestVars, bufferVars, TableTypeOK,
         BufferTypeOK
<1>4. CASE \/ Start(k) \/ ReadRequest(k) \/ ReadRequestFails(k) \/ Parse(k) \/ ParseFails(k)
           \/ ResolveHost(k) \/ Socket(k) \/ Connect(k) \/ ConnectFails(k) \/ SendFails(k)
           \/ RelayRead(k) \/ RelayEnd(k) \/ RelayFails(k) \/ SigPipe(k)
  <2>1. received' = received /\ left' = left
    BY <1>4 DEF Start, ReadRequest, ReadRequestFails, Parse, ParseFails, ResolveHost, Socket,
         Connect, ConnectFails, SendFails, RelayRead, RelayEnd, RelayFails, SigPipe, peerVars
  <2>2. /\ pc'[j] = pc[j] /\ request'[j] = request[j] /\ buffer'[j] = buffer[j]
        /\ total'[j] = total[j]
    BY <1>1, <1>4
       DEF Start, ReadRequest, ReadRequestFails, Parse, ParseFails, ResolveHost, Socket,
           Connect, ConnectFails, SendFails, RelayRead, RelayEnd, RelayFails, SigPipe, Goto,
           requestVars, bufferVars, TableTypeOK, BufferTypeOK
  <2> QED BY <2>1, <2>2
<1> QED BY <1>2, <1>3, <1>4 DEF HandlerStep

\* The thread's own steps.
LEMMA OwnArrives ==
    ASSUME FdInv, RelayInv, NEW k \in Connections, HandlerStep(k), Arriving(k)
    PROVE  Arriving(k)'
<1>1. /\ TableTypeOK /\ BufferTypeOK /\ Progress(k)
      /\ client(k) \in Sockets /\ remote(k) \in Sockets /\ client(k) # remote(k)
  BY SocketFacts DEF FdInv, RelayInv
<1>2. CASE ReadRequest(k)
  BY <1>1, <1>2 DEF ReadRequest, Goto, Arriving, Sending, Relaying, TableTypeOK, BufferTypeOK
<1>3. CASE Parse(k)
  BY <1>1, <1>3
     DEF Parse, Goto, requestVars, Arriving, Sending, Relaying, TableTypeOK, BufferTypeOK
<1>4. CASE Connect(k)
  BY <1>1, <1>4
     DEF Connect, Goto, requestVars, Arriving, Sending, Relaying, TableTypeOK, BufferTypeOK
<1>5. CASE Send(k)
  <2>p. PICK s \in Nat, t \in Nat, n \in Nat, b \in Seq(Tokens) : SendsOn(k, s, t, n, b)
    BY <1>5, SendsPart
  <2>1. /\ t = total[k] /\ b = buffer[k] /\ s + n <= t
        /\ received'[remote(k)] = IF remote(k) \in left THEN <<>> ELSE SubSeq(b, 1, s + n)
        /\ pc'[k] = IF s + n >= t THEN "relay_read" ELSE "send"
        /\ request' = request /\ buffer' = buffer /\ total' = total /\ left' = left
    BY <2>p DEF SendsOn
  <2>2. /\ pc[k] = "send" /\ request[k] \in Requests[k] /\ t = Len(TextOf[request[k]])
        /\ b = Padded(EditedOf[request[k]], t)
    <3>1. pc[k] = "send"
      BY <1>5 DEF Send
    <3>2. /\ request[k] \in Requests[k] /\ total[k] = Len(TextOf[request[k]])
          /\ buffer[k] = Padded(EditedOf[request[k]], Len(TextOf[request[k]]))
      BY <3>1 DEF Arriving, Sending
    <3> QED BY <2>1, <3>1, <3>2
  <2>3. CASE s + n >= t
    <3>1. s + n = t
      BY <2>1, <2>3
    <3>2. remote(k) \notin left => received'[remote(k)] = SentOf(request[k])
      BY <2>1, <2>2, <3>1 DEF SentOf
    <3> QED BY <2>1, <2>2, <2>3, <3>2 DEF Arriving, Sending, Relaying, SentOf
  <2>4. CASE ~ (s + n >= t)
    BY <2>1, <2>2, <2>4 DEF Arriving, Sending, Relaying
  <2> QED BY <2>3, <2>4
<1>6. CASE RelayRead(k) \/ RelayWrite(k)
  <2>1. /\ pc[k] \in Relaying /\ pc'[k] \in Relaying
        /\ request' = request /\ left' = left
    BY <1>1, <1>6
       DEF RelayRead, RelayWrite, WrittenThen, Goto, requestVars, Relaying, TableTypeOK
  <2>2. received'[remote(k)] = received[remote(k)]
    <3>1. CASE RelayRead(k)
      BY <3>1 DEF RelayRead
    <3>2. CASE RelayWrite(k)
      <4>1. table[client_sock_fd[k]] = client(k)
        BY <3>2 DEF RelayWrite, FdInv, ThreadInv, HoldsClient, PCs
      <4> QED BY <1>1, <3>2, <4>1 DEF RelayWrite, WriteSome, BufferTypeOK
    <3> QED BY <1>6, <3>1, <3>2
  <2> QED BY <2>1, <2>2 DEF Arriving, Relaying, Sending, SentOf
<1>7. CASE \/ Start(k) \/ ReadRequestFails(k) \/ ParseFails(k) \/ ResolveHost(k) \/ Socket(k)
           \/ ConnectFails(k) \/ SendFails(k) \/ RelayEnd(k) \/ RelayFails(k)
  <2>1. /\ request' = request /\ total' = total /\ buffer' = buffer
        /\ received' = received /\ left' = left
    BY <1>7 DEF Start, ReadRequestFails, ParseFails, ResolveHost, Socket, ConnectFails,
         SendFails, RelayEnd, RelayFails, requestVars, bufferVars, peerVars
  <2>2. \/ pc'[k] \in {"read_request", "close_client"}
        \/ pc[k] \in {"resolve", "socket"} /\ pc'[k] \in {"socket", "connect"}
    BY <1>1, <1>7 DEF Start, ReadRequestFails, ParseFails, ResolveHost, Socket, ConnectFails,
         SendFails, RelayEnd, RelayFails, Goto, TableTypeOK
  <2> QED BY <2>1, <2>2 DEF Arriving, Sending, Relaying
<1>8. CASE SigPipe(k)
  BY <1>8 DEF SigPipe, requestVars, bufferVars, peerVars, Arriving, SentOf
<1>9. CASE CloseClient(k) \/ CloseRemote(k)
  <2>1. pc'[k] \in {"gone", "close_remote"}
    BY <1>1, <1>9 DEF CloseClient, CloseRemote, Return, Goto, TableTypeOK
  <2> QED BY <2>1 DEF Arriving, Sending, Relaying
<1> QED BY <1>2, <1>3, <1>4, <1>5, <1>6, <1>7, <1>8, <1>9 DEF HandlerStep

LEMMA ArriveNext == FdInv /\ RelayInv /\ ArriveInv /\ [Next]_vars => ArriveInv'
<1>1. SUFFICES ASSUME FdInv, RelayInv, ArriveInv, [Next]_vars, NEW j \in Connections
               PROVE  Arriving(j)'
  BY DEF ArriveInv
<1>2. /\ TableTypeOK /\ BufferTypeOK /\ Progress(j) /\ Arriving(j)
      /\ \A k \in Connections : client(k) \in Sockets /\ remote(k) \in Sockets
  BY <1>1, SocketFacts DEF FdInv, RelayInv, ArriveInv
<1>3. CASE MainStep
  <2>1. /\ request' = request /\ buffer' = buffer /\ total' = total
        /\ received' = received /\ left' = left
    BY <1>3 DEF MainStep, Accept, AcceptFails, AllocArg, AllocArgFails, CreateThread,
         CreateThreadFails, CloseRefused, requestVars, bufferVars, peerVars, vars
  <2>2. pc'[j] = pc[j] \/ pc'[j] \in {"accepted", "gone", "start"}
    BY <1>2, <1>3 DEF MainStep, Accept, AcceptFails, AllocArg, AllocArgFails, CreateThread,
         CreateThreadFails, CloseRefused, Goto, TableTypeOK, vars
  <2>3. pc'[j] = pc[j] \/ pc'[j] \notin Relaying \cup Sending
    BY <2>2 DEF Relaying, Sending
  <2> QED BY <1>2, <2>1, <2>3, ArrivingKept
<1>4. CASE \E k \in Connections : HandlerStep(k)
  <2>1. PICK k \in Connections : HandlerStep(k)
    BY <1>4
  <2>2. CASE k # j
    BY <1>1, <1>2, <2>1, <2>2, OthersKept, ArrivingKept
  <2>3. CASE k = j
    BY <1>1, <1>2, <2>1, <2>3, OwnArrives
  <2> QED BY <2>2, <2>3
<1>5. CASE \E s \in Sockets : PeerLeaves(s)
  <2>1. PICK s \in Sockets : PeerLeaves(s)
    BY <1>5
  <2>2. /\ pc' = pc /\ request' = request /\ buffer' = buffer /\ total' = total
        /\ left' = left \cup {s} /\ received' = [received EXCEPT ![s] = <<>>]
    BY <2>1 DEF PeerLeaves, requestVars, bufferVars
  <2>3. CASE s = remote(j)
    BY <1>2, <2>2, <2>3 DEF Arriving
  <2>4. CASE s # remote(j)
    <3>1. received'[remote(j)] = received[remote(j)]
      BY <1>2, <2>2, <2>4 DEF BufferTypeOK
    <3> QED BY <1>2, <2>2, <3>1 DEF Arriving
  <2> QED BY <2>3, <2>4
<1>6. CASE Resting \/ UNCHANGED vars
  BY <1>2, <1>6 DEF Resting, vars, requestVars, bufferVars, peerVars, Arriving
<1> QED BY <1>1, <1>3, <1>4, <1>5, <1>6 DEF Next

LEMMA ArriveInit == Init => ArriveInv
  BY DEF Init, ArriveInv, Arriving, Sending, Relaying

LEMMA ArriveKept == Safe => []ArriveInv
<1>1. Init => FdInv /\ RelayInv /\ ArriveInv
  BY FdInit, RelayInit, ArriveInit
<1>2. FdInv /\ RelayInv /\ ArriveInv /\ [Next]_vars => (FdInv /\ RelayInv /\ ArriveInv)'
  BY FdNext, RelayNext, ArriveNext
<1> QED BY <1>1, <1>2, PTL DEF Safe

\* A server receives the edited request of its own connection, token by token,
\* whatever was sent in how many writes; of a shorter text, followed by left-over
\* bytes, of a longer one, cut off (the loop on write() in handle_client).
THEOREM ServerGetsEdited == Safe => []RequestArrives
<1>1. ArriveInv => RequestArrives
  BY DEF ArriveInv, Arriving, RequestArrives, Relaying
<1> QED BY ArriveKept, <1>1, PTL

\* That the edits of a text alone do as they are meant to with the plain requests,
\* and with these only, as far as a request does not grow.
EditsAsMeant ==
    \A q \in AllRequests :
        Len(EditedOf[q]) <= Len(TextOf[q]) =>
            ((Lines(Padded(EditedOf[q], Len(TextOf[q]))) = MeantLines(q)) <=> Plain(q))

\* Partial writes, other threads, failures and peers that leave change nothing of
\* what a request's edits mean for its server: what holds of the texts that clients
\* may send holds of the requests as they arrive.
THEOREM EditsDecide == ASSUME EditsAsMeant PROVE Safe => []RequestAsMeant
<1>1. ArriveInv => RequestAsMeant
  <2>1. SUFFICES ASSUME ArriveInv, NEW k \in Connections,
                        pc[k] = "relay_read", remote(k) \notin left,
                        Len(EditedOf[request[k]]) <= Len(TextOf[request[k]])
                 PROVE  (Lines(received[remote(k)]) = MeantLines(request[k])) <=> Plain(request[k])
    BY DEF RequestAsMeant
  <2>2. PICK q \in Requests[k] : q = request[k]
    BY <2>1 DEF ArriveInv, Arriving, Relaying
  <2>3. PICK e \in Seq(Tokens), n \in Nat : e = EditedOf[q] /\ n = Len(TextOf[q])
    BY TextTypes
  <2>4. Padded(e, n) \in Seq(Tokens) /\ Len(Padded(e, n)) = n
    <3>1. Len(e) <= n /\ "stale" \in Tokens
      BY <2>1, <2>2, <2>3 DEF Tokens
    <3> QED BY <3>1, PaddedType
  <2>5. SubSeq(Padded(e, n), 1, n) = Padded(e, n)
    BY <2>4
  <2>6. received[remote(k)] = Padded(EditedOf[q], Len(TextOf[q]))
    BY <2>1, <2>2, <2>3, <2>5 DEF ArriveInv, Arriving, Relaying, SentOf
  <2>7. q \in AllRequests
    BY TextTypes
  <2> QED BY <2>1, <2>2, <2>6, <2>7 DEF EditsAsMeant
<1> QED BY ArriveKept, <1>1, PTL

\* An ordinary request that does not grow arrives as it is meant to: with a path
\* for a URL, HTTP/1.1, Connection: close and every other header as the client
\* wrote it, whatever stale bytes the buffer holds behind it.
OrdinaryAsMeant ==
    \A k \in Connections :
        LET q == request[k] IN
        /\ pc[k] = "relay_read"
        /\ remote(k) \notin left
        /\ Len(EditedOf[q]) <= Len(TextOf[q])
        /\ Ordinary(q)
        => Plain(q) /\ Lines(received[remote(k)]) = MeantLines(q)

LEMMA OrdinaryTexts ==
    ASSUME NEW k \in Connections, NEW q \in Requests[k], Ordinary(q),
           Len(EditedOf[q]) <= Len(TextOf[q])
    PROVE  Plain(q) /\ Lines(SentOf(q)) = MeantLines(q)
<1>1. Vocabulary \subseteq Tokens
  BY DEF Tokens
<1>2. q \in RequestsOf(Tokens) /\ q \in AllRequests
  BY TextTypes
<1> HIDE DEF Tokens
<1>3. Plain(q)
  BY <1>1, <1>2, OrdinaryIsPlain
<1>4. PICK e \in Seq(Tokens), n \in Nat : e = EditedOf[q] /\ e = Edited(q) /\ n = Len(TextOf[q])
  <2>1. EditedOf[q] \in Seq(Tokens) /\ TextOf[q] \in Seq(Tokens)
    BY TextTypes
  <2>2. Len(TextOf[q]) \in Nat
    BY <2>1
  <2>3. EditedOf[q] = Edited(q)
    BY <1>2 DEF EditedOf
  <2> QED BY <2>1, <2>2, <2>3
<1>5. PICK junk \in Seq(Tokens) : Padded(e, n) = e \o junk
  <2>1. "stale" \in Tokens
    BY DEF Tokens
  <2>2. PadsOut(Tokens, e, n)
    BY <2>1, PaddedParts
  <2> QED BY <2>2 DEF PadsOut
<1>6. Len(Padded(e, n)) = n /\ Padded(e, n) \in Seq(Tokens)
  <2>1. Len(e) <= n /\ "stale" \in Tokens
    BY <1>4 DEF Tokens
  <2> QED BY <2>1, PaddedType
<1>7. SubSeq(Padded(e, n), 1, n) = Padded(e, n)
  BY <1>6
<1>8. SentOf(q) = Edited(q) \o junk
  BY <1>4, <1>5, <1>7 DEF SentOf
<1>9. Lines(Edited(q) \o junk) = MeantLines(q)
  BY <1>1, <1>2, OrdinaryEdits
<1> QED BY <1>3, <1>8, <1>9

\* Of an ordinary request that does not grow, the server reads what it is meant to.
THEOREM OrdinaryArrives == Safe => []OrdinaryAsMeant
<1>1. ArriveInv => OrdinaryAsMeant
  <2>1. SUFFICES ASSUME ArriveInv, NEW k \in Connections,
                        pc[k] = "relay_read", remote(k) \notin left,
                        Len(EditedOf[request[k]]) <= Len(TextOf[request[k]]),
                        Ordinary(request[k])
                 PROVE  Plain(request[k]) /\ Lines(received[remote(k)]) = MeantLines(request[k])
    BY DEF OrdinaryAsMeant
  <2>2. PICK q \in Requests[k] : q = request[k]
    BY <2>1 DEF ArriveInv, Arriving, Relaying
  <2>3. received[remote(k)] = SentOf(q)
    BY <2>1, <2>2 DEF ArriveInv, Arriving, Relaying
  <2> QED BY <2>1, <2>2, <2>3, OrdinaryTexts
<1> QED BY ArriveKept, <1>1, PTL

\* With clients that send ordinary requests, the edits do what they are for.
THEOREM OrdinaryDecides ==
    ASSUME \A q \in AllRequests : Len(EditedOf[q]) <= Len(TextOf[q]) => Ordinary(q)
    PROVE  Safe => []RequestAsMeant
<1>1. ArriveInv /\ OrdinaryAsMeant => RequestAsMeant
  <2>1. SUFFICES ASSUME ArriveInv, OrdinaryAsMeant, NEW k \in Connections,
                        pc[k] = "relay_read", remote(k) \notin left,
                        Len(EditedOf[request[k]]) <= Len(TextOf[request[k]])
                 PROVE  (Lines(received[remote(k)]) = MeantLines(request[k])) <=> Plain(request[k])
    BY DEF RequestAsMeant
  <2>2. PICK q \in Requests[k] : q = request[k]
    BY <2>1 DEF ArriveInv, Arriving, Relaying
  <2>3. Ordinary(q)
    BY <2>1, <2>2, TextTypes
  <2> QED BY <2>1, <2>2, <2>3 DEF OrdinaryAsMeant
<1> QED BY ArriveKept, OrdinaryArrives, <1>1, PTL

=============================================================================
