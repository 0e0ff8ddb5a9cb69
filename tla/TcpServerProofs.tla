--------------------------- MODULE TcpServerProofs --------------------------
(***************************************************************************)
(* Proofs about the TCP server, for every number of connections, slots,    *)
(* sockets, commands and failures.                                         *)
(***************************************************************************)
EXTENDS TcpServer, Induction, FiniteSetTheorems, SequenceTheorems, TLAPS

(***************************************************************************)
(* The inductive invariant.                                                *)
(***************************************************************************)

\* One connection: where the packets that wait end, in their order and after what has
\* been read; and as long as none ended inside a command, what has been handled is what
\* has been read.
PeerOK(p) ==
  /\ p.state \in {"idle", "queued", "open", "closed"}
  /\ p.pos \in 0..(2 * Words) /\ p.read \in 0..p.pos
  /\ p.rx \in Seq(Nat)
  /\ \A n \in 1..Len(p.rx) : p.read < p.rx[n] /\ p.rx[n] <= p.pos
  /\ \A m, n \in 1..Len(p.rx) : m < n => p.rx[m] < p.rx[n]
  /\ ~p.cut => /\ p.read % 2 = 0
               /\ \A n \in 1..Len(p.rx) : p.rx[n] % 2 = 0
               /\ p.handled = [n \in 1..(p.read \div 2) |-> n]

Peer == [state : {"idle", "queued", "open", "closed"}, alive : BOOLEAN, pos : Nat,
         rx : Seq(Nat), eof : BOOLEAN, read : Nat, handled : Seq(Nat), cut : BOOLEAN]

PeersInv ==
  /\ peer \in [Conns -> Peer]
  /\ \A c \in Conns : PeerOK(peer[c])

\* The connections that wait are queued, each once.
BacklogInv ==
  /\ backlog \in Seq(Conns)
  /\ \A n \in 1..Len(backlog) : peer[backlog[n]].state = "queued"
  /\ \A m, n \in 1..Len(backlog) : m # n => backlog[m] # backlog[n]
  /\ tcp.step = "accept" => backlog # <<>>

\* lwIP's sockets: one listens, and no two are the same connection, an open one.
SocketsInv ==
  /\ sockets \in [FD -> Conns \cup {FREE, LISTEN}]
  /\ sockets[sock] = LISTEN
  /\ \A fd \in FD : sockets[fd] \in Conns => peer[sockets[fd]].state = "open"
  /\ \A fd, gd \in FD : sockets[fd] \in Conns /\ sockets[fd] = sockets[gd] => fd = gd

\* The numbers that tcpserv and SPI_DSP keep.
NumbersInv ==
  /\ client \in [Slots -> FD \cup {-1}]
  /\ maxi \in -1..(CLIENTS - 1)
  /\ connected \in FD \cup {-1}
  /\ g_i_connected_flag \in {0, 1} /\ g_i_connected_id \in FD
  /\ rset \subseteq FD /\ allset \subseteq FD
  /\ tcp \in [step : {"select", "accept", "close", "register", "clients"}, i : Nat]
  /\ spi \in [step : {"idle", "id", "send"}, id : FD]

\* The socket that is being accepted is in no slot yet.
New == IF tcp.step \in {"close", "register"} THEN {connected} ELSE {}

\* One slot at most is used, and none while the new connection is entered; the sockets in
\* use are the one of that slot and the new one; what is watched, the flag and the
\* identifier agree with the slot, and an answer can only go to it.
ClientsInv ==
  /\ \A i, j \in Used : i = j
  /\ tcp.step = "register" => Used = {}
  /\ tcp.step \in {"close", "register"} => connected \in FD
  /\ \A fd \in FD : sockets[fd] \in Conns <=> fd \in New \/ \E i \in Used : fd = client[i]
  /\ \A i \in Used : client[i] \notin New
  /\ allset = {sock} \cup {client[i] : i \in Used}
  /\ Used = {} => g_i_connected_flag = 0
  /\ \A i \in Used : g_i_connected_flag = 1 /\ g_i_connected_id = client[i]
  /\ tcp.step \notin {"close", "register"} =>
       \A i \in Used : connected \in {-1, client[i]}

IndInv ==
  PeersInv /\ BacklogInv /\ SocketsInv /\ NumbersInv /\ ClientsInv /\ AnswersReachClient

-----------------------------------------------------------------------------
\* The first of some slots or sockets is one of them.
LEMMA FirstOne ==
  ASSUME NEW T, T \subseteq Nat, T # {}
  PROVE  Min(T) \in T
<1>1. \E x \in T : \A y \in T : x <= y
  BY LeastNat
<1> QED
  BY <1>1 DEF Min

(***************************************************************************)
(* One connection                                                          *)
(***************************************************************************)
\* A connection with nothing sent or received.
LEMMA FreshPeer ==
  /\ NoPeer \in Peer /\ PeerOK(NoPeer)
  /\ Closed \in Peer /\ PeerOK(Closed)
<1>0. <<>> \in Seq(Nat)
  OBVIOUS
<1>1. NoPeer \in Peer /\ Closed \in Peer
  BY <1>0 DEF NoPeer, Closed, Peer
<1>2. ASSUME NEW p, p.pos = 0, p.read = 0, p.rx = <<>>, p.handled = <<>>,
             p.state \in {"idle", "closed"}
      PROVE  PeerOK(p)
  BY <1>2, TcpAssumption DEF PeerOK
<1> QED
  BY <1>1, <1>2 DEF NoPeer, Closed

\* A new packet ends after all that wait, and inside a command only if the history says so.
LEMMA DeliverPeer ==
  ASSUME NEW p \in Peer, PeerOK(p), NEW n \in Nat \ {0}, p.pos + n <= 2 * Words,
         NEW q \in Peer,
         q.state = p.state, q.pos = p.pos + n, q.rx = Append(p.rx, p.pos + n),
         q.cut <=> (p.cut \/ (p.pos + n) % 2 # 0),
         q.read = p.read, q.handled = p.handled
  PROVE  PeerOK(q)
<1>1. p.pos \in Nat /\ p.read \in 0..p.pos /\ p.rx \in Seq(Nat)
  BY DEF Peer, PeerOK
<1>2. q.pos \in 0..(2 * Words) /\ q.read \in 0..q.pos
  <2>1. Words \in Nat
    BY TcpAssumption
  <2>2. p.pos + n \in Nat /\ 2 * Words \in Nat
    BY <1>1, <2>1
  <2> QED
    BY <1>1, <2>2
<1>3. /\ q.rx \in Seq(Nat) /\ Len(q.rx) = Len(p.rx) + 1
      /\ q.rx[Len(p.rx) + 1] = p.pos + n
      /\ \A k \in 1..Len(p.rx) : q.rx[k] = p.rx[k]
  <2>1. p.pos + n \in Nat
    BY <1>1
  <2>2. ASSUME NEW s \in Seq(Nat), NEW x \in Nat
        PROVE  /\ Append(s, x) \in Seq(Nat) /\ Len(Append(s, x)) = Len(s) + 1
               /\ Append(s, x)[Len(s) + 1] = x
               /\ \A k \in 1..Len(s) : Append(s, x)[k] = s[k]
    OBVIOUS
  <2> QED
    BY <1>1, <2>1, <2>2
<1>4. Len(p.rx) \in Nat
  BY <1>1
<1>8. \A k \in 1..Len(q.rx) : k \in 1..Len(p.rx) \/ k = Len(p.rx) + 1
  BY <1>3, <1>4
<1>5. ASSUME NEW k \in 1..Len(q.rx)
      PROVE  q.read < q.rx[k] /\ q.rx[k] <= q.pos
  <2>1. CASE k \in 1..Len(p.rx)
    <3>1. p.read < p.rx[k] /\ p.rx[k] <= p.pos /\ p.rx[k] \in Nat
      BY <1>1, <2>1 DEF PeerOK
    <3> QED
      BY <1>1, <1>3, <2>1, <3>1
  <2>2. CASE k = Len(p.rx) + 1
    BY <1>1, <1>3, <2>2
  <2> QED
    BY <1>8, <2>1, <2>2
<1>6. ASSUME NEW k \in 1..Len(q.rx), NEW l \in 1..Len(q.rx), k < l
      PROVE  q.rx[k] < q.rx[l]
  <2>1. k \in 1..Len(p.rx)
    BY <1>3, <1>4, <1>6
  <2>2. CASE l \in 1..Len(p.rx)
    BY <1>3, <1>6, <2>1, <2>2 DEF PeerOK
  <2>3. CASE l = Len(p.rx) + 1
    <3>1. p.rx[k] <= p.pos /\ p.rx[k] \in Nat
      <4>1. \A m \in 1..Len(p.rx) : p.rx[m] <= p.pos
        BY DEF PeerOK
      <4>2. p.rx[k] \in Nat
        BY <1>1, <2>1
      <4> QED
        BY <2>1, <4>1, <4>2
    <3>2. p.rx[k] < p.pos + n
      BY <1>1, <3>1
    <3>3. q.rx[k] = p.rx[k] /\ q.rx[l] = p.pos + n
      BY <1>3, <2>1, <2>3
    <3> QED
      BY <3>2, <3>3
  <2> QED
    BY <1>8, <2>2, <2>3
<1>7. ~q.cut => /\ q.read % 2 = 0
                /\ \A k \in 1..Len(q.rx) : q.rx[k] % 2 = 0
                /\ q.handled = [k \in 1..(q.read \div 2) |-> k]
  BY <1>1, <1>3, <1>4 DEF PeerOK
<1> QED
  BY <1>2, <1>3, <1>5, <1>6, <1>7 DEF PeerOK

\* The commands of a chunk that begins and ends with a command follow the ones handled.
LEMMA WordsFollow ==
  ASSUME NEW from \in Nat, NEW to \in Nat, from <= to, from % 2 = 0, to % 2 = 0
  PROVE  [n \in 1..(from \div 2) |-> n] \o WordsOf(from, to - from)
           = [n \in 1..(to \div 2) |-> n]
<1>1. PICK a \in Nat, b \in Nat : from = 2 * a /\ to = 2 * b /\ a <= b
  <2>1. from = 2 * (from \div 2) /\ to = 2 * (to \div 2)
    OBVIOUS
  <2>2. from \div 2 \in Nat /\ to \div 2 \in Nat /\ from \div 2 <= to \div 2
    OBVIOUS
  <2> QED
    BY <2>1, <2>2
<1>2. /\ from \div 2 = a /\ to \div 2 = b
      /\ (to - from) % 2 = 0 /\ (to - from) \div 2 = b - a
  BY <1>1
<1>3. WordsOf(from, to - from) = [n \in 1..(b - a) |-> a + n]
  BY <1>1, <1>2 DEF WordsOf
<1> DEFINE s == [n \in 1..a |-> n]
           t == [n \in 1..(b - a) |-> a + n]
<1>4. s \in Seq(Nat) /\ Len(s) = a /\ t \in Seq(Nat) /\ Len(t) = b - a
  BY <1>1
<1>5. s \o t = [n \in 1..b |-> n]
  BY <1>1, <1>4
<1> QED
  BY <1>2, <1>3, <1>5

\* What is read is a number of packets, and they are handled once.
LEMMA ReadPeer ==
  ASSUME NEW p \in Peer, PeerOK(p), NEW n \in 1..Len(p.rx),
         NEW q \in Peer,
         q.state = p.state, q.pos = p.pos, q.rx = SubSeq(p.rx, n + 1, Len(p.rx)),
         q.read = p.rx[n], q.cut <=> p.cut,
         q.handled = p.handled \o WordsOf(p.read, p.rx[n] - p.read)
  PROVE  PeerOK(q)
<1>1. /\ p.pos \in Nat /\ p.read \in 0..p.pos /\ p.rx \in Seq(Nat) /\ Len(p.rx) \in Nat
      /\ p.rx[n] \in Nat /\ p.read < p.rx[n] /\ p.rx[n] <= p.pos
  BY DEF Peer, PeerOK
<1>2. q.pos \in 0..(2 * Words) /\ q.read \in 0..q.pos
  BY <1>1 DEF PeerOK
<1>3. /\ q.rx \in Seq(Nat) /\ Len(q.rx) = Len(p.rx) - n
      /\ \A k \in 1..Len(q.rx) : q.rx[k] = p.rx[n + k] /\ n + k \in 1..Len(p.rx)
  BY <1>1
<1>4. ASSUME NEW k \in 1..Len(q.rx)
      PROVE  q.read < q.rx[k] /\ q.rx[k] <= q.pos
  <2>1. n + k \in 1..Len(p.rx) /\ n < n + k /\ q.rx[k] = p.rx[n + k]
    BY <1>1, <1>3
  <2>2. p.rx[n] < p.rx[n + k] /\ p.rx[n + k] <= p.pos
    BY <2>1 DEF PeerOK
  <2> QED
    BY <2>1, <2>2
<1>5. \A k, l \in 1..Len(q.rx) : k < l => q.rx[k] < q.rx[l]
  BY <1>1, <1>3 DEF PeerOK
<1>6. ASSUME ~q.cut
      PROVE  /\ q.read % 2 = 0
             /\ \A k \in 1..Len(q.rx) : q.rx[k] % 2 = 0
             /\ q.handled = [k \in 1..(q.read \div 2) |-> k]
  <2>1. p.read % 2 = 0 /\ p.rx[n] % 2 = 0 /\ p.handled = [k \in 1..(p.read \div 2) |-> k]
    BY <1>6 DEF PeerOK
  <2>2. q.handled = [k \in 1..(q.read \div 2) |-> k]
    <3>1. [k \in 1..(p.read \div 2) |-> k] \o WordsOf(p.read, p.rx[n] - p.read)
            = [k \in 1..(p.rx[n] \div 2) |-> k]
      <4>1. p.read \in Nat /\ p.rx[n] \in Nat /\ p.read <= p.rx[n]
        BY <1>1
      <4>2. p.read % 2 = 0 /\ p.rx[n] % 2 = 0
        BY <2>1
      <4> HIDE <1>1, <2>1
      <4> QED
        BY <4>1, <4>2, WordsFollow
    <3> QED
      BY <2>1, <3>1
  <2> QED
    BY <1>3, <1>6, <2>1, <2>2 DEF PeerOK
<1> QED
  BY <1>2, <1>3, <1>4, <1>5, <1>6 DEF PeerOK

\* Nothing that PeerOK speaks of but the state has changed.
LEMMA SamePeer ==
  ASSUME NEW p \in Peer, PeerOK(p), NEW q \in Peer,
         q.pos = p.pos, q.rx = p.rx, q.read = p.read, q.handled = p.handled, q.cut = p.cut
  PROVE  PeerOK(q)
BY DEF PeerOK, Peer

\* The connection that accept takes is the first that waits, and is no open one.
LEMMA FirstInBacklog ==
  ASSUME BacklogInv, tcp.step = "accept"
  PROVE  /\ Head(backlog) \in Conns
         /\ peer[Head(backlog)].state = "queued"
         /\ Tail(backlog) \in Seq(Conns)
         /\ Len(Tail(backlog)) = Len(backlog) - 1
         /\ \A n \in 1..Len(Tail(backlog)) :
              /\ Tail(backlog)[n] = backlog[n + 1]
              /\ n + 1 \in 1..Len(backlog)
              /\ Tail(backlog)[n] # Head(backlog)
<1>1. backlog \in Seq(Conns) /\ Len(backlog) \in Nat /\ Len(backlog) > 0
  BY DEF BacklogInv
<1>2. Head(backlog) = backlog[1] /\ 1 \in 1..Len(backlog)
  BY <1>1
<1>3. /\ Tail(backlog) \in Seq(Conns) /\ Len(Tail(backlog)) = Len(backlog) - 1
      /\ \A n \in 1..Len(Tail(backlog)) :
           Tail(backlog)[n] = backlog[n + 1] /\ n + 1 \in 1..Len(backlog) /\ n + 1 # 1
  BY <1>1
<1>4. backlog[1] \in Conns
  BY <1>1, <1>2
<1>5. \A n \in 1..Len(Tail(backlog)) : Tail(backlog)[n] # Head(backlog)
  BY <1>2, <1>3 DEF BacklogInv
<1> QED
  BY <1>2, <1>3, <1>4, <1>5 DEF BacklogInv

\* The slot that tcpserv reads is used, and its socket is a connection.
LEMMA ReadSlot ==
  ASSUME NumbersInv, ClientsInv, SocketsInv, tcp.step = "clients", Pending # {}
  PROVE  /\ Min(Pending) \in Used
         /\ client[Min(Pending)] \in FD
         /\ sockets[client[Min(Pending)]] \in Conns
<1>1. Pending \subseteq Used /\ Pending \subseteq Nat
  BY DEF Pending, Used, Slots
<1>2. Min(Pending) \in Used
  BY <1>1, FirstOne
<1>3. client[Min(Pending)] \in FD
  BY <1>2 DEF NumbersInv, Used, FD, Slots
<1> QED
  BY <1>2, <1>3 DEF ClientsInv

(***************************************************************************)
(* Each step keeps the invariant                                           *)
(***************************************************************************)
\* lwip_close leaves of a connection nothing or all.
LEMMA ClosePeers ==
  ASSUME PeersInv, NEW fds \in SUBSET FD, lwip_close(fds)
  PROVE  PeersInv'
BY FreshPeer DEF PeersInv, lwip_close

\* What the peers have sent and taken.
LEMMA PeersStep ==
  ASSUME IndInv, [Next]_vars
  PROVE  PeersInv'
<1> USE DEF IndInv
<1>1. ASSUME NEW c \in Conns, Connect(c)
      PROVE  PeersInv'
  <2>1. peer' \in [Conns -> Peer] /\ \A d \in Conns \ {c} : peer'[d] = peer[d]
    BY <1>1 DEF Connect, PeersInv, Peer
  <2>2. /\ peer'[c].pos = peer[c].pos /\ peer'[c].rx = peer[c].rx
        /\ peer'[c].read = peer[c].read /\ peer'[c].handled = peer[c].handled
        /\ peer'[c].cut = peer[c].cut
    BY <1>1 DEF Connect, PeersInv, Peer
  <2>3. PeerOK(peer'[c])
    BY <2>1, <2>2, SamePeer DEF PeersInv
  <2> QED
    BY <2>1, <2>3 DEF PeersInv
<1>2. ASSUME NEW c \in Conns, NEW n \in 1..(2 * Words), Deliver(c, n)
      PROVE  PeersInv'
  <2>4. /\ peer[c] \in Peer /\ PeerOK(peer[c]) /\ n \in Nat \ {0}
        /\ peer[c].pos + n <= 2 * Words
    BY <1>2 DEF Deliver, PeersInv
  <2>5. peer[c].pos + n \in Nat /\ Append(peer[c].rx, peer[c].pos + n) \in Seq(Nat)
    BY <2>4 DEF Peer
  <2>6. /\ peer'[c] = [peer[c] EXCEPT !.pos = @ + n, !.rx = Append(@, peer[c].pos + n),
                                      !.cut = @ \/ (peer[c].pos + n) % 2 # 0]
        /\ peer' = [peer EXCEPT ![c] = peer'[c]]
    BY <1>2 DEF Deliver, PeersInv
  <2>7. peer'[c] \in Peer
    BY <2>4, <2>5, <2>6 DEF Peer
  <2>1. peer' \in [Conns -> Peer] /\ \A d \in Conns \ {c} : peer'[d] = peer[d]
    BY <2>6, <2>7 DEF PeersInv
  <2>2. /\ peer'[c].state = peer[c].state
        /\ peer'[c].pos = peer[c].pos + n /\ peer'[c].rx = Append(peer[c].rx, peer[c].pos + n)
        /\ peer'[c].read = peer[c].read /\ peer'[c].handled = peer[c].handled
        /\ peer'[c].cut <=> peer[c].cut \/ (peer[c].pos + n) % 2 # 0
    BY <1>2 DEF Deliver, PeersInv, Peer
  <2>3. PeerOK(peer'[c])
    BY <2>1, <2>2, <2>4, DeliverPeer
  <2> QED
    BY <2>1, <2>3 DEF PeersInv
<1>3. ASSUME NEW c \in Conns, NEW close \in BOOLEAN, Leave(c, close)
      PROVE  PeersInv'
  <2>1. peer' \in [Conns -> Peer] /\ \A d \in Conns \ {c} : peer'[d] = peer[d]
    BY <1>3 DEF Leave, PeersInv, Peer
  <2>2. /\ peer'[c].pos = peer[c].pos /\ peer'[c].rx = peer[c].rx
        /\ peer'[c].read = peer[c].read /\ peer'[c].handled = peer[c].handled
        /\ peer'[c].cut = peer[c].cut
    BY <1>3 DEF Leave, PeersInv, Peer
  <2>3. PeerOK(peer'[c])
    BY <2>1, <2>2, SamePeer DEF PeersInv
  <2> QED
    BY <2>1, <2>3 DEF PeersInv
<1>4. CASE AcceptError
  BY <1>4, FirstInBacklog, FreshPeer DEF AcceptError, PeersInv
<1>5. CASE Accept
  <2> DEFINE c == Head(backlog)
  <2>1. c \in Conns /\ peer' = [peer EXCEPT ![c].state = "open"]
    BY <1>5, FirstInBacklog DEF Accept
  <2> HIDE DEF c
  <2>2. peer' \in [Conns -> Peer] /\ \A d \in Conns \ {c} : peer'[d] = peer[d]
    BY <2>1 DEF PeersInv, Peer
  <2>3. /\ peer'[c].pos = peer[c].pos /\ peer'[c].rx = peer[c].rx
        /\ peer'[c].read = peer[c].read /\ peer'[c].handled = peer[c].handled
        /\ peer'[c].cut = peer[c].cut
    BY <2>1 DEF PeersInv, Peer
  <2>4. PeerOK(peer'[c])
    BY <2>1, <2>2, <2>3, SamePeer DEF PeersInv
  <2> QED
    BY <2>2, <2>4 DEF PeersInv
<1>6. CASE CloseOld
  <2>1. {client[i] : i \in OldClients} \in SUBSET FD
    BY DEF OldClients, Used, NumbersInv, FD
  <2> QED
    BY <1>6, <2>1, ClosePeers DEF CloseOld
<1>7. CASE RecvClosed
  <2>1. {client[Min(Pending)]} \in SUBSET FD
    BY <1>7, ReadSlot DEF RecvClosed
  <2> QED
    BY <1>7, <2>1, ClosePeers DEF RecvClosed
<1>8. ASSUME NEW n \in 1..(2 * Words), NEW swallow \in BOOLEAN, RecvData(n, swallow)
      PROVE  PeersInv'
  <2> DEFINE c == sockets[client[Min(Pending)]]
             words == WordsOf(peer[c].read, peer[c].rx[n] - peer[c].read)
  <2>1. /\ c \in Conns /\ n <= Len(peer[c].rx)
        /\ peer' = [peer EXCEPT ![c].rx = SubSeq(@, n + 1, Len(@)),
                                ![c].read = peer[c].rx[n],
                                ![c].eof = @ /\ ~swallow,
                                ![c].handled = @ \o words]
    BY <1>8 DEF RecvData
  <2> HIDE DEF c
  <2>7. peer[c] \in Peer /\ PeerOK(peer[c])
    BY <2>1 DEF PeersInv
  <2>2. /\ n \in 1..Len(peer[c].rx) /\ peer[c].rx \in Seq(Nat) /\ peer[c].read \in Nat
        /\ peer[c].handled \in Seq(Nat)
    BY <1>8, <2>1, <2>7 DEF Peer
  <2>3. words \in Seq(Nat)
    <3>1. peer[c].rx[n] \in Nat
      BY <2>2
    <3>2. peer[c].read < peer[c].rx[n]
      BY <2>2, <2>7 DEF PeerOK
    <3>3. ASSUME NEW from \in Nat, NEW len \in Nat
          PROVE  WordsOf(from, len) \in Seq(Nat)
      BY DEF WordsOf
    <3>4. peer[c].rx[n] - peer[c].read \in Nat
      BY <2>2, <3>1, <3>2
    <3> QED
      BY <2>2, <3>3, <3>4
  <2> HIDE DEF words
  <2>8. /\ SubSeq(peer[c].rx, n + 1, Len(peer[c].rx)) \in Seq(Nat) /\ peer[c].rx[n] \in Nat
        /\ peer[c].handled \o words \in Seq(Nat)
    <3>1. peer[c].handled \o words \in Seq(Nat)
      BY <2>2, <2>3
    <3>2. \A i \in (n + 1)..Len(peer[c].rx) : peer[c].rx[i] \in Nat
      BY <2>2
    <3>3. n + 1 \in Int /\ Len(peer[c].rx) \in Int
      BY <2>2
    <3>4. SubSeq(peer[c].rx, n + 1, Len(peer[c].rx)) \in Seq(Nat)
      BY <3>2, <3>3, SubSeqProperties
    <3>5. peer[c].rx[n] \in Nat
      BY <2>2
    <3> QED
      BY <3>1, <3>4, <3>5
  <2>9. /\ peer'[c] = [peer[c] EXCEPT !.rx = SubSeq(@, n + 1, Len(@)), !.read = peer[c].rx[n],
                                      !.eof = @ /\ ~swallow, !.handled = @ \o words]
        /\ peer' = [peer EXCEPT ![c] = peer'[c]]
    BY <2>1 DEF PeersInv
  <2>10. peer'[c] \in Peer
    BY <2>7, <2>8, <2>9 DEF Peer
  <2>4. peer' \in [Conns -> Peer] /\ \A d \in Conns \ {c} : peer'[d] = peer[d]
    BY <2>9, <2>10 DEF PeersInv
  <2>5. /\ peer'[c].state = peer[c].state /\ peer'[c].pos = peer[c].pos
        /\ peer'[c].rx = SubSeq(peer[c].rx, n + 1, Len(peer[c].rx))
        /\ peer'[c].read = peer[c].rx[n] /\ peer'[c].cut = peer[c].cut
        /\ peer'[c].handled = peer[c].handled \o words
    BY <2>1 DEF PeersInv, Peer
  <2>6. PeerOK(peer'[c])
    <3>1. /\ peer'[c].handled = peer[c].handled \o WordsOf(peer[c].read, peer[c].rx[n] - peer[c].read)
          /\ peer'[c].cut <=> peer[c].cut
      BY <2>5 DEF words
    <3>2. n \in 1..Len(peer[c].rx) /\ peer'[c] \in Peer
      BY <2>2, <2>10
    <3> QED
      BY <2>5, <2>7, <3>1, <3>2, ReadPeer
  <2> QED
    BY <2>4, <2>6 DEF PeersInv
<1>9. CASE UNCHANGED peer
  BY <1>9 DEF PeersInv
<1>10. Select \/ Register \/ EndOfRound \/ SpiDsp \/ UNCHANGED vars => UNCHANGED peer
  BY DEF Select, Register, EndOfRound, SpiDsp, UploadCheck, UploadId, UploadSend, server, vars
<1> QED
  BY <1>1, <1>2, <1>3, <1>4, <1>5, <1>6, <1>7, <1>8, <1>9, <1>10 DEF Next, Tcpserv

\* A packet, a PC that leaves and a chunk that is read change no connection's state.
LEMMA StatesKept ==
  ASSUME PeersInv,
         \/ \E c \in Conns, n \in 1..(2 * Words) : Deliver(c, n)
         \/ \E c \in Conns, close \in BOOLEAN : Leave(c, close)
         \/ \E n \in 1..(2 * Words), swallow \in BOOLEAN : RecvData(n, swallow)
  PROVE  \A d \in Conns : peer'[d].state = peer[d].state
<1>1. ASSUME NEW c \in Conns, NEW n \in 1..(2 * Words), Deliver(c, n)
      PROVE  \A d \in Conns : peer'[d].state = peer[d].state
  BY <1>1 DEF Deliver, PeersInv, Peer
<1>2. ASSUME NEW c \in Conns, NEW close \in BOOLEAN, Leave(c, close)
      PROVE  \A d \in Conns : peer'[d].state = peer[d].state
  BY <1>2 DEF Leave, PeersInv, Peer
<1>3. ASSUME NEW n \in 1..(2 * Words), NEW swallow \in BOOLEAN, RecvData(n, swallow)
      PROVE  \A d \in Conns : peer'[d].state = peer[d].state
  <2> DEFINE c == sockets[client[Min(Pending)]]
             words == WordsOf(peer[c].read, peer[c].rx[n] - peer[c].read)
  <2>1. peer' = [peer EXCEPT ![c].rx = SubSeq(@, n + 1, Len(@)),
                             ![c].read = peer[c].rx[n],
                             ![c].eof = @ /\ ~swallow,
                             ![c].handled = @ \o words]
    BY <1>3 DEF RecvData
  <2> HIDE DEF c, words
  <2> QED
    BY <2>1 DEF PeersInv, Peer
<1> QED
  BY <1>1, <1>2, <1>3

\* The actions of the PCs and of SPI_DSP leave the server's own state alone.
LEMMA OthersKeep ==
  ASSUME \/ \E c \in Conns : Connect(c)
         \/ \E c \in Conns, n \in 1..(2 * Words) : Deliver(c, n)
         \/ \E c \in Conns, close \in BOOLEAN : Leave(c, close)
         \/ SpiDsp
         \/ UNCHANGED vars
  PROVE  UNCHANGED <<sockets, client, maxi, connected, g_i_connected_flag, g_i_connected_id,
                     allset, rset, nready, tcp>>
BY DEF Connect, Deliver, Leave, SpiDsp, UploadCheck, UploadId, UploadSend, host, server,
       link, watched, vars

\* Where a round of the loop over the slots goes on.
LEMMA NextSlotStep ==
  ASSUME NumbersInv, tcp.step = "clients", NEW i \in Nat, NextSlot(i)
  PROVE  /\ tcp' \in [step : {"select", "clients"}, i : Nat]
         /\ rset' \subseteq FD
BY DEF NextSlot, Again, NumbersInv

\* The connections that wait in the backlog.
LEMMA BacklogStep ==
  ASSUME IndInv, [Next]_vars
  PROVE  BacklogInv'
<1> USE DEF IndInv
<1>1. ASSUME NEW c \in Conns, Connect(c)
      PROVE  BacklogInv'
  <2>1. /\ peer[c].state = "idle" /\ peer'[c].state = "queued"
        /\ \A d \in Conns \ {c} : peer'[d] = peer[d]
        /\ backlog' = Append(backlog, c) /\ tcp' = tcp
    BY <1>1 DEF Connect, PeersInv, Peer, host
  <2>2. backlog \in Seq(Conns) /\ Len(backlog) \in Nat
    BY DEF BacklogInv
  <2>3. /\ backlog' \in Seq(Conns) /\ Len(backlog') = Len(backlog) + 1
        /\ backlog'[Len(backlog) + 1] = c /\ backlog' # <<>>
        /\ \A n \in 1..Len(backlog) : backlog'[n] = backlog[n]
    BY <2>1, <2>2, AppendProperties
  <2>4. \A n \in 1..Len(backlog) : backlog[n] \in Conns \ {c}
    BY <2>1, <2>2 DEF BacklogInv
  <2>5. \A n \in 1..Len(backlog') : n \in 1..Len(backlog) \/ n = Len(backlog) + 1
    BY <2>2, <2>3
  <2>6. \A n \in 1..Len(backlog') : peer'[backlog'[n]].state = "queued"
    BY <2>1, <2>3, <2>4, <2>5 DEF BacklogInv
  <2>7. \A m, n \in 1..Len(backlog') : m # n => backlog'[m] # backlog'[n]
    BY <2>3, <2>4, <2>5 DEF BacklogInv
  <2> QED
    BY <2>3, <2>6, <2>7 DEF BacklogInv
<1>2. CASE \/ \E c \in Conns, n \in 1..(2 * Words) : Deliver(c, n)
           \/ \E c \in Conns, close \in BOOLEAN : Leave(c, close)
  <2>1. backlog' = backlog /\ tcp' = tcp
    BY <1>2 DEF Deliver, Leave, host
  <2>2. \A d \in Conns : peer'[d].state = peer[d].state
    BY <1>2, StatesKept
  <2> QED
    BY <2>1, <2>2 DEF BacklogInv
<1>3. CASE Select
  <2>1. peer' = peer /\ backlog' = backlog /\ (sock \in rset' => backlog # <<>>)
    BY <1>3 DEF Select, Readable
  <2>2. tcp'.step = "accept" => sock \in rset'
    BY <1>3 DEF Select
  <2> QED
    BY <2>1, <2>2 DEF BacklogInv
<1>4. CASE AcceptError
  <2>1. /\ backlog' = Tail(backlog) /\ tcp'.step = "select"
        /\ \A d \in Conns \ {Head(backlog)} : peer'[d] = peer[d]
    BY <1>4 DEF AcceptError, AfterError, PeersInv, NumbersInv
  <2>2. tcp.step = "accept"
    BY <1>4 DEF AcceptError
  <2>3. Len(backlog) \in Nat /\ backlog \in Seq(Conns)
    BY DEF BacklogInv
  <2>4. \A n \in 1..Len(backlog') : peer'[backlog'[n]].state = "queued"
    BY <2>1, <2>2, <2>3, FirstInBacklog DEF BacklogInv
  <2>5. \A m, n \in 1..Len(backlog') : m # n => backlog'[m] # backlog'[n]
    BY <2>1, <2>2, <2>3, FirstInBacklog DEF BacklogInv
  <2> QED
    BY <2>1, <2>2, <2>4, <2>5, FirstInBacklog DEF BacklogInv
<1>5. CASE Accept
  <2>1. /\ backlog' = Tail(backlog) /\ tcp'.step = "close"
        /\ \A d \in Conns \ {Head(backlog)} : peer'[d] = peer[d]
    BY <1>5 DEF Accept, PeersInv, NumbersInv
  <2>2. tcp.step = "accept"
    BY <1>5 DEF Accept
  <2>3. Len(backlog) \in Nat /\ backlog \in Seq(Conns)
    BY DEF BacklogInv
  <2>4. \A n \in 1..Len(backlog') : peer'[backlog'[n]].state = "queued"
    BY <2>1, <2>2, <2>3, FirstInBacklog DEF BacklogInv
  <2>5. \A m, n \in 1..Len(backlog') : m # n => backlog'[m] # backlog'[n]
    BY <2>1, <2>2, <2>3, FirstInBacklog DEF BacklogInv
  <2> QED
    BY <2>1, <2>2, <2>4, <2>5, FirstInBacklog DEF BacklogInv
<1>6. ASSUME NEW fds \in SUBSET FD, lwip_close(fds), backlog' = backlog, tcp'.step # "accept"
      PROVE  BacklogInv'
  <2>1. \A n \in 1..Len(backlog) : peer'[backlog[n]] = peer[backlog[n]]
    <3>1. ASSUME NEW n \in 1..Len(backlog)
          PROVE  ~\E fd \in fds : sockets[fd] = backlog[n]
      <4>1. backlog[n] \in Conns /\ peer[backlog[n]].state = "queued"
        BY DEF BacklogInv
      <4> QED
        BY <1>6, <4>1 DEF SocketsInv
    <3> QED
      BY <1>6, <3>1 DEF lwip_close, BacklogInv
  <2> QED
    BY <1>6, <2>1 DEF BacklogInv
<1>7. CASE CloseOld
  <2>1. {client[i] : i \in OldClients} \in SUBSET FD
    BY DEF OldClients, Used, NumbersInv, FD
  <2>2. tcp'.step # "accept"
    BY <1>7 DEF CloseOld, NumbersInv
  <2> QED
    BY <1>6, <1>7, <2>1, <2>2 DEF CloseOld
<1>8. CASE RecvClosed
  <2>1. {client[Min(Pending)]} \in SUBSET FD /\ Min(Pending) \in Nat
    BY <1>8, ReadSlot DEF RecvClosed, Used, Slots
  <2>2. tcp'.step # "accept"
    BY <1>8, <2>1, NextSlotStep DEF RecvClosed
  <2> QED
    BY <1>6, <1>8, <2>1, <2>2 DEF RecvClosed
<1>9. ASSUME NEW n \in 1..(2 * Words), NEW swallow \in BOOLEAN, RecvData(n, swallow)
      PROVE  BacklogInv'
  <2>1. \A d \in Conns : peer'[d].state = peer[d].state
    BY <1>9, StatesKept
  <2>2. tcp.step = "clients" /\ Pending # {} /\ NextSlot(Min(Pending)) /\ backlog' = backlog
    BY <1>9 DEF RecvData
  <2>3. Min(Pending) \in Nat
    BY <2>2, ReadSlot DEF Used, Slots
  <2>4. tcp'.step # "accept"
    BY <2>2, <2>3, NextSlotStep
  <2> QED
    BY <2>1, <2>2, <2>4 DEF BacklogInv
<1>10. CASE Register \/ EndOfRound
  <2>1. peer' = peer /\ backlog' = backlog /\ tcp'.step # "accept"
    BY <1>10 DEF Register, EndOfRound
  <2> QED
    BY <2>1 DEF BacklogInv
<1>11. CASE SpiDsp \/ UNCHANGED vars
  <2>1. UNCHANGED <<peer, backlog, tcp>>
    BY <1>11 DEF SpiDsp, UploadCheck, UploadId, UploadSend, server, vars
  <2> QED
    BY <2>1 DEF BacklogInv
<1> QED
  BY <1>1, <1>2, <1>3, <1>4, <1>5, <1>7, <1>8, <1>9, <1>10, <1>11 DEF Next, Tcpserv

\* The numbers of sockets and slots, and what is no connection.
LEMMA Constants ==
  /\ sock \in FD /\ FD \subseteq Nat /\ Slots \subseteq Nat /\ Slots # {}
  /\ -1 \notin FD /\ FREE \notin Conns /\ LISTEN \notin Conns /\ FREE # LISTEN
<1>1. CLIENTS \in Nat \ {0} /\ NUM_SOCKETS \in Nat \ {0} /\ MaxConns \in Nat
  BY TcpAssumption
<1>2. 0 \in Slots
  BY <1>1 DEF Slots
<1> QED
  BY <1>1, <1>2 DEF sock, FD, Slots, FREE, LISTEN, Conns

\* accept gives out a socket that is free, hence not the listening one.
LEMMA FreeSocket ==
  ASSUME SocketsInv, FreeSockets # {}
  PROVE  Min(FreeSockets) \in FD \ {sock} /\ sockets[Min(FreeSockets)] = FREE
<1>1. Min(FreeSockets) \in FreeSockets
  BY Constants, FirstOne DEF FreeSockets
<1> QED
  BY <1>1, Constants DEF FreeSockets, SocketsInv

\* Sockets that are closed are free, the others are untouched.
LEMMA CloseSockets ==
  ASSUME SocketsInv, NEW fds \in SUBSET FD, sock \notin fds, lwip_close(fds)
  PROVE  /\ SocketsInv'
         /\ \A fd \in FD : sockets'[fd] \in Conns <=> (sockets[fd] \in Conns /\ fd \notin fds)
<1>1. /\ \A fd \in FD : sockets'[fd] = IF fd \in fds THEN FREE ELSE sockets[fd]
      /\ sockets' \in [FD -> Conns \cup {FREE, LISTEN}]
  BY DEF lwip_close, SocketsInv
<1>2. \A fd \in FD : sockets'[fd] \in Conns <=> (sockets[fd] \in Conns /\ fd \notin fds)
  BY <1>1, Constants
<1>3. sockets'[sock] = LISTEN
  BY <1>1, Constants DEF SocketsInv
<1>4. ASSUME NEW fd \in FD, sockets'[fd] \in Conns
      PROVE  peer'[sockets'[fd]].state = "open"
  <2>1. sockets[fd] \in Conns /\ fd \notin fds /\ sockets'[fd] = sockets[fd]
    BY <1>1, <1>2, <1>4
  <2>2. ~\E gd \in fds : sockets[gd] = sockets[fd]
    BY <2>1 DEF SocketsInv
  <2>3. peer'[sockets[fd]] = peer[sockets[fd]]
    BY <2>1, <2>2 DEF lwip_close
  <2> QED
    BY <2>1, <2>3 DEF SocketsInv
<1>5. \A fd, gd \in FD : sockets'[fd] \in Conns /\ sockets'[fd] = sockets'[gd] => fd = gd
  BY <1>1, <1>2 DEF SocketsInv
<1> QED
  BY <1>1, <1>2, <1>3, <1>4, <1>5 DEF SocketsInv

\* The sockets in the slots are connections, and none is the listening one.
LEMMA ClientSockets ==
  ASSUME NumbersInv, SocketsInv, ClientsInv
  PROVE  {client[i] : i \in Used} \in SUBSET (FD \ {sock})
<1>1. \A i \in Used : client[i] \in FD
  BY DEF NumbersInv, Used, FD
<1>2. \A i \in Used : sockets[client[i]] \in Conns
  BY <1>1 DEF ClientsInv
<1> QED
  BY <1>1, <1>2, Constants DEF SocketsInv

\* The sockets of the server.
LEMMA SocketsStep ==
  ASSUME IndInv, [Next]_vars
  PROVE  SocketsInv'
<1> USE DEF IndInv
<1>1. ASSUME NEW c \in Conns, Connect(c)
      PROVE  SocketsInv'
  <2>1. /\ peer[c].state = "idle" /\ sockets' = sockets
        /\ \A d \in Conns \ {c} : peer'[d] = peer[d]
    BY <1>1 DEF Connect, PeersInv, Peer, host
  <2> QED
    BY <2>1 DEF SocketsInv
<1>2. CASE \/ \E c \in Conns, n \in 1..(2 * Words) : Deliver(c, n)
           \/ \E c \in Conns, close \in BOOLEAN : Leave(c, close)
           \/ \E n \in 1..(2 * Words), swallow \in BOOLEAN : RecvData(n, swallow)
  <2>1. sockets' = sockets
    BY <1>2 DEF Deliver, Leave, RecvData, host
  <2>2. \A d \in Conns : peer'[d].state = peer[d].state
    BY <1>2, StatesKept
  <2> QED
    BY <2>1, <2>2 DEF SocketsInv
<1>3. CASE AcceptError
  <2>1. /\ sockets' = sockets /\ tcp.step = "accept"
        /\ \A d \in Conns \ {Head(backlog)} : peer'[d] = peer[d]
    BY <1>3 DEF AcceptError, PeersInv
  <2>2. peer[Head(backlog)].state = "queued"
    BY <2>1, FirstInBacklog
  <2> QED
    BY <2>1, <2>2 DEF SocketsInv
<1>4. CASE Accept
  <2> DEFINE c == Head(backlog)
             new == Min(FreeSockets)
  <2>1. /\ c \in Conns /\ peer[c].state = "queued"
        /\ new \in FD \ {sock} /\ sockets[new] = FREE
    BY <1>4, FirstInBacklog, FreeSocket DEF Accept
  <2>2. /\ sockets' = [sockets EXCEPT ![new] = c]
        /\ peer' = [peer EXCEPT ![c].state = "open"]
    BY <1>4 DEF Accept
  <2> HIDE DEF c, new
  <2>3. /\ peer'[c].state = "open"
        /\ \A d \in Conns \ {c} : peer'[d] = peer[d]
    BY <2>1, <2>2 DEF PeersInv, Peer
  <2>4. /\ sockets' \in [FD -> Conns \cup {FREE, LISTEN}]
        /\ sockets'[new] = c
        /\ \A fd \in FD \ {new} : sockets'[fd] = sockets[fd] /\ sockets[fd] # c
    BY <2>1, <2>2 DEF SocketsInv
  <2> QED
    BY <2>1, <2>3, <2>4, Constants DEF SocketsInv
<1>5. CASE CloseOld
  BY <1>5, ClientSockets, CloseSockets DEF CloseOld, OldClients
<1>6. CASE RecvClosed
  <2>1. {client[Min(Pending)]} \in SUBSET FD /\ sock \notin {client[Min(Pending)]}
    BY <1>6, ReadSlot, ClientSockets DEF RecvClosed
  <2> QED
    BY <1>6, <2>1, CloseSockets DEF RecvClosed
<1>7. CASE Select \/ Register \/ EndOfRound \/ SpiDsp \/ UNCHANGED vars
  <2>1. UNCHANGED <<peer, sockets>>
    BY <1>7 DEF Select, Register, EndOfRound, SpiDsp, UploadCheck, UploadId, UploadSend,
                server, vars
  <2> QED
    BY <2>1 DEF SocketsInv
<1> QED
  BY <1>1, <1>2, <1>3, <1>4, <1>5, <1>6, <1>7 DEF Next, Tcpserv

\* The numbers of commands and answers.
LEMMA NumbersStep ==
  ASSUME IndInv, [Next]_vars
  PROVE  NumbersInv'
<1> USE DEF IndInv
<1>1. CASE \/ \E c \in Conns : Connect(c)
           \/ \E c \in Conns, n \in 1..(2 * Words) : Deliver(c, n)
           \/ \E c \in Conns, close \in BOOLEAN : Leave(c, close)
           \/ UNCHANGED vars
  <2>1. spi' = spi
    BY <1>1 DEF Connect, Deliver, Leave, host, vars
  <2> QED
    BY <1>1, <2>1, OthersKeep DEF NumbersInv
<1>2. CASE SpiDsp
  <2>1. spi' \in [step : {"idle", "id", "send"}, id : FD]
    BY <1>2, Constants DEF SpiDsp, UploadCheck, UploadId, UploadSend, NumbersInv, sock
  <2> QED
    BY <1>2, <2>1, OthersKeep DEF NumbersInv
<1>3. CASE Select
  <2>1. rset' \subseteq FD
    BY <1>3 DEF Select, Polled, NumbersInv
  <2>2. tcp' \in [step : {"select", "accept", "close", "register", "clients"}, i : Nat]
    BY <1>3 DEF Select
  <2> QED
    BY <1>3, <2>1, <2>2 DEF Select, NumbersInv, link
<1>4. CASE AcceptError
  BY <1>4 DEF AcceptError, AfterError, Again, NumbersInv, link
<1>5. CASE Accept
  <2>1. connected' \in FD
    BY <1>5, FreeSocket DEF Accept
  <2> QED
    BY <1>5, <2>1 DEF Accept, NumbersInv, link, watched
<1>6. CASE CloseOld
  <2>1. client' \in [Slots -> FD \cup {-1}]
    BY <1>6 DEF CloseOld, NumbersInv
  <2>2. g_i_connected_flag' \in {0, 1} /\ g_i_connected_id' \in FD /\ allset' \subseteq FD
    BY <1>6, Constants DEF CloseOld, NumbersInv, sock
  <2>3. tcp' \in [step : {"select", "accept", "close", "register", "clients"}, i : Nat]
    BY <1>6 DEF CloseOld, NumbersInv
  <2> QED
    BY <1>6, <2>1, <2>2, <2>3 DEF CloseOld, NumbersInv
<1>7. CASE Register
  <2>1. Used = {} /\ connected \in FD
    BY <1>7 DEF Register, ClientsInv
  <2>2. Min(Slots \ Used) \in Slots
    BY <2>1, Constants, FirstOne
  <2>3. Slots \ Used # {}
    BY <2>1, Constants
  <2>4. client' \in [Slots -> FD \cup {-1}]
    BY <1>7, <2>1, <2>3 DEF Register, NumbersInv
  <2>5. maxi' \in -1..(CLIENTS - 1)
    BY <1>7, <2>2, <2>3 DEF Register, NumbersInv, Slots
  <2>6. /\ g_i_connected_flag' \in {0, 1} /\ g_i_connected_id' \in FD
        /\ allset' \subseteq FD /\ rset' \subseteq FD
    BY <1>7, <2>1 DEF Register, NumbersInv, Again
  <2>7. tcp' \in [step : {"select", "accept", "close", "register", "clients"}, i : Nat]
    BY <1>7 DEF Register
  <2> QED
    BY <1>7, <2>4, <2>5, <2>6, <2>7 DEF Register, NumbersInv
<1>8. CASE EndOfRound
  BY <1>8 DEF EndOfRound, Again, NumbersInv, link
<1>9. CASE RecvClosed
  <2>1. Min(Pending) \in Slots /\ Min(Pending) \in Nat
    BY <1>9, ReadSlot, Constants DEF RecvClosed, Used
  <2>2. tcp' \in [step : {"select", "clients"}, i : Nat] /\ rset' \subseteq FD
    BY <1>9, <2>1, NextSlotStep DEF RecvClosed
  <2>3. client' \in [Slots -> FD \cup {-1}] /\ allset' \subseteq FD
    BY <1>9, <2>1 DEF RecvClosed, NumbersInv
  <2>4. g_i_connected_flag' \in {0, 1} /\ g_i_connected_id' \in FD
    BY <1>9, Constants DEF RecvClosed, Disconnected, sock
  <2> QED
    BY <1>9, <2>2, <2>3, <2>4 DEF RecvClosed, NumbersInv
<1>10. ASSUME NEW n \in 1..(2 * Words), NEW swallow \in BOOLEAN, RecvData(n, swallow)
       PROVE  NumbersInv'
  <2>1. /\ tcp.step = "clients" /\ Pending # {} /\ NextSlot(Min(Pending))
        /\ UNCHANGED <<client, maxi, connected, link, allset, spi>>
    BY <1>10 DEF RecvData
  <2>2. Min(Pending) \in Nat
    BY <2>1, ReadSlot, Constants DEF Used
  <2>3. tcp' \in [step : {"select", "clients"}, i : Nat] /\ rset' \subseteq FD
    BY <2>1, <2>2, NextSlotStep
  <2> QED
    BY <2>1, <2>3 DEF NumbersInv, link
<1> QED
  BY <1>1, <1>2, <1>3, <1>4, <1>5, <1>6, <1>7, <1>8, <1>9, <1>10 DEF Next, Tcpserv

\* The clients that are served.
LEMMA ClientsStep ==
  ASSUME IndInv, [Next]_vars
  PROVE  ClientsInv'
<1> USE DEF IndInv
<1>1. CASE \/ \E c \in Conns : Connect(c)
           \/ \E c \in Conns, n \in 1..(2 * Words) : Deliver(c, n)
           \/ \E c \in Conns, close \in BOOLEAN : Leave(c, close)
           \/ SpiDsp
           \/ UNCHANGED vars
  BY <1>1, OthersKeep DEF ClientsInv, Used, New
<1>2. CASE Select
  <2>1. /\ tcp.step = "select" /\ tcp'.step \in {"accept", "clients"}
        /\ UNCHANGED <<sockets, client, connected, g_i_connected_flag, g_i_connected_id, allset>>
    BY <1>2 DEF Select, link
  <2> QED
    BY <2>1 DEF ClientsInv, Used, New
<1>3. CASE AcceptError
  <2>1. /\ tcp.step = "accept" /\ tcp'.step = "select" /\ connected' = -1
        /\ UNCHANGED <<sockets, client, g_i_connected_flag, g_i_connected_id, allset>>
    BY <1>3 DEF AcceptError, AfterError, NumbersInv, link
  <2> QED
    BY <2>1 DEF ClientsInv, Used, New
<1>4. CASE Accept
  <2> DEFINE c == Head(backlog)
             new == Min(FreeSockets)
  <2>1. /\ c \in Conns /\ new \in FD /\ sockets[new] = FREE
        /\ tcp.step = "accept" /\ tcp'.step = "close" /\ connected' = new
        /\ sockets' = [sockets EXCEPT ![new] = c]
        /\ UNCHANGED <<client, g_i_connected_flag, g_i_connected_id, allset>>
    BY <1>4, FirstInBacklog, FreeSocket DEF Accept, NumbersInv, link, watched
  <2> HIDE DEF c, new
  <2>2. /\ sockets'[new] \in Conns /\ sockets[new] \notin Conns
        /\ \A fd \in FD \ {new} : sockets'[fd] = sockets[fd]
    BY <2>1, Constants DEF SocketsInv
  <2>3. Used' = Used /\ New = {} /\ New' = {new}
    BY <2>1 DEF Used, New
  <2>4. \A i \in Used : client[i] # new
    BY <2>1, <2>2 DEF ClientsInv
  <2>5. \A fd \in FD : sockets'[fd] \in Conns <=> (fd \in New' \/ \E i \in Used' : fd = client'[i])
    BY <2>1, <2>2, <2>3 DEF ClientsInv
  <2> QED
    BY <2>1, <2>3, <2>4, <2>5 DEF ClientsInv
<1>5. CASE CloseOld
  <2> DEFINE old == {client[i] : i \in Used}
  <2>1. /\ tcp.step = "close" /\ tcp'.step = "register"
        /\ lwip_close(old) /\ allset' = allset \ old
        /\ g_i_connected_flag' = (IF old = {} THEN g_i_connected_flag ELSE 0)
        /\ client' = [i \in Slots |-> IF i \in Used THEN -1 ELSE client[i]]
        /\ connected' = connected
    BY <1>5 DEF CloseOld, OldClients, NumbersInv
  <2>2. old \in SUBSET FD /\ sock \notin old
    BY ClientSockets
  <2>3. \A fd \in FD : sockets'[fd] \in Conns <=> (sockets[fd] \in Conns /\ fd \notin old)
    BY <2>1, <2>2, CloseSockets
  <2>4. Used' = {}
    BY <2>1 DEF Used
  <2>5. connected \in FD /\ New = {connected} /\ New' = {connected}
    BY <2>1 DEF ClientsInv, New
  <2>6. connected \notin old
    BY <2>5 DEF ClientsInv
  <2>7. \A fd \in FD : sockets'[fd] \in Conns <=> fd \in New'
    BY <2>3, <2>5, <2>6 DEF ClientsInv
  <2>8. allset' = {sock}
    BY <2>1, <2>2 DEF ClientsInv
  <2>9. g_i_connected_flag' = 0
    BY <2>1 DEF ClientsInv
  <2> QED
    BY <2>1, <2>4, <2>5, <2>7, <2>8, <2>9 DEF ClientsInv
<1>6. CASE Register
  <2> DEFINE new == Min(Slots \ Used)
  <2>1. /\ tcp.step = "register" /\ Used = {} /\ connected \in FD /\ New = {connected}
    BY <1>6 DEF Register, ClientsInv, New
  <2>2. new \in Slots /\ Slots \ Used # {}
    BY <2>1, Constants, FirstOne
  <2>3. /\ client' = [client EXCEPT ![new] = connected]
        /\ g_i_connected_flag' = 1 /\ g_i_connected_id' = connected
        /\ allset' = allset \cup {connected}
        /\ tcp'.step \in {"select", "clients"}
        /\ UNCHANGED <<sockets, connected>>
    BY <1>6, <2>2 DEF Register
  <2> HIDE DEF new
  <2>4. /\ client'[new] = connected
        /\ \A i \in Slots \ {new} : client'[i] = client[i]
    BY <2>2, <2>3 DEF NumbersInv
  <2>5. connected >= 0
    BY <2>1 DEF FD
  <2>6. Used' = {new}
    BY <2>1, <2>2, <2>4, <2>5 DEF Used
  <2>7. New' = {}
    BY <2>3 DEF New
  <2>8. \A fd \in FD : sockets'[fd] \in Conns <=> fd = connected
    BY <2>1, <2>3 DEF ClientsInv
  <2>9. allset' = {sock} \cup {connected}
    BY <2>1, <2>3 DEF ClientsInv
  <2> QED
    BY <2>3, <2>4, <2>6, <2>7, <2>8, <2>9 DEF ClientsInv
<1>7. CASE EndOfRound
  <2>1. /\ tcp.step = "clients" /\ tcp'.step = "select"
        /\ UNCHANGED <<sockets, client, connected, g_i_connected_flag, g_i_connected_id, allset>>
    BY <1>7 DEF EndOfRound, link
  <2> QED
    BY <2>1 DEF ClientsInv, Used, New
<1>8. CASE RecvClosed
  <2> DEFINE i == Min(Pending)
             fd == client[i]
  <2>1. i \in Used /\ i \in Slots /\ i \in Nat /\ fd \in FD /\ fd # sock
    BY <1>8, ReadSlot, ClientSockets, Constants DEF RecvClosed, Used
  <2>2. /\ tcp.step = "clients" /\ lwip_close({fd}) /\ allset' = allset \ {fd}
        /\ client' = [client EXCEPT ![i] = -1] /\ NextSlot(i)
        /\ g_i_connected_flag' = 0 /\ connected' = connected
    BY <1>8 DEF RecvClosed, Disconnected
  <2> HIDE DEF i
  <2>3. tcp'.step \in {"select", "clients"}
    BY <2>1, <2>2, NextSlotStep
  <2>4. Used = {i}
    BY <2>1 DEF ClientsInv
  <2>5. client'[i] = -1 /\ \A j \in Slots \ {i} : client'[j] = client[j]
    BY <2>1, <2>2 DEF NumbersInv
  <2>6. Used' = {}
    BY <2>4, <2>5 DEF Used
  <2>7. New = {} /\ New' = {}
    BY <2>2, <2>3 DEF New
  <2>8. \A gd \in FD : sockets'[gd] \in Conns <=> (sockets[gd] \in Conns /\ gd \notin {fd})
    BY <2>1, <2>2, CloseSockets
  <2>9. \A gd \in FD : sockets'[gd] \notin Conns
    BY <2>4, <2>7, <2>8 DEF ClientsInv
  <2>10. allset' = {sock}
    BY <2>1, <2>2, <2>4 DEF ClientsInv
  <2> QED
    BY <2>2, <2>3, <2>6, <2>7, <2>9, <2>10 DEF ClientsInv
<1>9. ASSUME NEW n \in 1..(2 * Words), NEW swallow \in BOOLEAN, RecvData(n, swallow)
      PROVE  ClientsInv'
  <2>1. /\ tcp.step = "clients" /\ Pending # {} /\ NextSlot(Min(Pending))
        /\ UNCHANGED <<sockets, client, connected, g_i_connected_flag, g_i_connected_id, allset>>
    BY <1>9 DEF RecvData, link
  <2>2. Min(Pending) \in Nat
    BY <2>1, ReadSlot, Constants DEF Used
  <2>3. tcp'.step \in {"select", "clients"}
    BY <2>1, <2>2, NextSlotStep
  <2> QED
    BY <2>1, <2>3 DEF ClientsInv, Used, New
<1> QED
  BY <1>1, <1>2, <1>3, <1>4, <1>5, <1>6, <1>7, <1>8, <1>9 DEF Next, Tcpserv

\* An answer goes to the slot that is read, and a volume to a connection, of which there
\* are no others than the ones of the slot and of accept.
LEMMA AnswersStep ==
  ASSUME IndInv, [Next]_vars
  PROVE  AnswersReachClient'
<1> USE DEF IndInv
<1>1. ASSUME NEW n \in 1..(2 * Words), NEW swallow \in BOOLEAN, RecvData(n, swallow)
      PROVE  AnswersReachClient'
  <2> DEFINE c == sockets[client[Min(Pending)]]
  <2>1. /\ tcp.step = "clients" /\ Pending # {}
        /\ strayed' => strayed \/ (connected # -1 /\ sockets[connected] # c)
    BY <1>1 DEF RecvData
  <2>2. Min(Pending) \in Used
    BY <2>1, ReadSlot
  <2>3. connected \in {-1, client[Min(Pending)]}
    BY <2>1, <2>2 DEF ClientsInv
  <2> QED
    BY <2>1, <2>3 DEF AnswersReachClient
<1>2. CASE UploadSend
  <2>1. spi.id \in FD
    BY DEF NumbersInv
  <2>2. sockets[spi.id] \in Conns => sockets[spi.id] \in Current
    <3>1. \A i \in Used : sockets[client[i]] \in Current
      BY DEF Current
    <3>2. \A fd \in New : sockets[fd] \in Current
      BY DEF Current, New
    <3> QED
      BY <2>1, <3>1, <3>2 DEF ClientsInv
  <2> QED
    BY <1>2, <2>2 DEF UploadSend, AnswersReachClient
<1>3. CASE UNCHANGED strayed
  BY <1>3 DEF AnswersReachClient
<1>4. ASSUME NEW c \in Conns,
             \/ Connect(c)
             \/ \E n \in 1..(2 * Words) : Deliver(c, n)
             \/ \E close \in BOOLEAN : Leave(c, close)
      PROVE  UNCHANGED strayed
  BY <1>4 DEF Connect, Deliver, Leave, host
<1>5. \/ Select \/ AcceptError \/ Accept \/ CloseOld \/ Register \/ EndOfRound \/ RecvClosed
      \/ UploadCheck \/ UploadId \/ UNCHANGED vars
      => UNCHANGED strayed
  BY DEF Select, AcceptError, Accept, CloseOld, Register, EndOfRound, RecvClosed, UploadCheck,
         UploadId, vars
<1> QED
  BY <1>1, <1>2, <1>3, <1>4, <1>5 DEF Next, Tcpserv, SpiDsp

-----------------------------------------------------------------------------
\* The server before its first connection.
LEMMA InitInv == Init => IndInv
<1> SUFFICES ASSUME Init PROVE IndInv
  OBVIOUS
<1>1. PeersInv
  BY FreshPeer DEF Init, PeersInv
<1>2. BacklogInv
  BY DEF Init, BacklogInv
<1>3. SocketsInv
  BY Constants DEF Init, SocketsInv
<1>4. NumbersInv
  <2>1. maxi \in -1..(CLIENTS - 1)
    BY TcpAssumption DEF Init
  <2> QED
    BY <2>1, Constants DEF Init, NumbersInv, sock
<1>5. Used = {} /\ New = {}
  BY DEF Init, Used, New
<1>6. ClientsInv
  BY <1>5, Constants DEF Init, ClientsInv
<1> QED
  BY <1>1, <1>2, <1>3, <1>4, <1>6 DEF IndInv, Init, AnswersReachClient

\* The invariant holds of every behaviour.
THEOREM Invariance == Spec => []IndInv
<1>1. IndInv /\ [Next]_vars => IndInv'
  BY PeersStep, BacklogStep, SocketsStep, NumbersStep, ClientsStep, AnswersStep DEF IndInv
<1> QED
  BY InitInv, <1>1, PTL DEF Spec

\* The shape of the state: nothing is read that has not been sent, what waits for accept is
\* queued, and no socket number in use is the -1 of a failed call or of an empty slot.
THEOREM TypeCorrect == Spec => []TypeOK
<1>1. IndInv => TypeOK
  <2> SUFFICES ASSUME IndInv PROVE TypeOK
    OBVIOUS
  <2>1. ASSUME NEW c \in Conns
        PROVE  /\ peer[c].state \in {"idle", "queued", "open", "closed"}
               /\ peer[c].read <= peer[c].pos /\ peer[c].pos <= 2 * Words
    <3>1. Words \in Nat
      BY TcpAssumption
    <3>2. PeerOK(peer[c])
      BY DEF IndInv, PeersInv
    <3> QED
      BY <3>1, <3>2 DEF PeerOK
  <2>2. spi.id \in FD
    BY DEF IndInv, NumbersInv
  <2> QED
    BY <2>1, <2>2 DEF IndInv, BacklogInv, SocketsInv, NumbersInv, TypeOK
<1> QED
  BY Invariance, <1>1, PTL

\* tcpserver.c: whenever tcpserv waits in select it serves one PC at most, holds no socket
\* of any other, watches it, and tells SPI_DSP so, after any failures and closes.
THEOREM OneClientServed == Spec => []OneClient
<1>1. IndInv => OneClient
  <2> SUFFICES ASSUME IndInv, tcp.step = "select"
               PROVE  /\ Cardinality(Used) <= 1
                      /\ {fd \in FD : sockets[fd] \in Conns} = {client[i] : i \in Used}
                      /\ allset = {sock} \cup {client[i] : i \in Used}
                      /\ g_i_connected_flag = Cardinality(Used)
                      /\ \A i \in Used : g_i_connected_id = client[i]
    BY DEF OneClient
  <2> USE DEF IndInv
  <2>1. New = {}
    BY DEF New
  <2>2. {fd \in FD : sockets[fd] \in Conns} = {client[i] : i \in Used}
    BY <2>1, ClientSockets DEF ClientsInv
  <2>3. CASE Used = {}
    <3>1. Cardinality(Used) = 0
      BY <2>3, FS_EmptySet
    <3> QED
      BY <2>2, <2>3, <3>1 DEF ClientsInv
  <2>4. CASE Used # {}
    <3>1. PICK i \in Used : Used = {i}
      BY <2>4 DEF ClientsInv
    <3>2. Cardinality(Used) = 1
      BY <3>1, FS_Singleton
    <3> QED
      BY <2>2, <3>1, <3>2 DEF ClientsInv
  <2> QED
    BY <2>3, <2>4
<1> QED
  BY Invariance, <1>1, PTL

\* tcpserver.c: the commands of a connection whose packets all end with a command are
\* handled once each and in order, in whatever chunks recv returns them.
THEOREM InOrder == Spec => []CommandsInOrder
<1>1. IndInv => CommandsInOrder
  BY DEF IndInv, PeersInv, PeerOK, CommandsInOrder
<1> QED
  BY Invariance, <1>1, PTL

\* tcpserver.c, application.c: no table and no volume goes to a PC that is no longer served,
\* although SPI_DSP uses a socket number that may have been closed and given out again.
THEOREM AnswersArrive == Spec => []AnswersReachClient
<1>1. IndInv => AnswersReachClient
  BY DEF IndInv
<1> QED
  BY Invariance, <1>1, PTL

(***************************************************************************)
(* The sockets                                                             *)
(***************************************************************************)
\* tcpserver.c: PCs that vanish without closing do not use up lwIP's sockets.
\* With three of them, one listening, there is a free one at every call of
\* accept, so that accept never fails for want of a socket.
SocketForNext == tcp.step = "accept" /\ NUM_SOCKETS >= 3 => FreeSockets # {}

\* No other socket listens: each is free or a connection.
OneListens == \A fd \in FD : sockets[fd] = LISTEN => fd = sock

\* accept gives a socket to a connection, and lwip_close frees some; nothing else
\* changes them.
LEMMA ListensStep ==
  ASSUME IndInv, OneListens, [Next]_vars
  PROVE  OneListens'
<1>1. CASE Accept
  <2>1. /\ Head(backlog) \in Conns /\ sockets \in [FD -> Conns \cup {FREE, LISTEN}]
        /\ sockets' = [sockets EXCEPT ![connected'] = Head(backlog)]
    BY <1>1 DEF Accept, IndInv, BacklogInv, SocketsInv
  <2> QED
    BY <2>1, TcpAssumption DEF OneListens, Conns, LISTEN
<1>2. CASE CloseOld \/ RecvClosed
  BY <1>2 DEF CloseOld, RecvClosed, lwip_close, OneListens, FREE, LISTEN
<1>3. CASE ~(Accept \/ CloseOld \/ RecvClosed)
  <2>1. UNCHANGED sockets
    BY <1>3 DEF Next, Tcpserv, SpiDsp, Connect, Deliver, Leave, host, Select, AcceptError,
                Register, EndOfRound, RecvData, UploadCheck, UploadId, UploadSend, server, vars
  <2> QED
    BY <2>1 DEF OneListens
<1> QED
  BY <1>1, <1>2, <1>3

\* When a connection is accepted one socket listens and at most one is in use.
LEMMA ThirdIsFree ==
  ASSUME IndInv, OneListens
  PROVE  SocketForNext
<1> SUFFICES ASSUME tcp.step = "accept", NUM_SOCKETS >= 3
             PROVE  \E fd \in FD : sockets[fd] = FREE
  BY DEF SocketForNext, FreeSockets
<1>1. 1 \in FD /\ 2 \in FD
  BY TcpAssumption DEF FD
<1>2. ASSUME NEW fd \in FD, fd # sock, sockets[fd] # FREE
      PROVE  \E i \in Used : fd = client[i]
  <2>1. sockets[fd] \in Conns
    BY <1>2 DEF OneListens, IndInv, SocketsInv
  <2> QED
    BY <1>2, <2>1 DEF IndInv, ClientsInv, New
<1>3. ASSUME NEW i \in Used, NEW j \in Used, 1 = client[i], 2 = client[j]
      PROVE  FALSE
  <2>1. i = j
    BY DEF IndInv, ClientsInv
  <2> QED
    BY <1>3, <2>1
<1> QED
  BY <1>1, <1>2, <1>3 DEF sock

\* tcpserver.c: with three sockets accept never fails for want of one, however many PCs
\* connected before and left without a word.
THEOREM SocketLeft == Spec => []SocketForNext
<1>1. Init => OneListens
  BY DEF Init, OneListens, FREE, LISTEN
<1>2. IndInv /\ OneListens /\ [Next]_vars => OneListens'
  BY ListensStep
<1>3. IndInv /\ OneListens => SocketForNext
  BY ThirdIsFree
<1> QED
  BY <1>1, <1>2, <1>3, Invariance, PTL DEF Spec
=============================================================================
