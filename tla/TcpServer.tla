----------------------------- MODULE TcpServer ------------------------------
(***************************************************************************)
(* The TCP server of the host (tcpserv of USER/tcpserver.c): a select loop *)
(* that serves one PC at a time.  A new connection closes the one before,  *)
(* whose PC may have gone without a word.  SPI_DSP, of lower priority,     *)
(* sends the volume of the knob to the connection in g_i_connected_id; the *)
(* steps of tcpserv end where a call into lwIP may let it run.             *)
(*                                                                         *)
(* TCP is a byte stream.  A command is two halves here; a chunk that recv  *)
(* returns is the halves of some packets, and its length is a multiple of  *)
(* four when it has an even number of them.  The first command of a PC is  *)
(* Open, which is answered with the tables.                                *)
(***************************************************************************)
EXTENDS Integers, FiniteSets, FiniteSetsExt, Sequences, SequencesExt

CONSTANTS
  MaxConns,       \* bound: connections that PCs make
  CLIENTS,        \* slots of client[]: 5
  NUM_SOCKETS,    \* lwIP's sockets
  Words,          \* commands that a PC sends on a connection
  MaxErrors,      \* bound: calls of accept that fail
  MaxPackets,     \* bound: packets from the PCs
  MaxCuts,        \* bound: the ones that end inside a command
  MaxUploads      \* bound: words from the DSP

ASSUME TcpAssumption ==
  /\ CLIENTS \in Nat \ {0} /\ NUM_SOCKETS \in Nat \ {0}
  /\ {MaxConns, Words, MaxErrors, MaxPackets, MaxCuts, MaxUploads} \subseteq Nat

VARIABLES
  peer,           \* per connection: "idle", "queued", "open" or "closed" in
                  \* lwIP, whether its PC is still there, the halves sent, where
                  \* each packet that has arrived ends, whether the PC's close has
                  \* arrived, the halves read and the commands handled (0 is none of the PC's),
                  \* and, as history, whether a packet ended inside a command
  backlog,        \* connections that wait for accept
  sockets,        \* sockets[fd]: FREE, LISTEN or a connection
  client,         \* client[i].fd
  maxi,
  connected,
  g_i_connected_flag, g_i_connected_id,
  allset, rset,   \* the sets of select, and
  nready,         \* how many it found
  tcp,            \* the next step of tcpserv, and the slot it looks at
  spi,            \* SPI_DSP in send_instru_via_socket: its step and the socket
  errors, packets, cuts, uploads,
  strayed         \* history: an answer or upload went where it should not

vars == <<peer, backlog, sockets, client, maxi, connected, g_i_connected_flag,
          g_i_connected_id, allset, rset, nready, tcp, spi, errors, packets, cuts,
          uploads, strayed>>

\* Groups of variables, for UNCHANGED.
link == <<g_i_connected_flag, g_i_connected_id>>
watched == <<allset, rset, nready>>
bounds == <<errors, packets, cuts, uploads>>

Conns == 1..MaxConns         \* in the order they are made
FD == 0..(NUM_SOCKETS - 1)
Slots == 0..(CLIENTS - 1)
FREE == -1                   \* what a socket may be besides a connection
LISTEN == -2
sock == 0                    \* the listening socket, the first one opened
NoPeer == [state |-> "idle", alive |-> TRUE, pos |-> 0, rx |-> <<>>, eof |-> FALSE,
           read |-> 0, handled |-> <<>>, cut |-> FALSE]
Closed == [NoPeer EXCEPT !.state = "closed"]   \* with nothing left of it

Init ==
  /\ peer = [c \in Conns |-> NoPeer]
  /\ backlog = <<>>
  /\ sockets = [fd \in FD |-> IF fd = sock THEN LISTEN ELSE FREE]
  /\ client = [i \in Slots |-> -1]
  /\ maxi = -1
  /\ connected = -1
  /\ g_i_connected_flag = 0 /\ g_i_connected_id = 0
  /\ allset = {sock} /\ rset = {} /\ nready = 0
  /\ tcp = [step |-> "select", i |-> 0]
  /\ spi = [step |-> "idle", id |-> 0]
  /\ errors = 0 /\ packets = 0 /\ cuts = 0 /\ uploads = 0
  /\ strayed = FALSE

-----------------------------------------------------------------------------
(***************************************************************************)
(* The PCs and the network                                                 *)
(***************************************************************************)
host == <<sockets, client, maxi, connected, link, watched, tcp, spi, strayed>>

Connect(c) ==
  /\ peer[c].state = "idle"
  /\ c > 1 => peer[c - 1].state # "idle"
  /\ peer' = [peer EXCEPT ![c].state = "queued"]
  /\ backlog' = Append(backlog, c)
  /\ UNCHANGED <<host, bounds>>

\* A packet with the next n halves.
Deliver(c, n) ==
  /\ peer[c].state \in {"queued", "open"} /\ peer[c].alive
  /\ peer[c].pos + n <= 2 * Words
  /\ LET odd == (peer[c].pos + n) % 2 # 0
     IN /\ peer' = [peer EXCEPT ![c].pos = @ + n, ![c].rx = Append(@, peer[c].pos + n),
                                ![c].cut = @ \/ odd]
        /\ cuts' = IF odd THEN cuts + 1 ELSE cuts
  /\ cuts' <= MaxCuts
  /\ packets < MaxPackets /\ packets' = packets + 1
  /\ UNCHANGED <<backlog, host, errors, uploads>>

\* The PC closes the connection, or is gone without a word.
Leave(c, close) ==
  /\ peer[c].state \in {"queued", "open"} /\ peer[c].alive
  /\ peer' = [peer EXCEPT ![c].alive = FALSE, ![c].eof = close]
  /\ UNCHANGED <<backlog, host, bounds>>

-----------------------------------------------------------------------------
(***************************************************************************)
(* tcpserv                                                                 *)
(***************************************************************************)
Readable(fd) ==
  IF fd = sock THEN backlog # <<>>
  ELSE sockets[fd] \in Conns /\ (peer[sockets[fd]].rx # <<>> \/ peer[sockets[fd]].eof)

\* Mutant: a new connection waits until the one before is closed.
MutantPolled == IF g_i_connected_flag = 1 THEN allset \ {sock} ELSE allset

\* The sockets that select is asked about.
Polled == allset

Select ==
  /\ tcp.step = "select"
  /\ rset' = {fd \in Polled : Readable(fd)}
  /\ rset' # {}
  /\ nready' = Cardinality(rset')
  /\ tcp' = [step |-> IF sock \in rset' THEN "accept" ELSE "clients", i |-> 0]
  /\ UNCHANGED <<peer, backlog, sockets, client, maxi, connected, link, allset, spi, bounds, strayed>>

FreeSockets == {fd \in FD : sockets[fd] = FREE}

\* Mutant: the loop goes on after the failure.
MutantAfterError == [tcp EXCEPT !.step = "close"]

\* continue
AfterError == [tcp EXCEPT !.step = "select"]

\* Back to select; what the last one found is not used any more.
Again == rset' = {} /\ nready' = 0

AcceptError ==
  /\ tcp.step = "accept"
  /\ errors < MaxErrors \/ FreeSockets = {}
  /\ errors' = IF FreeSockets = {} THEN errors ELSE errors + 1
  /\ connected' = -1
  /\ peer' = [peer EXCEPT ![Head(backlog)] = Closed]
  /\ backlog' = Tail(backlog)
  /\ tcp' = AfterError /\ Again
  /\ UNCHANGED <<sockets, client, maxi, link, allset, spi, packets, cuts, uploads, strayed>>

Accept ==
  /\ tcp.step = "accept"
  /\ FreeSockets # {}
  /\ connected' = Min(FreeSockets)
  /\ sockets' = [sockets EXCEPT ![connected'] = Head(backlog)]
  /\ peer' = [peer EXCEPT ![Head(backlog)].state = "open"]
  /\ backlog' = Tail(backlog)
  /\ tcp' = [tcp EXCEPT !.step = "close"]
  /\ UNCHANGED <<client, maxi, link, watched, spi, bounds, strayed>>

Used == {i \in Slots : client[i] >= 0}

\* Mutant: the connections left over stay.
MutantOldClients == {}

\* The slots that a new connection empties.
OldClients == Used

lwip_close(fds) ==
  /\ sockets' = [fd \in FD |-> IF fd \in fds THEN FREE ELSE sockets[fd]]
  /\ peer' = [c \in Conns |->
                IF \E fd \in fds : sockets[fd] = c
                THEN Closed ELSE peer[c]]

\* The connections left over are closed; both variables are cleared first.
CloseOld ==
  /\ tcp.step = "close"
  /\ LET old == {client[i] : i \in OldClients}
     IN /\ lwip_close(old)
        /\ allset' = allset \ old
        /\ g_i_connected_flag' = IF old = {} THEN g_i_connected_flag ELSE 0
        /\ g_i_connected_id' = IF old = {} THEN g_i_connected_id ELSE 0
  /\ client' = [i \in Slots |-> IF i \in OldClients THEN -1 ELSE client[i]]
  /\ tcp' = [tcp EXCEPT !.step = "register"]
  /\ UNCHANGED <<backlog, maxi, connected, rset, nready, spi, bounds, strayed>>

Register ==
  /\ tcp.step = "register"
  /\ LET free == Slots \ Used
         i == IF free = {} THEN CLIENTS ELSE Min(free)
     IN /\ client' = IF free = {} THEN client ELSE [client EXCEPT ![i] = connected]
        /\ maxi' = IF i > maxi THEN i ELSE maxi
  /\ g_i_connected_flag' = 1 /\ g_i_connected_id' = connected
  /\ allset' = allset \cup {connected}
  /\ IF nready <= 1
     THEN tcp' = [step |-> "select", i |-> 0] /\ Again
     ELSE tcp' = [step |-> "clients", i |-> 0] /\ nready' = nready - 1 /\ UNCHANGED rset
  /\ UNCHANGED <<peer, backlog, sockets, connected, spi, bounds, strayed>>

\* The slots whose sockets are still to be read in this round.
Pending == {i \in Slots : i >= tcp.i /\ i <= maxi /\ client[i] >= 0 /\ client[i] \in rset}

EndOfRound ==
  /\ tcp.step = "clients"
  /\ Pending = {}
  /\ tcp' = [step |-> "select", i |-> 0] /\ Again
  /\ UNCHANGED <<peer, backlog, sockets, client, maxi, connected, link, allset, spi, bounds, strayed>>

\* With one client at most (OneClient) the round ends here each time.
NextSlot(i) ==
  IF nready <= 1
  THEN tcp' = [step |-> "select", i |-> 0] /\ Again
  ELSE tcp' = [tcp EXCEPT !.i = i + 1] /\ nready' = nready - 1 /\ UNCHANGED rset

\* Mutant: the flag stays.
MutantDisconnected == g_i_connected_id' = 0 /\ UNCHANGED g_i_connected_flag

Disconnected == g_i_connected_flag' = 0 /\ g_i_connected_id' = 0

\* recv returns 0: the PC has closed the connection.
RecvClosed ==
  /\ tcp.step = "clients" /\ Pending # {}
  /\ LET i == Min(Pending)
         fd == client[i]
     IN /\ sockets[fd] \in Conns /\ peer[sockets[fd]].rx = <<>>
        /\ lwip_close({fd})
        /\ allset' = allset \ {fd}
        /\ client' = [client EXCEPT ![i] = -1]
        /\ NextSlot(i)
  /\ Disconnected
  /\ UNCHANGED <<backlog, maxi, connected, spi, bounds, strayed>>

\* Mutant: the last command of a chunk is left out.
MutantWordsOf(from, len) ==
  IF len % 2 # 0 THEN <<>>
  ELSE [n \in 1..(len \div 2 - 1) |-> IF from % 2 = 0 THEN from \div 2 + n ELSE 0]

\* The commands in the halves from + 1 .. from + len: the PC's own when the
\* chunk begins with one, and mixtures of two otherwise.
WordsOf(from, len) ==
  IF len % 2 # 0 THEN <<>>
  ELSE [n \in 1..(len \div 2) |-> IF from % 2 = 0 THEN from \div 2 + n ELSE 0]

\* recv returns the first n packets, or with the last one takes the close as
\* well (lwip_recvfrom goes on after a packet without PUSH); the commands are
\* handled, see CmdTable and HostControl.  Open is answered on connected, the
\* result of the last call of accept, and not at all when that one failed.
RecvData(n, swallow) ==
  /\ tcp.step = "clients" /\ Pending # {}
  /\ LET i == Min(Pending)
         c == sockets[client[i]]
         words == WordsOf(peer[c].read, peer[c].rx[n] - peer[c].read)
     IN /\ c \in Conns /\ n <= Len(peer[c].rx)
        /\ swallow => n = Len(peer[c].rx) /\ peer[c].eof
        /\ peer' = [peer EXCEPT ![c].rx = SubSeq(@, n + 1, Len(@)),
                                ![c].read = peer[c].rx[n],
                                ![c].eof = @ /\ ~swallow,
                                ![c].handled = @ \o words]
        /\ strayed' = \/ strayed
                      \/ 1 \in ToSet(words) /\ connected # -1 /\ sockets[connected] # c
        /\ NextSlot(i)
  /\ UNCHANGED <<backlog, sockets, client, maxi, connected, link, allset, spi, bounds>>

Tcpserv ==
  \/ Select \/ AcceptError \/ Accept \/ CloseOld \/ Register \/ EndOfRound \/ RecvClosed
  \/ \E n \in 1..(2 * Words), swallow \in BOOLEAN : RecvData(n, swallow)

-----------------------------------------------------------------------------
(***************************************************************************)
(* SPI_DSP: send_instru_via_socket                                         *)
(***************************************************************************)
server == <<peer, backlog, sockets, client, maxi, connected, link, watched, tcp, errors, packets, cuts>>

\* With the cable unplugged (get_link_status) nothing is sent: no upload.
UploadCheck ==
  /\ spi.step = "idle" /\ uploads < MaxUploads
  /\ g_i_connected_flag = 1
  /\ spi' = [spi EXCEPT !.step = "id"]
  /\ uploads' = uploads + 1
  /\ UNCHANGED <<server, strayed>>

UploadId ==
  /\ spi.step = "id"
  /\ spi' = [step |-> "send", id |-> g_i_connected_id]
  /\ UNCHANGED <<server, uploads, strayed>>

\* The connection that is served, and the one that is being accepted.
Current ==
  {sockets[client[i]] : i \in Used}
    \cup (IF tcp.step \in {"close", "register"} THEN {sockets[connected]} ELSE {})

\* send fails on a socket that is free or listens.
UploadSend ==
  /\ spi.step = "send"
  /\ spi' = [step |-> "idle", id |-> 0]
  /\ strayed' = (strayed \/ sockets[spi.id] \in Conns \ Current)
  /\ UNCHANGED <<server, uploads>>

SpiDsp == UploadCheck \/ UploadId \/ UploadSend

Next ==
  \/ \E c \in Conns :
       \/ Connect(c)
       \/ \E n \in 1..(2 * Words) : Deliver(c, n)
       \/ \E close \in BOOLEAN : Leave(c, close)
  \/ Tcpserv
  \/ SpiDsp

\* tcpserv runs when it is not blocked (a send to a PC that is gone ends when
\* lwIP gives up); nothing makes PCs connect or send.
Spec == Init /\ [][Next]_vars /\ WF_vars(Tcpserv)

-----------------------------------------------------------------------------
\* The shape of the state: a socket number in use is never the -1 of a failed
\* call or an empty slot, for which neither lwip_close nor FD_SET test.
TypeOK ==
  /\ \A c \in Conns :
       /\ peer[c].state \in {"idle", "queued", "open", "closed"}
       /\ peer[c].read <= peer[c].pos /\ peer[c].pos <= 2 * Words
  /\ \A n \in 1..Len(backlog) : peer[backlog[n]].state = "queued"
  /\ sockets \in [FD -> Conns \cup {FREE, LISTEN}]
  /\ client \in [Slots -> FD \cup {-1}]
  /\ maxi \in -1..(CLIENTS - 1)
  /\ connected \in FD \cup {-1}
  /\ g_i_connected_flag \in {0, 1} /\ g_i_connected_id \in FD
  /\ rset \subseteq FD /\ allset \subseteq FD
  /\ spi.id \in FD

\* The comment on the loop that closes says that only one client is supported:
\* whenever tcpserv waits, there is at most one, its socket is the only one in
\* use besides the listening one, it is watched, and the flag and the
\* identifier that SPI_DSP goes by say so.
OneClient ==
  tcp.step = "select" =>
    /\ Cardinality(Used) <= 1
    /\ {fd \in FD : sockets[fd] \in Conns} = {client[i] : i \in Used}
    /\ allset = {sock} \cup {client[i] : i \in Used}
    /\ g_i_connected_flag = Cardinality(Used)
    /\ \A i \in Used : g_i_connected_id = client[i]

\* The commands of a connection are handled once each and in order, however
\* they are packed into chunks, as long as no packet of this connection ended
\* inside a command; a cut on one connection does not reach the next one.
CommandsInOrder ==
  \A c \in Conns :
    ~peer[c].cut => peer[c].handled = [n \in 1..(peer[c].read \div 2) |-> n]

\* The tables go to the PC that opened, unless accept failed since, and a
\* volume goes to the PC that is served or just being accepted, although
\* SPI_DSP may use a socket number that was closed and given out again.
AnswersReachClient == ~strayed

\* A PC that waits for accept is in the end served, also after PCs that left
\* without a word, as long as accept does not fail.
NewClientServed ==
  \A c \in Conns :
    (peer[c].state = "queued") ~>
      (errors > 0 \/ \E i \in Used : sockets[client[i]] = c)
=============================================================================
