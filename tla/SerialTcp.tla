----------------------------- MODULE SerialTcp ------------------------------
(***************************************************************************)
(* One UART port of the serial TCP bridge (serial_tcp_win.c): the listener *)
(* thread that accepts configurator connections into a few client slots,   *)
(* one receive thread per connection, the firmware that writes to and      *)
(* reads from the port, and the host that drops the clients on a reboot or *)
(* stops the bridge.                                                       *)
(*                                                                         *)
(* A critical section (clientLocks, rxLock) is one step; whatever the code *)
(* does after it left the lock is another.  Socket handles are reused by   *)
(* the operating system: accept may return any handle that is not open.    *)
(*                                                                         *)
(* External: Winsock, the peers, and the firmware's CLI, which a byte      *)
(* enters ("#") and a line leaves ("exit"); anything else is "data".       *)
(***************************************************************************)
EXTENDS Naturals, Sequences, FiniteSets

CONSTANTS Slots,       \* 1..MAX_TCP_CLIENTS
          Handles,     \* the socket handles of the operating system
          Conns,       \* bound: the connections made, 1..n in order of arrival
          Starts,      \* the connections to come, and how much of each bound is used up
          RxSize,      \* rxBufferSize; one byte of it stays unused
          MaxSend,     \* bound: bytes a peer sends
          MaxDrops,    \* bound: reboots that drop the clients
          MaxStops,    \* bound: serialTcpStop calls
          INVALID      \* INVALID_SOCKET

ASSUME TcpConstants ==
    /\ Slots \subseteq Nat \ {0} /\ IsFiniteSet(Slots)
    /\ Conns \subseteq Nat \ {0}
    /\ Handles \subseteq Nat /\ INVALID \notin Handles
    /\ \A s \in Starts : /\ s.conns \subseteq Conns
                         /\ s.sent \in 0 .. MaxSend /\ s.stops \in 0 .. MaxStops
    /\ RxSize \in Nat \ {0}
    /\ MaxSend \in Nat /\ MaxDrops \in Nat /\ MaxStops \in Nat

VARIABLES
    \* shared state of the port
    clientSockets,   \* slot -> handle or INVALID
    clientCount,
    connected,
    rxBuffer,        \* bytes waiting, each with the connection it came from
    tcpStopping,
    listening,       \* the listen socket is open
    \* threads
    server,          \* the listener: where it is, and the client it holds
    thread,          \* per connection: its receive thread
    host,            \* progress of serialTcpStop
    \* operating system and peers
    behind,          \* handle -> the connection behind it, or 0 when closed
    peer,            \* connection -> "new", "up", "left" (peer closed), "gone"
    inbox,           \* connection -> bytes sent and not yet received
    sent,            \* connection -> bytes sent so far (bounded)
    drops, stops,    \* bounds used up
    \* firmware
    cli,             \* the connection that opened the CLI session, or 0
    \* history
    first            \* connections that found no other client

portVars == <<clientSockets, clientCount, connected>>
osVars   == <<behind, peer, inbox, sent>>
vars     == <<portVars, rxBuffer, tcpStopping, listening, server, thread, host,
              osVars, drops, stops, cli, first>>

Bytes   == {"#", "data", "exit"}
RxByte  == [from : Conns \cup {0}, byte : Bytes]
Pc      == {"none", "poll", "recv", "input", "disconnect", "close", "recheck", "inject", "done"}
Thread  == [pc : Pc, sock : Handles \cup {INVALID}, slot : Slots \cup {0}, buf : Seq(RxByte)]
NoThread(pc) == [pc |-> pc, sock |-> INVALID, slot |-> 0, buf |-> <<>>]
Idle    == [pc |-> "top", sock |-> INVALID, slot |-> 0, conn |-> 0]

TypeOK ==
    /\ clientSockets \in [Slots -> Handles \cup {INVALID}]
    /\ clientCount \in Nat /\ connected \in BOOLEAN
    /\ rxBuffer \in Seq(RxByte) /\ Len(rxBuffer) < RxSize
    /\ tcpStopping \in BOOLEAN /\ listening \in BOOLEAN
    /\ server \in [pc : {"top", "accept", "place", "spawn", "cleanup", "exited"},
                   sock : Handles \cup {INVALID}, slot : Slots \cup {0}, conn : Conns \cup {0}]
    /\ thread \in [Conns -> Thread]
    /\ host \in {"run", "drop", "unlisten", "stopped"}
    /\ behind \in [Handles -> Conns \cup {0}]
    /\ peer \in [Conns -> {"new", "up", "left", "gone"}]
    /\ inbox \in [Conns -> Seq({"#", "data"})]
    /\ sent \in [Conns -> 0 .. MaxSend]
    /\ drops \in 0 .. MaxDrops /\ stops \in 0 .. MaxStops
    /\ cli \in Conns \cup {0}
    /\ first \subseteq Conns

Init ==
    /\ clientSockets = [i \in Slots |-> INVALID] /\ clientCount = 0 /\ connected = FALSE
    /\ rxBuffer = <<>> /\ tcpStopping = FALSE /\ listening = TRUE
    /\ server = Idle
    /\ thread = [c \in Conns |-> NoThread("none")]
    /\ host = "run"
    /\ behind = [h \in Handles |-> 0]
    /\ inbox = [c \in Conns |-> <<>>]
    /\ \E s \in Starts :
          /\ peer = [c \in Conns |-> IF c \in s.conns THEN "new" ELSE "gone"]
          /\ sent = [c \in Conns |-> s.sent] /\ stops = s.stops
    /\ drops = 0 /\ cli = 0 /\ first = {}

-----------------------------------------------------------------------------
(* Operating system *)

Open(h)     == h \in Handles /\ behind[h] # 0
First(S)    == {h \in S : \A k \in S : h <= k}
\* The handles the bridge still has a value of
Known       == {clientSockets[i] : i \in Slots} \cup {thread[c].sock : c \in Conns} \cup {server.sock}
\* What accept may return: a handle in use again, or one that means nothing to the
\* bridge; those are interchangeable and the least stands for all of them
Offered     == LET closed == {h \in Handles : ~Open(h)}
               IN  (closed \cap Known) \cup First(closed \ Known)
Occupied    == {i \in Slots : clientSockets[i] # INVALID}

\* closesocket on a set of handles: their connections are gone for the peers
\* and what was not received is discarded
CloseAll(hs) ==
    /\ behind' = [h \in Handles |-> IF h \in hs THEN 0 ELSE behind[h]]
    /\ peer' = [c \in Conns |-> IF \E h \in hs : behind[h] = c THEN "gone" ELSE peer[c]]
    /\ inbox' = [c \in Conns |-> IF \E h \in hs : behind[h] = c THEN <<>> ELSE inbox[c]]
    /\ UNCHANGED sent

\* Mutant of tcpDataIn: the ring is not checked for room
tcpDataInUnchecked(bytes) == rxBuffer' = rxBuffer \o bytes

\* tcpDataIn: append while there is room, drop the rest
tcpDataIn(bytes) ==
    LET room == (RxSize - 1) - Len(rxBuffer)
    IN  rxBuffer' = rxBuffer \o SubSeq(bytes, 1, IF Len(bytes) < room THEN Len(bytes) ELSE room)

PeerSend(c) ==
    /\ peer[c] = "up" /\ sent[c] < MaxSend
    /\ \E b \in {"#", "data"} : inbox' = [inbox EXCEPT ![c] = Append(@, b)]
    /\ sent' = [sent EXCEPT ![c] = @ + 1]
    /\ UNCHANGED <<portVars, rxBuffer, tcpStopping, listening, server, thread, host,
                   behind, peer, drops, stops, cli, first>>

PeerLeave(c) ==
    /\ peer[c] = "up"
    /\ peer' = [peer EXCEPT ![c] = "left"]
    /\ UNCHANGED <<portVars, rxBuffer, tcpStopping, listening, server, thread, host,
                   behind, inbox, sent, drops, stops, cli, first>>

-----------------------------------------------------------------------------
(* Listener thread: tcpServerThread *)

\* Top of the loop
ServerTop ==
    /\ server.pc = "top"
    /\ server' = [Idle EXCEPT !.pc = IF tcpStopping THEN "exited" ELSE "accept"]
    /\ UNCHANGED <<portVars, rxBuffer, tcpStopping, listening, thread, host,
                   osVars, drops, stops, cli, first>>

\* accept: the next connection, on any handle that is closed
Accept(c, h) ==
    /\ server.pc = "accept" /\ listening
    /\ peer[c] = "new" /\ \A d \in Conns : d < c => peer[d] # "new"
    /\ h \in Offered
    /\ server' = [pc |-> "place", sock |-> h, slot |-> 0, conn |-> c]
    /\ behind' = [behind EXCEPT ![h] = c]
    /\ peer' = [peer EXCEPT ![c] = "up"]
    /\ UNCHANGED <<portVars, rxBuffer, tcpStopping, listening, thread, host,
                   inbox, sent, drops, stops, cli, first>>

\* accept fails once the listen socket is closed: leave if that was a stop
AcceptFail ==
    /\ server.pc = "accept" /\ ~listening
    /\ server' = [Idle EXCEPT !.pc = IF tcpStopping THEN "exited" ELSE "top"]
    /\ UNCHANGED <<portVars, rxBuffer, tcpStopping, listening, thread, host,
                   osVars, drops, stops, cli, first>>

\* Under clientLocks: the lowest free slot
Place ==
    /\ server.pc = "place" /\ Occupied # Slots
    /\ LET slot == CHOOSE i \in Slots \ Occupied : \A j \in Slots \ Occupied : i <= j
       IN  /\ clientSockets' = [clientSockets EXCEPT ![slot] = server.sock]
           /\ server' = [server EXCEPT !.pc = "spawn", !.slot = slot]
    /\ clientCount' = clientCount + 1
    /\ connected' = TRUE
    /\ first' = IF clientCount = 0 THEN first \cup {server.conn} ELSE first
    /\ UNCHANGED <<rxBuffer, tcpStopping, listening, thread, host, osVars, drops, stops, cli>>

\* All slots taken: the connection is closed again
PlaceFull ==
    /\ server.pc = "place" /\ Occupied = Slots
    /\ CloseAll({server.sock})
    /\ server' = Idle
    /\ UNCHANGED <<portVars, rxBuffer, tcpStopping, listening, thread, host,
                   drops, stops, cli, first>>

StartThread(pc) ==
    thread' = [thread EXCEPT ![server.conn] =
                 [pc |-> pc, sock |-> server.sock, slot |-> server.slot, buf |-> <<>>]]

Spawn ==
    /\ server.pc = "spawn"
    /\ StartThread("poll")
    /\ server' = Idle
    /\ UNCHANGED <<portVars, rxBuffer, tcpStopping, listening, host, osVars,
                   drops, stops, cli, first>>

\* malloc or pthread_create fails: the listener runs tcpClientDisconnect itself
SpawnFail ==
    /\ server.pc = "spawn"
    /\ StartThread("disconnect")
    /\ server' = [server EXCEPT !.pc = "cleanup"]
    /\ UNCHANGED <<portVars, rxBuffer, tcpStopping, listening, host, osVars,
                   drops, stops, cli, first>>

CleanupDone ==
    /\ server.pc = "cleanup" /\ thread[server.conn].pc = "done"
    /\ server' = Idle
    /\ UNCHANGED <<portVars, rxBuffer, tcpStopping, listening, thread, host, osVars,
                   drops, stops, cli, first>>

-----------------------------------------------------------------------------
(* Receive thread of connection c: tcpClientThread *)

Move(c, pc) == thread' = [thread EXCEPT ![c].pc = pc]
End(c)      == thread' = [thread EXCEPT ![c] = NoThread("done")]
Behind(c)   == behind[thread[c].sock]

\* select reports the socket readable: data, or the peer's close.  A timeout
\* and an error (a handle that is not a socket any more) both just go round
Select(c) ==
    /\ thread[c].pc = "poll"
    /\ Open(thread[c].sock)
    /\ inbox[Behind(c)] # <<>> \/ peer[Behind(c)] = "left"
    /\ Move(c, "recv")
    /\ UNCHANGED <<portVars, rxBuffer, tcpStopping, listening, server, host, osVars,
                   drops, stops, cli, first>>

\* recv returns data of whatever connection is behind the handle by now
RecvData(c) ==
    /\ thread[c].pc = "recv" /\ Open(thread[c].sock)
    /\ inbox[Behind(c)] # <<>>
    /\ thread' = [thread EXCEPT ![c].pc = "input", ![c].buf =
         [k \in DOMAIN inbox[Behind(c)] |-> [from |-> Behind(c), byte |-> inbox[Behind(c)][k]]]]
    /\ inbox' = [inbox EXCEPT ![Behind(c)] = <<>>]
    /\ UNCHANGED <<portVars, rxBuffer, tcpStopping, listening, server, host,
                   behind, peer, sent, drops, stops, cli, first>>

\* Mutant of RecvEnd: a recv that returned nothing is tried again
RecvEndRetrying(c) ==
    /\ thread[c].pc = "recv"
    /\ Open(thread[c].sock) => inbox[Behind(c)] = <<>>
    /\ Move(c, "poll")
    /\ UNCHANGED <<portVars, rxBuffer, tcpStopping, listening, server, host, osVars,
                   drops, stops, cli, first>>

\* recv returns 0 (peer closed) or an error (no data any more, or no socket)
RecvEnd(c) ==
    /\ thread[c].pc = "recv"
    /\ Open(thread[c].sock) => inbox[Behind(c)] = <<>>
    /\ Move(c, "disconnect")
    /\ UNCHANGED <<portVars, rxBuffer, tcpStopping, listening, server, host, osVars,
                   drops, stops, cli, first>>

Input(c) ==
    /\ thread[c].pc = "input"
    /\ tcpDataIn(thread[c].buf)
    /\ thread' = [thread EXCEPT ![c].pc = "poll", ![c].buf = <<>>]
    /\ UNCHANGED <<portVars, tcpStopping, listening, server, host, osVars,
                   drops, stops, cli, first>>

-----------------------------------------------------------------------------
(* tcpClientDisconnect, run by the receive thread (or by the listener) *)

\* Mutant of DisconnectOwner: whoever holds the slot is thrown out of it
DisconnectAnybody(c) ==
    /\ thread[c].pc = "disconnect"
    /\ clientSockets' = [clientSockets EXCEPT ![thread[c].slot] = INVALID]
    /\ clientCount' = IF clientCount > 0 THEN clientCount - 1 ELSE 0
    /\ connected' = (connected /\ clientCount' # 0)
    /\ Move(c, "close")
    /\ UNCHANGED <<rxBuffer, tcpStopping, listening, server, host, osVars,
                   drops, stops, cli, first>>

\* Under clientLocks: give the slot up, if it still holds this socket
DisconnectOwner(c) ==
    /\ thread[c].pc = "disconnect"
    /\ clientSockets[thread[c].slot] = thread[c].sock
    /\ clientSockets' = [clientSockets EXCEPT ![thread[c].slot] = INVALID]
    /\ clientCount' = IF clientCount > 0 THEN clientCount - 1 ELSE 0
    /\ connected' = (connected /\ clientCount' # 0)
    /\ Move(c, "close")
    /\ UNCHANGED <<rxBuffer, tcpStopping, listening, server, host, osVars,
                   drops, stops, cli, first>>

DisconnectStale(c) ==
    /\ thread[c].pc = "disconnect"
    /\ clientSockets[thread[c].slot] # thread[c].sock
    /\ End(c)
    /\ UNCHANGED <<portVars, rxBuffer, tcpStopping, listening, server, host, osVars,
                   drops, stops, cli, first>>

CloseSocket(c) ==
    /\ thread[c].pc = "close"
    /\ CloseAll({thread[c].sock})
    /\ Move(c, "recheck")
    /\ UNCHANGED <<portVars, rxBuffer, tcpStopping, listening, server, host,
                   drops, stops, cli, first>>

\* clientCount is read again, outside the lock
Recheck(c) ==
    /\ thread[c].pc = "recheck"
    /\ IF clientCount = 0 THEN Move(c, "inject") ELSE End(c)
    /\ UNCHANGED <<portVars, rxBuffer, tcpStopping, listening, server, host, osVars,
                   drops, stops, cli, first>>

\* "exit noreboot" into the receive ring
Inject(c) ==
    /\ thread[c].pc = "inject"
    /\ tcpDataIn(<<[from |-> 0, byte |-> "exit"]>>)
    /\ End(c)
    /\ UNCHANGED <<portVars, tcpStopping, listening, server, host, osVars,
                   drops, stops, cli, first>>

-----------------------------------------------------------------------------
(* Firmware *)

tcpTotalRxBytesWaiting == Len(rxBuffer)

\* tcpRead by the MSP/CLI task
FirmwareRead ==
    /\ tcpTotalRxBytesWaiting > 0
    /\ rxBuffer' = Tail(rxBuffer)
    /\ cli' = CASE cli = 0 /\ Head(rxBuffer).byte = "#"     -> Head(rxBuffer).from
                [] cli # 0 /\ Head(rxBuffer).byte = "exit"  -> 0
                [] OTHER                                    -> cli
    /\ UNCHANGED <<portVars, tcpStopping, listening, server, thread, host, osVars,
                   drops, stops, first>>

\* Mutant of FirmwareWrite: the clients that went away are not counted off
FirmwareWriteUncounted ==
    \E fail \in SUBSET {i \in Occupied : peer[behind[clientSockets[i]]] = "left"} :
        /\ fail # {}
        /\ CloseAll({clientSockets[i] : i \in fail})
        /\ clientSockets' = [i \in Slots |-> IF i \in fail THEN INVALID ELSE clientSockets[i]]
        /\ UNCHANGED <<clientCount, connected, rxBuffer, tcpStopping, listening, server,
                       thread, host, drops, stops, cli, first>>

\* tcpDataOut: send to every slot under clientLocks; a send may fail once the
\* peer has closed, and then the slot and the socket are given up
FirmwareWrite ==
    \E fail \in SUBSET {i \in Occupied : peer[behind[clientSockets[i]]] = "left"} :
        /\ fail # {}
        /\ CloseAll({clientSockets[i] : i \in fail})
        /\ clientSockets' = [i \in Slots |-> IF i \in fail THEN INVALID ELSE clientSockets[i]]
        /\ clientCount' = IF clientCount > Cardinality(fail)
                          THEN clientCount - Cardinality(fail) ELSE 0
        /\ connected' = (connected /\ clientCount' # 0)
        /\ UNCHANGED <<rxBuffer, tcpStopping, listening, server, thread, host,
                       drops, stops, cli, first>>

-----------------------------------------------------------------------------
(* Host *)

\* Mutant of DropAll: the sockets are closed and left in their slots
DropAllKeepingSlots ==
    /\ CloseAll({clientSockets[i] : i \in Occupied})
    /\ clientCount' = 0 /\ connected' = FALSE
    /\ UNCHANGED clientSockets

\* serialTcpDropClients under clientLocks
DropAll ==
    /\ CloseAll({clientSockets[i] : i \in Occupied})
    /\ clientSockets' = [i \in Slots |-> INVALID]
    /\ clientCount' = 0 /\ connected' = FALSE

\* A firmware reboot (sitlLocalRequestReboot) leaves the CLI and drops the clients
RebootDrop ==
    /\ host = "run" /\ drops < MaxDrops
    /\ DropAll
    /\ cli' = 0
    /\ drops' = drops + 1
    /\ UNCHANGED <<rxBuffer, tcpStopping, listening, server, thread, host, stops, first>>

\* serialTcpStop: the flag, the clients, then the listen socket
Stop ==
    /\ host = "run" /\ stops < MaxStops
    /\ tcpStopping' = TRUE /\ host' = "drop" /\ stops' = stops + 1
    /\ UNCHANGED <<portVars, rxBuffer, listening, server, thread, osVars, drops, cli, first>>

StopDrop ==
    /\ host = "drop" /\ host' = "unlisten"
    /\ DropAll
    /\ UNCHANGED <<rxBuffer, tcpStopping, listening, server, thread, drops, stops, cli, first>>

StopUnlisten ==
    /\ host = "unlisten" /\ host' = "stopped"
    /\ listening' = FALSE
    /\ UNCHANGED <<portVars, rxBuffer, tcpStopping, server, thread, osVars,
                   drops, stops, cli, first>>

\* serTcpOpen of the next sitl_local_init: tcpReconfigure resets the slots and
\* starts a new listener, and the ring is emptied.  Sleep(100) in
\* serialTcpStop is taken to be long enough for the old listener to leave
Reopen ==
    /\ host = "stopped" /\ server.pc = "exited"
    /\ host' = "run" /\ tcpStopping' = FALSE /\ listening' = TRUE
    /\ clientSockets' = [i \in Slots |-> INVALID]
    /\ clientCount' = 0 /\ connected' = FALSE
    /\ rxBuffer' = <<>>
    /\ server' = Idle
    /\ UNCHANGED <<thread, osVars, drops, stops, cli, first>>

-----------------------------------------------------------------------------
Server == \/ \E c \in Conns, h \in Handles : Accept(c, h)
          \/ ServerTop \/ AcceptFail \/ Place \/ PlaceFull \/ Spawn \/ SpawnFail \/ CleanupDone

Client(c) == \/ Select(c) \/ RecvData(c) \/ RecvEnd(c) \/ Input(c)
             \/ DisconnectOwner(c) \/ DisconnectStale(c)
             \/ CloseSocket(c) \/ Recheck(c) \/ Inject(c)

HostStep == RebootDrop \/ Stop \/ StopDrop \/ StopUnlisten \/ Reopen

Next == \/ Server
        \/ \E c \in Conns : Client(c) \/ PeerSend(c) \/ PeerLeave(c)
        \/ FirmwareRead \/ FirmwareWrite
        \/ HostStep

Spec == Init /\ [][Next]_vars

\* Every thread is scheduled; nobody has to connect, send, leave or stop
Fairness == /\ WF_vars(ServerTop \/ AcceptFail) /\ WF_vars(Place \/ PlaceFull)
            /\ WF_vars(Spawn \/ SpawnFail) /\ WF_vars(CleanupDone)
            /\ \A c \in Conns : WF_vars(Client(c))
            /\ WF_vars(FirmwareRead)

FairSpec == Spec /\ Fairness

-----------------------------------------------------------------------------
(* Properties *)

InSlot(c) == \E i \in Occupied : behind[clientSockets[i]] = c

\* The table of slots, the count kept by hand in five places and the sockets
\* themselves agree: a slot never holds a closed socket, nor two slots the same
\* one, so tcpDataOut never sends to a handle the system may have given to
\* somebody else; and "the last client went away" and connected mean it.
SlotsAgree ==
    /\ TypeOK
    /\ clientCount = Cardinality(Occupied)
    /\ connected = (Occupied # {})
    /\ \A i \in Occupied : Open(clientSockets[i])
    /\ \A i, j \in Occupied : clientSockets[i] = clientSockets[j] => i = j

\* A drop, a failed send and a receive thread race for the same socket: the
\* one that took the slot is the only one to close it (a second closesocket
\* could hit a handle that is in use again).
ClosedOnce ==
    \A c \in Conns : thread[c].pc = "close" =>
        /\ Open(thread[c].sock)
        /\ \A i \in Occupied : clientSockets[i] # thread[c].sock
        /\ \A d \in Conns \ {c} : thread[d].pc = "close" => thread[d].sock # thread[c].sock

\* A peer that leaves gives its slot back, whatever happens at the same time;
\* there are only MAX_TCP_CLIENTS of them.  A connection leaves once, so one that
\* kept its slot would stay among the leavers for ever.
Leavers == {c \in Conns : peer[c] = "left" /\ InSlot(c)}
LeaverFreesSlot == Leavers # {} ~> Leavers = {}

\* "so the CLI session ends and the next connection starts clean in MSP mode"
\* (serial_tcp_win.c:102): no byte of a connection that found no other client
\* is read in the CLI session of an earlier one.
NextConnectionStartsClean ==
    [][(rxBuffer # <<>> /\ rxBuffer' = Tail(rxBuffer)) =>
          LET c == Head(rxBuffer).from IN
          ~(c \in first /\ cli # 0 /\ cli < c)]_vars
=============================================================================
