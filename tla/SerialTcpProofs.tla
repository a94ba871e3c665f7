--------------------------- MODULE SerialTcpProofs --------------------------
(***************************************************************************)
(* Who owns a socket of the serial TCP bridge: proofs about SerialTcp for  *)
(* every number of slots, handles and connections, with handles that the   *)
(* operating system reuses.                                                *)
(***************************************************************************)
EXTENDS SerialTcp, FiniteSetTheorems, SequenceTheorems, WellFoundedInduction, TLAPS

-----------------------------------------------------------------------------
(* Types *)

\* A thread that runs knows a socket and a slot; INVALID is never taken for a
\* socket, so an empty slot never passes for one that still holds it.
ThreadsHold ==
    \A c \in Conns : thread[c].pc \notin {"none", "done"} =>
        thread[c].sock \in Handles /\ thread[c].slot \in Slots

\* The client in the hands of the listener.
ListenerHolds ==
    /\ server.pc \in {"place", "spawn", "cleanup"} =>
         server.sock \in Handles /\ server.conn \in Conns
    /\ server.pc \in {"spawn", "cleanup"} => server.slot \in Slots

TypeInv == TypeOK /\ ThreadsHold /\ ListenerHolds

\* The connection that is accepted and not yet placed is open, and nobody
\* else, neither a slot nor a thread about to close, has its handle.
Unplaced ==
    server.pc = "place" =>
        /\ Open(server.sock)
        /\ \A i \in Occupied : clientSockets[i] # server.sock
        /\ \A c \in Conns : thread[c].pc = "close" => thread[c].sock # server.sock

Owners == SlotsAgree /\ ClosedOnce /\ Unplaced

TcpInv == TypeInv /\ Owners

\* Some set of numbers that is not empty has a least element.
LEMMA LeastExists ==
    ASSUME NEW S \in SUBSET Nat, S # {}
    PROVE  \E i \in S : \A j \in S : i <= j
<1>1. PICK i \in S : \A j \in S : <<j, i>> \notin OpToRel(<, Nat)
  BY WFMin, NatLessThanWellFounded, Zenon
<1>2. \A j \in S : ~(j < i)
  BY <1>1, Zenon DEF OpToRel
<1>3. QED
  BY <1>2

\* Appending to the receive ring keeps its bytes and its bound.
LEMMA DataIn ==
    ASSUME TypeOK, NEW bytes \in Seq(RxByte), tcpDataIn(bytes)
    PROVE  rxBuffer' \in Seq(RxByte) /\ Len(rxBuffer') < RxSize
<1> DEFINE room == (RxSize - 1) - Len(rxBuffer)
           n == IF Len(bytes) < room THEN Len(bytes) ELSE room
           taken == SubSeq(bytes, 1, n)
<1>1. n \in 0 .. room /\ n <= Len(bytes) /\ room \in Nat
  BY TcpConstants DEF TcpConstants, TypeOK
<1>2. taken \in Seq(RxByte) /\ Len(taken) = n
  BY <1>1
<1>3. rxBuffer' = rxBuffer \o taken
  BY DEF tcpDataIn
<1> HIDE DEF n, taken
<1>4. rxBuffer' \in Seq(RxByte) /\ Len(rxBuffer') = Len(rxBuffer) + n
  <2>1. rxBuffer \in Seq(RxByte)
    BY DEF TypeOK
  <2>2. QED
    BY <1>2, <1>3, <2>1, ConcatProperties, Zenon
<1>5. QED
  BY <1>1, <1>4, TcpConstants DEF TypeOK, TcpConstants

\* closesocket keeps the types of the operating system's state.
LEMMA CloseTypes ==
    ASSUME TypeOK, NEW hs, CloseAll(hs)
    PROVE  /\ behind' \in [Handles -> Conns \cup {0}]
           /\ peer' \in [Conns -> {"new", "up", "left", "gone"}]
           /\ inbox' \in [Conns -> Seq({"#", "data"})]
           /\ sent' = sent
BY DEF TypeOK, CloseAll

\* Only thread c changes.
OthersStay(c) == \A d \in Conns \ {c} : thread'[d] = thread[d]

\* Moving a thread leaves what it knows alone.
LEMMA MoveTypes ==
    ASSUME TypeOK, NEW c \in Conns, NEW pc \in Pc, Move(c, pc)
    PROVE  /\ thread' \in [Conns -> Thread] /\ OthersStay(c)
           /\ thread'[c].pc = pc
           /\ thread'[c].sock = thread[c].sock /\ thread'[c].slot = thread[c].slot
<1>1. thread \in [Conns -> Thread]
  BY DEF TypeOK
<1>2. thread[c] \in Thread
  BY <1>1
<1>3. [thread[c] EXCEPT !.pc = pc] \in Thread
  BY <1>2 DEF Thread
<1>4. thread' = [thread EXCEPT ![c] = [thread[c] EXCEPT !.pc = pc]]
  BY <1>1 DEF Move
<1>5. QED
  BY <1>1, <1>2, <1>3, <1>4 DEF OthersStay, Thread

\* A thread that has ended knows nothing.
LEMMA EndTypes ==
    ASSUME TypeOK, NEW c \in Conns, End(c)
    PROVE  /\ thread' \in [Conns -> Thread] /\ OthersStay(c)
           /\ thread'[c].pc = "done"
<1>1. thread \in [Conns -> Thread]
  BY DEF TypeOK
<1>2. <<>> \in Seq(RxByte)
  OBVIOUS
<1>3. NoThread("done") \in Thread /\ NoThread("done").pc = "done"
  BY <1>2 DEF NoThread, Thread, Pc
<1>4. QED
  BY <1>1, <1>3 DEF End, OthersStay

\* Types at start.
LEMMA TypeInit == Init => TypeInv
<1> SUFFICES ASSUME Init PROVE TypeInv
  OBVIOUS
<1> USE TcpConstants DEF TcpConstants, Init
<1>1. PICK s \in Starts : /\ peer = [c \in Conns |-> IF c \in s.conns THEN "new" ELSE "gone"]
                          /\ sent = [c \in Conns |-> s.sent] /\ stops = s.stops
  BY Zenon
<1>2. /\ peer \in [Conns -> {"new", "up", "left", "gone"}]
      /\ sent \in [Conns -> 0 .. MaxSend] /\ stops \in 0 .. MaxStops
  BY <1>1
<1>3. /\ <<>> \in Seq(RxByte) /\ <<>> \in Seq({"#", "data"}) /\ Len(<<>>) = 0
  OBVIOUS
<1>4. NoThread("none") \in Thread /\ NoThread("none").pc = "none"
  BY <1>3 DEF NoThread, Thread, Pc
<1>5. /\ server = Idle /\ server \in [pc : {"top", "accept", "place", "spawn", "cleanup", "exited"},
                   sock : Handles \cup {INVALID}, slot : Slots \cup {0}, conn : Conns \cup {0}]
  BY DEF Idle
<1>6. /\ thread \in [Conns -> Thread]
      /\ inbox \in [Conns -> Seq({"#", "data"})] /\ behind \in [Handles -> Conns \cup {0}]
      /\ rxBuffer \in Seq(RxByte) /\ Len(rxBuffer) < RxSize
  BY <1>3, <1>4
<1>7. /\ clientSockets \in [Slots -> Handles \cup {INVALID}]
      /\ clientCount \in Nat /\ connected \in BOOLEAN
      /\ tcpStopping \in BOOLEAN /\ listening \in BOOLEAN
      /\ host \in {"run", "drop", "unlisten", "stopped"}
      /\ drops \in 0 .. MaxDrops /\ cli \in Conns \cup {0} /\ first \subseteq Conns
  <2>1. /\ clientSockets \in [Slots -> Handles \cup {INVALID}]
        /\ clientCount \in Nat /\ connected \in BOOLEAN
    BY Zenon
  <2>2. /\ tcpStopping \in BOOLEAN /\ listening \in BOOLEAN
        /\ host \in {"run", "drop", "unlisten", "stopped"}
    BY Zenon
  <2>3. drops \in 0 .. MaxDrops /\ cli \in Conns \cup {0} /\ first \subseteq Conns
    BY SMT
  <2>4. QED
    BY <2>1, <2>2, <2>3
<1>8. TypeOK
  BY <1>2, <1>5, <1>6, <1>7 DEF TypeOK
<1>9. ThreadsHold /\ ListenerHolds
  BY <1>4 DEF Idle, ThreadsHold, ListenerHolds
<1>10. QED
  BY <1>8, <1>9 DEF TypeInv

\* The listener thread keeps the types.
LEMMA TypeServer ==
    ASSUME TypeInv, Server PROVE TypeInv'
<1>0. TypeOK /\ ThreadsHold /\ ListenerHolds
  BY DEF TypeInv
<1> USE DEF ListenerHolds, portVars, osVars
<1>1. CASE ServerTop
  <2>1. TypeOK'
    BY <1>0, <1>1 DEF ServerTop, TypeOK, Idle
  <2>2. QED
    BY <1>0, <1>1, <2>1 DEF ServerTop, TypeInv, ThreadsHold, Idle
<1>2. ASSUME NEW c \in Conns, NEW h \in Handles, Accept(c, h) PROVE TypeInv'
  <2>1. TypeOK'
    BY <1>0, <1>2 DEF Accept, TypeOK
  <2>2. QED
    BY <1>0, <1>2, <2>1 DEF Accept, TypeInv, ThreadsHold
<1>3. CASE AcceptFail
  <2>1. TypeOK'
    BY <1>0, <1>3 DEF AcceptFail, TypeOK, Idle
  <2>2. QED
    BY <1>0, <1>3, <2>1 DEF AcceptFail, TypeInv, ThreadsHold, Idle
<1>4. CASE Place
  <2> DEFINE slot == CHOOSE i \in Slots \ Occupied : \A j \in Slots \ Occupied : i <= j
  <2>1. slot \in Slots
    <3>1. Slots \ Occupied # {} /\ Slots \ Occupied \in SUBSET Nat
      BY <1>4, TcpConstants DEF Place, Occupied, TcpConstants
    <3>2. QED
      BY <3>1, LeastExists, Zenon
  <2>2. /\ clientSockets' = [clientSockets EXCEPT ![slot] = server.sock]
        /\ server' = [server EXCEPT !.pc = "spawn", !.slot = slot]
    BY <1>4 DEF Place
  <2> HIDE DEF slot
  <2>3. /\ clientCount' = clientCount + 1 /\ connected' = TRUE
        /\ UNCHANGED <<rxBuffer, tcpStopping, listening, thread, host, osVars, drops, stops, cli>>
        /\ server.pc = "place"
    BY <1>4 DEF Place
  <2>4. first' \subseteq Conns
    BY <1>0, <1>4 DEF Place, TypeOK
  <2>5. /\ clientSockets' \in [Slots -> Handles \cup {INVALID}]
        /\ server' \in [pc : {"top", "accept", "place", "spawn", "cleanup", "exited"},
                        sock : Handles \cup {INVALID}, slot : Slots \cup {0}, conn : Conns \cup {0}]
        /\ ListenerHolds' /\ clientCount' \in Nat
    <3>1. /\ server.sock \in Handles /\ server.conn \in Conns
          /\ server'.pc = "spawn" /\ server'.slot = slot
          /\ server'.sock = server.sock /\ server'.conn = server.conn
      BY <1>0, <2>2, <2>3 DEF TypeOK
    <3>2. clientSockets' \in [Slots -> Handles \cup {INVALID}] /\ clientCount' \in Nat
      BY <1>0, <2>1, <2>2, <2>3, <3>1 DEF TypeOK
    <3>3. server' \in [pc : {"top", "accept", "place", "spawn", "cleanup", "exited"},
                       sock : Handles \cup {INVALID}, slot : Slots \cup {0}, conn : Conns \cup {0}]
      BY <1>0, <2>1, <2>2 DEF TypeOK
    <3>4. QED
      BY <2>1, <3>1, <3>2, <3>3
  <2>6. TypeOK'
    BY <1>0, <2>3, <2>4, <2>5 DEF TypeOK
  <2>7. QED
    BY <1>0, <2>3, <2>5, <2>6 DEF TypeInv, ThreadsHold
<1>5. CASE PlaceFull
  <2>1. CloseAll({server.sock})
    BY <1>5 DEF PlaceFull
  <2>2. TypeOK'
    BY <1>0, <1>5, <2>1, CloseTypes DEF PlaceFull, TypeOK, Idle
  <2>3. QED
    BY <1>0, <1>5, <2>2 DEF PlaceFull, TypeInv, ThreadsHold, Idle
<1>6. ASSUME NEW pc \in Pc \ {"none", "done"}, StartThread(pc), server.pc = "spawn"
      PROVE  thread' \in [Conns -> Thread] /\ ThreadsHold' /\ server.conn \in Conns
  <2>1. /\ server.conn \in Conns /\ server.sock \in Handles /\ server.slot \in Slots
    BY <1>0, <1>6 DEF TypeOK
  <2>2. <<>> \in Seq(RxByte)
    OBVIOUS
  <2>3. [pc |-> pc, sock |-> server.sock, slot |-> server.slot, buf |-> <<>>] \in Thread
    BY <2>1, <2>2 DEF Thread
  <2>4. QED
    BY <1>0, <1>6, <2>1, <2>3 DEF StartThread, TypeOK, ThreadsHold
<1>7. CASE Spawn
  <2>1. thread' \in [Conns -> Thread] /\ ThreadsHold'
    BY <1>6, <1>7 DEF Spawn, Pc
  <2>2. TypeOK'
    BY <1>0, <1>7, <2>1 DEF Spawn, TypeOK, Idle
  <2>3. QED
    BY <1>7, <2>1, <2>2 DEF Spawn, TypeInv, Idle
<1>8. CASE SpawnFail
  <2>1. thread' \in [Conns -> Thread] /\ ThreadsHold' /\ server.conn \in Conns
    BY <1>6, <1>8 DEF SpawnFail, Pc
  <2>2. TypeOK'
    BY <1>0, <1>8, <2>1 DEF SpawnFail, TypeOK
  <2>3. ListenerHolds'
    BY <1>0, <1>8 DEF SpawnFail, TypeOK
  <2>4. QED
    BY <2>1, <2>2, <2>3 DEF TypeInv
<1>9. CASE CleanupDone
  <2>1. TypeOK'
    BY <1>0, <1>9 DEF CleanupDone, TypeOK, Idle
  <2>2. QED
    BY <1>0, <1>9, <2>1 DEF CleanupDone, TypeInv, ThreadsHold, Idle
<1>10. QED
  BY <1>1, <1>2, <1>3, <1>4, <1>5, <1>7, <1>8, <1>9 DEF Server

\* What is left to show when one thread moves and the listener stays.
LEMMA HoldsStep ==
    ASSUME TypeInv, TypeOK', NEW c \in Conns, OthersStay(c), server' = server,
           thread'[c].pc \notin {"none", "done"} =>
               thread'[c].sock \in Handles /\ thread'[c].slot \in Slots
    PROVE  TypeInv'
BY DEF TypeInv, ThreadsHold, ListenerHolds, OthersStay

\* A receive thread keeps the types, whatever the handle it holds stands for by now.
LEMMA TypeClient ==
    ASSUME TypeInv, NEW c \in Conns, Client(c) PROVE TypeInv'
<1>0. /\ TypeOK /\ thread[c] \in Thread /\ thread \in [Conns -> Thread]
      /\ thread[c].pc \notin {"none", "done"} =>
            thread[c].sock \in Handles /\ thread[c].slot \in Slots
      /\ {"recv", "disconnect", "close", "recheck", "inject"} \subseteq Pc
      /\ <<>> \in Seq(RxByte)
  BY DEF TypeInv, TypeOK, ThreadsHold, Pc
<1> USE DEF portVars, osVars
\* Most steps only move.
<1>1. ASSUME NEW pc \in Pc, Move(c, pc), server' = server, TypeOK',
             thread[c].pc \notin {"none", "done"}
      PROVE  TypeInv'
  BY <1>0, <1>1, MoveTypes, HoldsStep, Zenon
<1>2. ASSUME End(c), server' = server, TypeOK' PROVE TypeInv'
  BY <1>0, <1>2, EndTypes, HoldsStep, Zenon
<1>3. CASE Select(c)
  <2>1. TypeOK'
    BY <1>0, <1>3, MoveTypes DEF Select, TypeOK
  <2>2. QED
    BY <1>0, <1>1, <1>3, <2>1 DEF Select
<1>4. CASE RecvData(c)
  <2> DEFINE d == Behind(c)
             buf == [k \in DOMAIN inbox[d] |-> [from |-> d, byte |-> inbox[d][k]]]
             moved == [thread[c] EXCEPT !.pc = "input", !.buf = buf]
  <2>1. d \in Conns
    BY <1>0, <1>4 DEF RecvData, Open, Behind, TypeOK
  <2>2. buf \in Seq(RxByte)
    <3>1. inbox[d] \in Seq({"#", "data"})
      BY <1>0, <2>1 DEF TypeOK
    <3>2. DOMAIN inbox[d] = 1 .. Len(inbox[d]) /\ Len(inbox[d]) \in Nat
      BY <3>1
    <3>3. \A k \in 1 .. Len(inbox[d]) : inbox[d][k] \in {"#", "data"}
      BY <3>1, ElementOfSeq, Zenon
    <3>4. \A k \in 1 .. Len(inbox[d]) : [from |-> d, byte |-> inbox[d][k]] \in RxByte
      BY <2>1, <3>3 DEF RxByte, Bytes
    <3>5. buf \in [1 .. Len(inbox[d]) -> RxByte]
      BY <3>2, <3>4
    <3>6. QED
      BY <3>2, <3>5
  <2>3. inbox' = [inbox EXCEPT ![d] = <<>>]
    BY <1>4 DEF RecvData
  <2>4. thread' = [thread EXCEPT ![c] = moved]
    BY <1>0, <1>4 DEF RecvData
  <2>5. UNCHANGED <<portVars, rxBuffer, tcpStopping, listening, server, host,
                    behind, peer, sent, drops, stops, cli, first>>
        /\ thread[c].pc = "recv"
    BY <1>4 DEF RecvData
  <2> HIDE DEF buf, d
  <2>6. moved \in Thread /\ moved.sock = thread[c].sock /\ moved.slot = thread[c].slot
    BY <1>0, <2>2 DEF Thread, Pc
  <2> HIDE DEF moved
  <2>7. inbox' \in [Conns -> Seq({"#", "data"})]
    BY <1>0, <2>1, <2>3 DEF TypeOK
  <2>8. /\ thread' \in [Conns -> Thread] /\ OthersStay(c) /\ thread'[c] = moved
    BY <1>0, <2>4, <2>6 DEF OthersStay
  <2>9. TypeOK'
    BY <1>0, <2>5, <2>7, <2>8 DEF TypeOK
  <2>10. QED
    BY <1>0, <2>5, <2>6, <2>8, <2>9, HoldsStep
<1>5. CASE RecvEnd(c)
  <2>1. TypeOK'
    BY <1>0, <1>5, MoveTypes DEF RecvEnd, TypeOK
  <2>2. QED
    BY <1>0, <1>1, <1>5, <2>1 DEF RecvEnd
<1>6. CASE Input(c)
  <2> DEFINE moved == [thread[c] EXCEPT !.pc = "poll", !.buf = <<>>]
  <2>1. thread[c].buf \in Seq(RxByte)
    BY <1>0 DEF Thread
  <2>2. rxBuffer' \in Seq(RxByte) /\ Len(rxBuffer') < RxSize
    BY <1>0, <1>6, <2>1, DataIn DEF Input
  <2>3. moved \in Thread /\ moved.sock = thread[c].sock /\ moved.slot = thread[c].slot
    BY <1>0 DEF Thread, Pc
  <2>4. thread' = [thread EXCEPT ![c] = moved]
    BY <1>0, <1>6 DEF Input
  <2>5. UNCHANGED <<portVars, tcpStopping, listening, server, host, osVars,
                    drops, stops, cli, first>>
        /\ thread[c].pc = "input"
    BY <1>6 DEF Input
  <2> HIDE DEF moved
  <2>6. thread' \in [Conns -> Thread] /\ OthersStay(c) /\ thread'[c] = moved
    BY <1>0, <2>3, <2>4 DEF OthersStay
  <2>7. TypeOK'
    BY <1>0, <2>2, <2>5, <2>6 DEF TypeOK
  <2>8. QED
    BY <1>0, <2>3, <2>5, <2>6, <2>7, HoldsStep
<1>7. CASE DisconnectOwner(c)
  <2>1. TypeOK'
    BY <1>0, <1>7, MoveTypes DEF DisconnectOwner, TypeOK
  <2>2. QED
    BY <1>0, <1>1, <1>7, <2>1 DEF DisconnectOwner
<1>8. CASE DisconnectStale(c)
  <2>1. TypeOK'
    BY <1>0, <1>8, EndTypes DEF DisconnectStale, TypeOK
  <2>2. QED
    BY <1>2, <1>8, <2>1 DEF DisconnectStale
<1>9. CASE CloseSocket(c)
  <2>1. CloseAll({thread[c].sock}) /\ Move(c, "recheck")
    BY <1>9 DEF CloseSocket
  <2>2. TypeOK'
    BY <1>0, <1>9, <2>1, CloseTypes, MoveTypes DEF CloseSocket, TypeOK
  <2>3. QED
    BY <1>0, <1>1, <1>9, <2>2 DEF CloseSocket
<1>10. CASE Recheck(c)
  <2>1. TypeOK'
    BY <1>0, <1>10, MoveTypes, EndTypes DEF Recheck, TypeOK
  <2>2. QED
    BY <1>0, <1>1, <1>2, <1>10, <2>1 DEF Recheck
<1>11. CASE Inject(c)
  <2>1. <<[from |-> 0, byte |-> "exit"]>> \in Seq(RxByte)
    BY DEF RxByte, Bytes
  <2>2. rxBuffer' \in Seq(RxByte) /\ Len(rxBuffer') < RxSize
    BY <1>0, <1>11, <2>1, DataIn DEF Inject
  <2>3. TypeOK'
    BY <1>0, <1>11, <2>2, EndTypes DEF Inject, TypeOK
  <2>4. QED
    BY <1>2, <1>11, <2>3 DEF Inject
<1>12. QED
  BY <1>3, <1>4, <1>5, <1>6, <1>7, <1>8, <1>9, <1>10, <1>11 DEF Client
\* The peers, the firmware and the host move no thread.
LEMMA TypeOthers ==
    ASSUME TypeInv,
           \/ \E c \in Conns : PeerSend(c) \/ PeerLeave(c)
           \/ FirmwareRead \/ FirmwareWrite \/ HostStep
    PROVE  TypeInv'
<1>0. TypeOK /\ ThreadsHold /\ ListenerHolds /\ <<>> \in Seq(RxByte) /\ Len(<<>>) = 0
  BY DEF TypeInv
<1> USE DEF portVars, osVars
<1>1. ASSUME NEW c \in Conns, PeerSend(c) PROVE TypeInv'
  <2>1. PICK b \in {"#", "data"} : inbox' = [inbox EXCEPT ![c] = Append(@, b)]
    BY <1>1 DEF PeerSend
  <2>2. inbox' \in [Conns -> Seq({"#", "data"})]
    BY <1>0, <2>1 DEF TypeOK
  <2>3. sent' \in [Conns -> 0 .. MaxSend]
    <3>1. /\ sent \in [Conns -> 0 .. MaxSend] /\ MaxSend \in Nat
          /\ sent[c] < MaxSend /\ sent' = [sent EXCEPT ![c] = @ + 1]
      BY <1>0, <1>1, TcpConstants DEF PeerSend, TypeOK, TcpConstants
    <3>2. sent[c] + 1 \in 0 .. MaxSend
      BY <3>1
    <3>3. QED
      BY <3>1, <3>2
  <2>4. TypeOK'
    BY <1>0, <1>1, <2>2, <2>3 DEF PeerSend, TypeOK
  <2>5. QED
    BY <1>0, <1>1, <2>4 DEF PeerSend, TypeInv, ThreadsHold, ListenerHolds
<1>2. ASSUME NEW c \in Conns, PeerLeave(c) PROVE TypeInv'
  <2>1. TypeOK'
    BY <1>0, <1>2 DEF PeerLeave, TypeOK
  <2>2. QED
    BY <1>0, <1>2, <2>1 DEF PeerLeave, TypeInv, ThreadsHold, ListenerHolds
<1>3. CASE FirmwareRead
  <2>1. rxBuffer # <<>> /\ rxBuffer \in Seq(RxByte)
    BY <1>0, <1>3 DEF FirmwareRead, tcpTotalRxBytesWaiting, TypeOK
  <2>2. /\ Head(rxBuffer) \in RxByte /\ Tail(rxBuffer) \in Seq(RxByte)
        /\ Len(Tail(rxBuffer)) = Len(rxBuffer) - 1
    BY <2>1, HeadTailProperties
  <2>3. /\ rxBuffer' = Tail(rxBuffer)
        /\ cli' = cli \/ cli' = 0 \/ cli' = Head(rxBuffer).from
        /\ UNCHANGED <<portVars, tcpStopping, listening, server, thread, host, osVars,
                       drops, stops, first>>
    BY <1>3 DEF FirmwareRead
  <2>4. rxBuffer' \in Seq(RxByte) /\ Len(rxBuffer') < RxSize
    BY <1>0, <2>1, <2>2, <2>3, TcpConstants DEF TypeOK, TcpConstants
  <2>5. cli' \in Conns \cup {0}
    BY <1>0, <2>2, <2>3 DEF TypeOK, RxByte
  <2>6. TypeOK'
    BY <1>0, <2>3, <2>4, <2>5 DEF TypeOK
  <2>7. QED
    BY <1>0, <2>3, <2>6 DEF TypeInv, ThreadsHold, ListenerHolds
<1>4. CASE FirmwareWrite
  <2>1. PICK fail \in SUBSET Occupied :
          /\ CloseAll({clientSockets[i] : i \in fail})
          /\ clientSockets' = [i \in Slots |-> IF i \in fail THEN INVALID ELSE clientSockets[i]]
          /\ clientCount' = IF clientCount > Cardinality(fail)
                            THEN clientCount - Cardinality(fail) ELSE 0
          /\ connected' = (connected /\ clientCount' # 0)
          /\ UNCHANGED <<rxBuffer, tcpStopping, listening, server, thread, host,
                         drops, stops, cli, first>>
    BY <1>4 DEF FirmwareWrite
  <2>2. Cardinality(fail) \in Nat
    <3>1. IsFiniteSet(Slots) /\ fail \in SUBSET Slots
      BY TcpConstants DEF TcpConstants, Occupied
    <3>2. QED
      BY <3>1, FS_Subset, FS_CardinalityType
  <2>3. clientCount' \in Nat /\ connected' \in BOOLEAN
    <3>1. clientCount' \in Nat
      BY <1>0, <2>1, <2>2 DEF TypeOK
    <3>2. connected' \in BOOLEAN
      BY <2>1, Zenon
    <3>3. QED
      BY <3>1, <3>2
  <2>4. clientSockets' \in [Slots -> Handles \cup {INVALID}]
    BY <1>0, <2>1 DEF TypeOK
  <2>5. TypeOK'
    BY <1>0, <2>1, <2>3, <2>4, CloseTypes DEF TypeOK
  <2>6. QED
    BY <1>0, <2>1, <2>5 DEF TypeInv, ThreadsHold, ListenerHolds
<1>5. ASSUME DropAll
      PROVE  /\ clientSockets' \in [Slots -> Handles \cup {INVALID}]
             /\ clientCount' \in Nat /\ connected' \in BOOLEAN
             /\ behind' \in [Handles -> Conns \cup {0}]
             /\ peer' \in [Conns -> {"new", "up", "left", "gone"}]
             /\ inbox' \in [Conns -> Seq({"#", "data"})]
             /\ sent' = sent
  BY <1>0, <1>5, CloseTypes DEF DropAll
<1>6. CASE RebootDrop
  <2>1. drops' \in 0 .. MaxDrops
    BY <1>0, <1>6, TcpConstants DEF RebootDrop, TypeOK, TcpConstants
  <2>2. TypeOK'
    BY <1>0, <1>5, <1>6, <2>1 DEF RebootDrop, TypeOK
  <2>3. QED
    BY <1>0, <1>6, <2>2 DEF RebootDrop, TypeInv, ThreadsHold, ListenerHolds
<1>7. CASE Stop
  <2>1. stops' \in 0 .. MaxStops
    BY <1>0, <1>7, TcpConstants DEF Stop, TypeOK, TcpConstants
  <2>2. TypeOK'
    BY <1>0, <1>7, <2>1 DEF Stop, TypeOK
  <2>3. QED
    BY <1>0, <1>7, <2>2 DEF Stop, TypeInv, ThreadsHold, ListenerHolds
<1>8. CASE StopDrop
  <2>1. TypeOK'
    BY <1>0, <1>5, <1>8 DEF StopDrop, TypeOK
  <2>2. QED
    BY <1>0, <1>8, <2>1 DEF StopDrop, TypeInv, ThreadsHold, ListenerHolds
<1>9. CASE StopUnlisten
  <2>1. TypeOK'
    BY <1>0, <1>9 DEF StopUnlisten, TypeOK
  <2>2. QED
    BY <1>0, <1>9, <2>1 DEF StopUnlisten, TypeInv, ThreadsHold, ListenerHolds
<1>10. CASE Reopen
  <2>1. /\ clientSockets' \in [Slots -> Handles \cup {INVALID}]
        /\ rxBuffer' \in Seq(RxByte) /\ Len(rxBuffer') < RxSize
        /\ clientCount' \in Nat
    BY <1>0, <1>10, TcpConstants DEF Reopen, TcpConstants
  <2>2. TypeOK'
    BY <1>0, <1>10, <2>1 DEF Reopen, TypeOK, Idle
  <2>3. QED
    BY <1>0, <1>10, <2>2 DEF Reopen, TypeInv, ThreadsHold, ListenerHolds, Idle
<1>11. QED
  BY <1>1, <1>2, <1>3, <1>4, <1>6, <1>7, <1>8, <1>9, <1>10 DEF HostStep

\* Every step keeps the types.
LEMMA TypeNext == TypeInv /\ [Next]_vars => TypeInv'
<1> SUFFICES ASSUME TypeInv, [Next]_vars PROVE TypeInv'
  OBVIOUS
<1>1. CASE UNCHANGED vars
  BY <1>1 DEF vars, portVars, osVars, TypeInv, TypeOK, ThreadsHold, ListenerHolds
<1>2. CASE Next
  BY <1>2, TypeServer, TypeClient, TypeOthers DEF Next
<1>3. QED
  BY <1>1, <1>2

\* The variables have their types, and whoever acts on a socket or on a slot
\* has one: see ThreadsHold and ListenerHolds.
THEOREM TcpTypes == Spec => []TypeInv
BY TypeInit, TypeNext, PTL DEF Spec
-----------------------------------------------------------------------------
(* Who owns a socket *)

\* closesocket on some handles closes these and no others.
LEMMA CloseIs ==
    ASSUME TypeOK, NEW hs, CloseAll(hs)
    PROVE  \A h \in Handles : Open(h)' <=> (Open(h) /\ h \notin hs)
BY DEF CloseAll, Open

\* The slots in use are finitely many.
LEMMA OccupiedFinite ==
    ASSUME TypeOK
    PROVE  /\ IsFiniteSet(Occupied) /\ Cardinality(Occupied) \in Nat
           /\ Cardinality(Occupied) = 0 <=> Occupied = {}
           /\ \A i \in Occupied : i \in Slots /\ clientSockets[i] \in Handles
<1>1. IsFiniteSet(Slots) /\ Occupied \in SUBSET Slots
  BY TcpConstants DEF TcpConstants, Occupied
<1>2. IsFiniteSet(Occupied)
  BY <1>1, FS_Subset
<1>3. QED
  BY <1>1, <1>2, FS_CardinalityType, FS_EmptySet DEF Occupied, TypeOK

\* Nobody has a socket at start.
LEMMA OwnersInit == Init => Owners
<1> SUFFICES ASSUME Init PROVE Owners
  OBVIOUS
<1>1. TypeOK
  BY TypeInit DEF TypeInv
<1>2. Occupied = {}
  BY DEF Init, Occupied
<1>3. clientCount = Cardinality(Occupied)
  BY <1>2, FS_EmptySet DEF Init
<1>4. connected = FALSE
  BY DEF Init
<1>5. ClosedOnce /\ Unplaced
  BY <1>2 DEF Init, ClosedOnce, Unplaced, NoThread, Idle
<1>6. QED
  BY <1>1, <1>2, <1>3, <1>4, <1>5 DEF Owners, SlotsAgree

\* Nothing changes hands: the slots and the sockets stay, no thread gets to
\* the point of closing, and the listener does not come by a connection.
LEMMA OwnersStay ==
    ASSUME Owners, TypeOK',
           UNCHANGED <<clientSockets, clientCount, connected, behind>>,
           \A c \in Conns : thread'[c].pc = "close" =>
               thread[c].pc = "close" /\ thread'[c].sock = thread[c].sock,
           server'.pc = "place" => server' = server
    PROVE  Owners'
<1>1. Occupied' = Occupied /\ \A h \in Handles : Open(h)' = Open(h)
  BY DEF Occupied, Open
<1>2. Owners => TypeOK
  BY DEF Owners, SlotsAgree
<1>3. \A i \in Occupied : clientSockets[i] \in Handles
  BY <1>2, OccupiedFinite
<1>4. SlotsAgree'
  BY <1>1, <1>3 DEF Owners, SlotsAgree
<1>5. ClosedOnce'
  BY <1>1 DEF Owners, ClosedOnce, Open
<1>6. Unplaced'
  BY <1>1 DEF Owners, Unplaced, Open
<1>7. QED
  BY <1>4, <1>5, <1>6 DEF Owners

\* Sockets that leave their slots are closed, or all slots are emptied: the count
\* follows, and no thread about to close and no listener has lost its socket.
LEMMA OwnersGiveUp ==
    ASSUME Owners, TypeOK', NEW lost \in SUBSET Occupied,
           CloseAll({clientSockets[i] : i \in lost}),
           clientSockets' = [i \in Slots |-> IF i \in lost THEN INVALID ELSE clientSockets[i]],
           clientCount' = Cardinality(Occupied \ lost),
           connected' = (Occupied \ lost # {}),
           UNCHANGED <<thread, server>>
    PROVE  Owners'
<1>0. TypeOK /\ INVALID \notin Handles
  BY TcpConstants DEF Owners, SlotsAgree, TcpConstants
<1>1. Occupied' = Occupied \ lost
  BY DEF Occupied
<1>2. \A i \in Occupied' : clientSockets'[i] = clientSockets[i] /\ i \in Occupied
  BY <1>1 DEF Occupied
<1>3. \A h \in Handles : Open(h)' <=> (Open(h) /\ \A i \in lost : clientSockets[i] # h)
  BY <1>0, CloseIs
<1>4. SlotsAgree'
  BY <1>0, <1>1, <1>2, <1>3, OccupiedFinite DEF Owners, SlotsAgree
<1>5. ClosedOnce'
  <2>1. \A c \in Conns : thread[c].pc = "close" => thread[c].sock \in Handles
    BY DEF Owners, ClosedOnce, Open
  <2>2. QED
    BY <2>1, <1>2, <1>3 DEF Owners, ClosedOnce
<1>6. Unplaced'
  <2>1. server.pc = "place" => server.sock \in Handles
    BY DEF Owners, Unplaced, Open
  <2>2. QED
    BY <2>1, <1>2, <1>3 DEF Owners, Unplaced
<1>7. QED
  BY <1>4, <1>5, <1>6 DEF Owners
\* The listener: what accept returns is closed, so nobody has a hold of it; a
\* slot is taken by a handle that no other slot and no closing thread has.
LEMMA OwnersServer ==
    ASSUME TcpInv, TypeInv', Server PROVE Owners'
<1>0. TypeOK /\ TypeOK' /\ Owners /\ ListenerHolds /\ ThreadsHold /\ INVALID \notin Handles
  BY TcpConstants DEF TcpInv, TypeInv, TcpConstants
<1> USE DEF portVars, osVars
<1>1. CASE ServerTop
  BY <1>0, <1>1, OwnersStay DEF ServerTop, Idle
<1>2. ASSUME NEW c \in Conns, NEW h \in Handles, Accept(c, h) PROVE Owners'
  <2>1. /\ UNCHANGED <<clientSockets, clientCount, connected, thread>>
        /\ server' = [pc |-> "place", sock |-> h, slot |-> 0, conn |-> c]
        /\ behind' = [behind EXCEPT ![h] = c]
    BY <1>2 DEF Accept
  <2>2. ~Open(h)
    <3>1. h \in Offered
      BY <1>2 DEF Accept
    <3>2. QED
      BY <3>1 DEF Offered, First
  <2>3. c # 0
    BY TcpConstants DEF TcpConstants
  <2>4. Open(h)' /\ \A k \in Handles : Open(k) => Open(k)'
    BY <1>0, <2>1, <2>3 DEF Open, TypeOK
  <2>5. Occupied' = Occupied
    BY <2>1 DEF Occupied
  <2>6. \A i \in Occupied : Open(clientSockets[i]) /\ clientSockets[i] # h
    BY <1>0, <2>2 DEF Owners, SlotsAgree
  <2>7. \A d \in Conns : thread[d].pc = "close" => Open(thread[d].sock) /\ thread[d].sock # h
    BY <1>0, <2>2 DEF Owners, ClosedOnce
  <2>8. SlotsAgree'
    <3>1. \A i \in Occupied : Open(clientSockets[i])'
      BY <2>1, <2>4, <2>6 DEF Open
    <3>2. QED
      BY <1>0, <2>1, <2>5, <3>1 DEF Owners, SlotsAgree
  <2>9. ClosedOnce'
    <3>1. \A d \in Conns : thread[d].pc = "close" => Open(thread[d].sock)'
      BY <2>1, <2>4, <2>7 DEF Open
    <3>2. QED
      BY <1>0, <2>1, <2>5, <3>1 DEF Owners, ClosedOnce
  <2>10. Unplaced'
    BY <2>1, <2>4, <2>5, <2>6, <2>7 DEF Unplaced
  <2>11. QED
    BY <2>8, <2>9, <2>10 DEF Owners
<1>3. CASE AcceptFail
  BY <1>0, <1>3, OwnersStay DEF AcceptFail, Idle
<1>4. CASE Place
  <2> DEFINE slot == CHOOSE i \in Slots \ Occupied : \A j \in Slots \ Occupied : i <= j
  <2>1. slot \in Slots \ Occupied
    <3>1. Slots \ Occupied # {} /\ Slots \ Occupied \in SUBSET Nat
      BY <1>4, TcpConstants DEF Place, Occupied, TcpConstants
    <3>2. QED
      BY <3>1, LeastExists, Zenon
  <2>2. /\ clientSockets' = [clientSockets EXCEPT ![slot] = server.sock]
        /\ server' = [server EXCEPT !.pc = "spawn", !.slot = slot]
    BY <1>4 DEF Place
  <2> HIDE DEF slot
  <2>3. /\ clientCount' = clientCount + 1 /\ connected' = TRUE
        /\ UNCHANGED <<thread, behind>>
        /\ server.pc = "place"
    BY <1>4 DEF Place
  <2>4. /\ server.sock \in Handles /\ Open(server.sock)
        /\ \A i \in Occupied : clientSockets[i] # server.sock
        /\ \A c \in Conns : thread[c].pc = "close" => thread[c].sock # server.sock
    BY <1>0, <2>3 DEF ListenerHolds, Owners, Unplaced
  <2>5. /\ Occupied' = Occupied \cup {slot}
        /\ clientSockets'[slot] = server.sock
        /\ \A i \in Occupied : clientSockets'[i] = clientSockets[i]
    <3>1. \A j \in Slots : clientSockets'[j] = IF j = slot THEN server.sock ELSE clientSockets[j]
      BY <1>0, <2>2 DEF TypeOK
    <3>2. \A j \in Slots : clientSockets'[j] # INVALID <=> (j = slot \/ clientSockets[j] # INVALID)
      BY <1>0, <2>4, <3>1
    <3>3. slot \in Slots /\ slot \notin Occupied /\ Occupied \subseteq Slots
      BY <2>1 DEF Occupied
    <3>4. Occupied' = Occupied \cup {slot}
      BY <3>2, <3>3 DEF Occupied
    <3>5. QED
      BY <3>1, <3>3, <3>4
  <2>6. Cardinality(Occupied') = Cardinality(Occupied) + 1
    BY <1>0, <2>1, <2>5, OccupiedFinite, FS_AddElement
  <2>7. \A h \in Handles : Open(h)' = Open(h)
    BY <2>3 DEF Open
  <2>8. SlotsAgree'
    <3>1. \A i \in Occupied' : Open(clientSockets'[i])
      BY <1>0, <2>4, <2>5 DEF Owners, SlotsAgree
    <3>2. \A i, j \in Occupied' : clientSockets'[i] = clientSockets'[j] => i = j
      BY <1>0, <2>4, <2>5 DEF Owners, SlotsAgree
    <3>3. \A i \in Occupied' : Open(clientSockets[i])'
      BY <2>3, <3>1 DEF Open
    <3>4. QED
      BY <1>0, <2>3, <2>5, <2>6, <3>2, <3>3 DEF Owners, SlotsAgree
  <2>9. ClosedOnce'
    <3>1. \A c \in Conns : thread[c].pc = "close" => Open(thread[c].sock)'
      BY <1>0, <2>3 DEF Owners, ClosedOnce, Open
    <3>2. QED
      BY <1>0, <2>3, <2>4, <2>5, <3>1 DEF Owners, ClosedOnce
  <2>10. Unplaced'
    BY <1>0, <2>2 DEF Unplaced, TypeOK
  <2>11. QED
    BY <2>8, <2>9, <2>10 DEF Owners
<1>5. CASE PlaceFull
  <2>1. /\ CloseAll({server.sock}) /\ server' = Idle /\ server.pc = "place"
        /\ UNCHANGED <<clientSockets, clientCount, connected, thread>>
    BY <1>5 DEF PlaceFull
  <2>2. \A h \in Handles : Open(h)' <=> (Open(h) /\ h # server.sock)
    BY <1>0, <2>1, CloseIs
  <2>3. Occupied' = Occupied /\ \A i \in Occupied : clientSockets[i] \in Handles
    BY <1>0, <2>1, OccupiedFinite DEF Occupied
  <2>4. SlotsAgree'
    BY <1>0, <2>1, <2>2, <2>3 DEF Owners, SlotsAgree, Unplaced
  <2>5. ClosedOnce'
    <3>1. \A c \in Conns : thread[c].pc = "close" => Open(thread[c].sock)'
      BY <1>0, <2>1, <2>2 DEF Owners, ClosedOnce, Unplaced, ThreadsHold
    <3>2. QED
      BY <1>0, <2>1, <2>3, <3>1 DEF Owners, ClosedOnce
  <2>6. QED
    BY <2>1, <2>4, <2>5 DEF Owners, Unplaced, Idle
<1>6. ASSUME NEW pc \in {"poll", "disconnect"}, StartThread(pc)
      PROVE  \A c \in Conns : thread'[c].pc = "close" => thread'[c] = thread[c]
  BY <1>0, <1>6 DEF StartThread, TypeOK
<1>7. CASE Spawn
  BY <1>0, <1>6, <1>7, OwnersStay DEF Spawn, Idle
<1>8. CASE SpawnFail
  <2>1. server'.pc # "place"
    BY <1>0, <1>8 DEF SpawnFail, TypeOK
  <2>2. QED
    BY <1>0, <1>6, <1>8, <2>1, OwnersStay DEF SpawnFail
<1>9. CASE CleanupDone
  BY <1>0, <1>9, OwnersStay DEF CleanupDone, Idle
<1>10. QED
  BY <1>1, <1>2, <1>3, <1>4, <1>5, <1>7, <1>8, <1>9 DEF Server

\* A receive thread: giving the slot up and closing the socket are two steps,
\* and only the thread that did the first does the second.
LEMMA OwnersClient ==
    ASSUME TcpInv, TypeInv', NEW c \in Conns, Client(c) PROVE Owners'
<1>0. TypeOK /\ TypeOK' /\ Owners /\ ThreadsHold /\ INVALID \notin Handles
      /\ {"recv", "disconnect", "close", "recheck", "inject"} \subseteq Pc
  BY TcpConstants DEF TcpInv, TypeInv, TcpConstants, Pc
<1> USE DEF portVars, osVars
<1>1. ASSUME UNCHANGED <<clientSockets, clientCount, connected, behind, server>>,
             OthersStay(c), thread'[c].pc # "close"
      PROVE  Owners'
  BY <1>0, <1>1, OwnersStay DEF OthersStay
<1>2. CASE Select(c)
  BY <1>0, <1>1, <1>2, MoveTypes DEF Select
<1>3. CASE RecvData(c)
  <2>1. OthersStay(c) /\ thread'[c].pc # "close"
    BY <1>0, <1>3 DEF RecvData, OthersStay, TypeOK, Thread
  <2>2. QED
    BY <1>1, <1>3, <2>1 DEF RecvData
<1>4. CASE RecvEnd(c)
  BY <1>0, <1>1, <1>4, MoveTypes DEF RecvEnd
<1>5. CASE Input(c)
  <2>1. OthersStay(c) /\ thread'[c].pc # "close"
    BY <1>0, <1>5 DEF Input, OthersStay, TypeOK, Thread
  <2>2. QED
    BY <1>1, <1>5, <2>1 DEF Input
<1>6. CASE DisconnectOwner(c)
  <2> DEFINE i == thread[c].slot
             h == thread[c].sock
  <2>1. /\ i \in Occupied /\ h \in Handles /\ clientSockets[i] = h
    BY <1>0, <1>6 DEF DisconnectOwner, ThreadsHold, Occupied
  <2>2. /\ clientSockets' = [clientSockets EXCEPT ![i] = INVALID]
        /\ clientCount' = IF clientCount > 0 THEN clientCount - 1 ELSE 0
        /\ connected' = (connected /\ clientCount' # 0)
        /\ UNCHANGED <<behind, server>>
    BY <1>6 DEF DisconnectOwner
  <2>3. /\ OthersStay(c) /\ thread'[c].pc = "close" /\ thread'[c].sock = h
    BY <1>0, <1>6, MoveTypes DEF DisconnectOwner
  <2> HIDE DEF i, h
  <2>4. /\ Occupied' = Occupied \ {i}
        /\ \A j \in Occupied' : clientSockets'[j] = clientSockets[j] /\ clientSockets[j] # h
    <3>1. \A j \in Slots : clientSockets'[j] = IF j = i THEN INVALID ELSE clientSockets[j]
      BY <1>0, <2>2 DEF TypeOK
    <3>2. Occupied' = Occupied \ {i}
      BY <3>1 DEF Occupied
    <3>3. \A j \in Occupied \ {i} : j \in Slots /\ clientSockets[j] # h
      BY <1>0, <2>1 DEF Owners, SlotsAgree, Occupied
    <3>4. QED
      BY <3>1, <3>2, <3>3
  <2>5. /\ IsFiniteSet(Occupied) /\ Cardinality(Occupied) \in Nat
        /\ Cardinality(Occupied') = Cardinality(Occupied) - 1
        /\ IsFiniteSet(Occupied')
    BY <1>0, <2>1, <2>4, OccupiedFinite, FS_RemoveElement
  <2>6. Cardinality(Occupied') = 0 <=> Occupied' = {}
    BY <2>5, FS_EmptySet
  <2>7. /\ clientCount' = Cardinality(Occupied')
        /\ connected' = (Occupied' # {})
    <3>1. clientCount = Cardinality(Occupied) /\ connected = (Occupied # {})
      BY <1>0 DEF Owners, SlotsAgree
    <3>2. Cardinality(Occupied) > 0 /\ connected = TRUE
      <4>1. Occupied # {}
        BY <2>1
      <4>2. Cardinality(Occupied) # 0
        BY <2>5, <4>1, FS_EmptySet
      <4>3. connected = TRUE
        BY <3>1, <4>1, Zenon
      <4>4. QED
        BY <2>5, <4>2, <4>3
    <3>3. clientCount' = Cardinality(Occupied')
      BY <2>2, <2>5, <3>1, <3>2
    <3>4. connected' = (clientCount' # 0)
      BY <2>2, <3>2, Zenon
    <3>5. QED
      BY <2>6, <3>3, <3>4
  <2>8. \A k \in Handles : Open(k)' = Open(k)
    BY <2>2 DEF Open
  <2>9. SlotsAgree'
    <3>1. \A j \in Occupied' : Open(clientSockets[j])'
      BY <1>0, <2>2, <2>4 DEF Owners, SlotsAgree, Open
    <3>2. QED
      BY <1>0, <2>4, <2>7, <3>1 DEF Owners, SlotsAgree
  <2>10. \A d \in Conns : thread[d].pc = "close" => thread[d].sock # h
    BY <1>0, <2>1 DEF Owners, ClosedOnce
  <2>11. ClosedOnce'
    <3>1. \A d \in Conns : thread'[d].pc = "close" => Open(thread[d].sock)'
      BY <1>0, <2>1, <2>2, <2>3 DEF Owners, ClosedOnce, SlotsAgree, OthersStay, Open
    <3>2. QED
      BY <1>0, <2>3, <2>4, <2>10, <3>1 DEF Owners, ClosedOnce, OthersStay
  <2>12. Unplaced'
    BY <1>0, <2>1, <2>2, <2>3, <2>4 DEF Owners, Unplaced, OthersStay, Open
  <2>13. QED
    BY <2>9, <2>11, <2>12 DEF Owners
<1>7. CASE DisconnectStale(c)
  BY <1>0, <1>1, <1>7, EndTypes DEF DisconnectStale
<1>8. CASE CloseSocket(c)
  <2> DEFINE h == thread[c].sock
  <2>1. /\ CloseAll({h}) /\ thread[c].pc = "close"
        /\ OthersStay(c) /\ thread'[c].pc # "close"
        /\ UNCHANGED <<clientSockets, clientCount, connected, server>>
    BY <1>0, <1>8, MoveTypes DEF CloseSocket
  <2>2. /\ \A k \in Handles : Open(k)' <=> (Open(k) /\ k # h)
    BY <1>0, <2>1, CloseIs
  <2>3. /\ \A i \in Occupied : clientSockets[i] # h
        /\ \A d \in Conns \ {c} : thread[d].pc = "close" => thread[d].sock # h
        /\ server.pc = "place" => server.sock # h
    BY <1>0, <2>1 DEF Owners, ClosedOnce, Unplaced
  <2> HIDE DEF h
  <2>4. Occupied' = Occupied /\ \A i \in Occupied : clientSockets[i] \in Handles
    BY <1>0, <2>1, OccupiedFinite DEF Occupied
  <2>5. SlotsAgree'
    BY <1>0, <2>1, <2>2, <2>3, <2>4 DEF Owners, SlotsAgree
  <2>6. ClosedOnce'
    BY <1>0, <2>1, <2>2, <2>3, <2>4 DEF Owners, ClosedOnce, OthersStay, ThreadsHold
  <2>7. Unplaced'
    BY <1>0, <2>1, <2>2, <2>3, <2>4 DEF Owners, Unplaced, OthersStay, Open
  <2>8. QED
    BY <2>5, <2>6, <2>7 DEF Owners
<1>9. CASE Recheck(c)
  BY <1>0, <1>1, <1>9, MoveTypes, EndTypes DEF Recheck
<1>10. CASE Inject(c)
  BY <1>0, <1>1, <1>10, EndTypes DEF Inject
<1>11. QED
  BY <1>2, <1>3, <1>4, <1>5, <1>6, <1>7, <1>8, <1>9, <1>10 DEF Client

\* A failed send, a reboot and a stop give sockets up under the lock.
LEMMA OwnersOthers ==
    ASSUME TcpInv, TypeInv',
           \/ \E c \in Conns : PeerSend(c) \/ PeerLeave(c)
           \/ FirmwareRead \/ FirmwareWrite \/ HostStep
    PROVE  Owners'
<1>0. TypeOK /\ TypeOK' /\ Owners
  BY DEF TcpInv, TypeInv
<1>f. /\ IsFiniteSet(Occupied) /\ Cardinality(Occupied) \in Nat
      /\ clientCount = Cardinality(Occupied) /\ connected = (Occupied # {})
  BY <1>0, OccupiedFinite DEF Owners, SlotsAgree
<1> USE DEF portVars, osVars
<1>1. ASSUME NEW c \in Conns, PeerSend(c) \/ PeerLeave(c) PROVE Owners'
  BY <1>0, <1>1, OwnersStay DEF PeerSend, PeerLeave
<1>2. CASE FirmwareRead
  BY <1>0, <1>2, OwnersStay DEF FirmwareRead
<1>3. CASE FirmwareWrite
  <2>1. PICK fail \in SUBSET Occupied :
          /\ CloseAll({clientSockets[i] : i \in fail})
          /\ clientSockets' = [i \in Slots |-> IF i \in fail THEN INVALID ELSE clientSockets[i]]
          /\ clientCount' = IF clientCount > Cardinality(fail)
                            THEN clientCount - Cardinality(fail) ELSE 0
          /\ connected' = (connected /\ clientCount' # 0)
          /\ UNCHANGED <<thread, server>>
    BY <1>3 DEF FirmwareWrite
  <2>2. /\ Cardinality(fail) \in Nat /\ Cardinality(fail) <= Cardinality(Occupied)
        /\ IsFiniteSet(Occupied \ fail)
        /\ Cardinality(Occupied \ fail) = Cardinality(Occupied) - Cardinality(fail)
    <3>1. Occupied \cap fail = fail
      OBVIOUS
    <3>2. IsFiniteSet(fail) /\ Cardinality(fail) <= Cardinality(Occupied)
      BY <1>f, FS_Subset
    <3>3. Cardinality(fail) \in Nat
      BY <3>2, FS_CardinalityType
    <3>4. /\ IsFiniteSet(Occupied \ fail)
          /\ Cardinality(Occupied \ fail) = Cardinality(Occupied) - Cardinality(Occupied \cap fail)
      BY <1>f, <3>2, FS_Difference
    <3>5. QED
      BY <3>1, <3>2, <3>3, <3>4
  <2>3. Cardinality(Occupied \ fail) = 0 <=> Occupied \ fail = {}
    BY <2>2, FS_EmptySet
  <2>4. clientCount' = Cardinality(Occupied \ fail)
    BY <1>f, <2>1, <2>2
  <2>5. connected' = (Occupied \ fail # {})
    BY <1>f, <2>1, <2>3, <2>4
  <2>6. QED
    BY <1>0, <2>1, <2>4, <2>5, OwnersGiveUp
<1>4. ASSUME DropAll, UNCHANGED <<thread, server>> PROVE Owners'
  <2>1. /\ clientSockets' = [i \in Slots |-> IF i \in Occupied THEN INVALID ELSE clientSockets[i]]
    BY <1>4 DEF DropAll, Occupied
  <2>2. Occupied \ Occupied = {} /\ Cardinality({}) = 0
    BY FS_EmptySet
  <2>3. QED
    BY <1>0, <1>4, <2>1, <2>2, OwnersGiveUp DEF DropAll
<1>5. CASE RebootDrop
  BY <1>4, <1>5 DEF RebootDrop
<1>6. CASE Stop
  BY <1>0, <1>6, OwnersStay DEF Stop
<1>7. CASE StopDrop
  BY <1>4, <1>7 DEF StopDrop
<1>8. CASE StopUnlisten
  BY <1>0, <1>8, OwnersStay DEF StopUnlisten
<1>9. CASE Reopen
  <2>1. /\ Occupied' = {} /\ clientCount' = 0 /\ connected' = FALSE
        /\ UNCHANGED <<thread, behind>> /\ server' = Idle
    BY <1>9 DEF Reopen, Occupied
  <2>2. Cardinality({}) = 0
    BY FS_EmptySet
  <2>3. SlotsAgree'
    BY <1>0, <2>1, <2>2 DEF SlotsAgree
  <2>4. ClosedOnce' /\ Unplaced'
    BY <1>0, <2>1 DEF Owners, ClosedOnce, Unplaced, Idle, Open
  <2>5. QED
    BY <2>3, <2>4 DEF Owners
<1>10. QED
  BY <1>1, <1>2, <1>3, <1>5, <1>6, <1>7, <1>8, <1>9 DEF HostStep

\* Every step keeps the inductive invariant.
LEMMA TcpNext == TcpInv /\ [Next]_vars => TcpInv'
<1> SUFFICES ASSUME TcpInv, [Next]_vars PROVE TcpInv'
  OBVIOUS
<1>1. TypeInv'
  BY TypeNext DEF TcpInv
<1>2. CASE UNCHANGED vars
  BY <1>1, <1>2, OwnersStay DEF vars, portVars, osVars, TcpInv, TypeInv
<1>3. CASE Next
  BY <1>1, <1>3, OwnersServer, OwnersClient, OwnersOthers DEF Next, TcpInv
<1>4. QED
  BY <1>1, <1>2, <1>3

\* Types and the owners of sockets hold in every reachable state.
THEOREM TcpInvariance == Spec => []TcpInv
<1>1. Init => TcpInv
  BY TypeInit, OwnersInit DEF TcpInv
<1>2. QED
  BY <1>1, TcpNext, PTL DEF Spec

\* The table of slots, the count and the sockets agree, for any number of slots
\* and clients and whatever handles the system gives out again.
THEOREM SlotsAlwaysAgree == Spec => []SlotsAgree
<1>1. TcpInv => SlotsAgree
  BY DEF TcpInv, Owners
<1>2. QED
  BY <1>1, TcpInvariance, PTL

\* No socket is closed twice, by whichever of the four that may close it.
THEOREM NoDoubleClose == Spec => []ClosedOnce
<1>1. TcpInv => ClosedOnce
  BY DEF TcpInv, Owners
<1>2. QED
  BY <1>1, TcpInvariance, PTL
=============================================================================
