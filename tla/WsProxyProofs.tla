---------------------------- MODULE WsProxyProofs ---------------------------
(***************************************************************************)
(* Who closes a socket, and who gives a slot back: proofs about WsProxy    *)
(* for every number of connections, handles and slots.  The operating      *)
(* system hands closed handles out again, so a thread may close the socket *)
(* of another.                                                             *)
(***************************************************************************)
EXTENDS WsProxy, FiniteSetTheorems, WellFoundedInduction, TLAPS

-----------------------------------------------------------------------------
(* The inductive invariant *)

Pc     == {"none", "add", "handshake", "connect", "upstream", "loop", "remove",
           "closeTcp", "closeWs", "done"}
Thread == [pc : Pc, ws : Values, tcp : Values]

\* The listen socket is open only in a started proxy, and a listener thread
\* was made by one of the starts.
Listening ==
    /\ listeners + returned <= starts
    /\ wsListenSocket => wsStarted
    /\ host = "drop" => ~wsListenSocket

\* The thread a socket was opened for still has its handle, and has its close
\* ahead of it.
SocketsHeld ==
    \A h \in Handles, c \in Conns :
        /\ behind[h] = <<c, "ws">>  => /\ thread[c].ws = h
                                       /\ thread[c].pc \notin {"none", "done"}
        /\ behind[h] = <<c, "msp">> =>
              /\ thread[c].tcp = h
              /\ thread[c].pc \in {"upstream", "loop", "remove", "closeTcp"}

\* A configurator has a thread, with a handle, from its connection on.
NewHasNoThread ==
    \A c \in Conns : /\ peer[c] = "new" => thread[c].pc = "none"
                     /\ thread[c].pc \notin {"none", "done"} => thread[c].ws \in Handles

\* The threads that will give a slot with this handle back, and the slots.
Holding    == {"handshake", "connect", "upstream", "loop", "remove"}
Holders(h) == {c \in Conns : thread[c].ws = h /\ thread[c].pc \in Holding}
SlotsOf(h) == {i \in Slots : wsSessions[i].ws = h}

\* A handle has no more slots than threads.  A drop may empty the table under a
\* thread and a newer session may get the handle, and the older thread then
\* gives back the slot of the newer one; but it gives back one slot.
SlotsCounted == \A h \in Handles : Cardinality(SlotsOf(h)) <= Cardinality(Holders(h))

Sockets == SocketsHeld /\ NewHasNoThread

WsInv == TypeOK /\ Listening /\ Sockets /\ SlotsCounted

-----------------------------------------------------------------------------
(* Numbers, handles and threads *)

\* First picks one element of a set of numbers that is not empty.
LEMMA FirstIsOne ==
    ASSUME NEW S \in SUBSET Nat
    PROVE  /\ First(S) \subseteq S
           /\ \A i, j \in First(S) : i = j
           /\ S # {} => First(S) # {}
<1>1. First(S) \subseteq S
  BY DEF First
<1>2. \A i, j \in First(S) : i = j
  BY DEF First
<1>3. ASSUME S # {} PROVE First(S) # {}
  <2>1. PICK i \in S : \A j \in S : <<j, i>> \notin OpToRel(<, Nat)
    BY <1>3, WFMin, NatLessThanWellFounded, Zenon
  <2>2. \A j \in S : ~(j < i)
    BY <2>1, Zenon DEF OpToRel
  <2>3. i \in First(S)
    BY <2>2 DEF First
  <2>4. QED
    BY <2>3
<1>4. QED
  BY <1>1, <1>2, <1>3

\* The two sides of the connections, and no socket, are told apart.
LEMMA Sides ==
    /\ \A c \in Conns : /\ <<c, "ws">>  \notin {Nobody}
                        /\ <<c, "msp">> \notin {Nobody}
    /\ \A c, d \in Conns : /\ <<c, "ws">> # <<d, "msp">>
                           /\ <<c, "ws">> = <<d, "ws">> => c = d
                           /\ <<c, "msp">> = <<d, "msp">> => c = d
    /\ INVALID \notin Handles
BY WsConstants DEF WsConstants, Nobody

\* The threads, of the type invariant.
LEMMA TypeParts ==
    TypeOK => thread \in [Conns -> Thread]
BY DEF TypeOK, Thread, Pc

\* Only thread c changes.
OthersStay(c) == \A d \in Conns \ {c} : thread'[d] = thread[d]

\* A thread that goes on keeps its handles.
LEMMA GotoTypes ==
    ASSUME thread \in [Conns -> Thread], NEW c \in Conns, NEW pc \in Pc, Goto(c, pc)
    PROVE  /\ thread' \in [Conns -> Thread] /\ OthersStay(c)
           /\ thread'[c].pc = pc
           /\ thread'[c].ws = thread[c].ws /\ thread'[c].tcp = thread[c].tcp
<1>1. [thread[c] EXCEPT !.pc = pc] \in Thread
  BY DEF Thread
<1>2. thread' = [thread EXCEPT ![c] = [thread[c] EXCEPT !.pc = pc]]
  BY DEF Goto
<1>3. QED
  BY <1>1, <1>2 DEF Thread, OthersStay

\* closesocket keeps the types, and closes what it is given and nothing else.
LEMMA Closes ==
    ASSUME TypeOK, NEW hs, closesocket(hs)
    PROVE  /\ behind' \in [Handles -> {Nobody} \cup (Conns \X {"ws", "msp"})]
           /\ peer' \in [Conns -> {"new", "up", "left", "closed"}]
           /\ msp' \in [Conns -> {"none", "up", "left", "closed"}]
           /\ \A c \in Conns : peer'[c] = "new" => peer[c] = "new"
           /\ \A h \in Handles, c \in Conns, side \in {"ws", "msp"} :
                 behind'[h] = <<c, side>> => behind[h] = <<c, side>> /\ h \notin hs
<1> DEFINE closed == {h \in hs : Open(h)}
<1>1. /\ behind' = [h \in Handles |-> IF h \in closed THEN Nobody ELSE behind[h]]
      /\ peer' = [c \in Conns |-> IF \E h \in closed : behind[h] = <<c, "ws">>
                                  THEN "closed" ELSE peer[c]]
      /\ msp' = [c \in Conns |-> IF \E h \in closed : behind[h] = <<c, "msp">>
                                 THEN "closed" ELSE msp[c]]
  BY DEF closesocket
<1>2. /\ behind \in [Handles -> {Nobody} \cup (Conns \X {"ws", "msp"})]
      /\ peer \in [Conns -> {"new", "up", "left", "closed"}]
      /\ msp \in [Conns -> {"none", "up", "left", "closed"}]
  BY DEF TypeOK
<1>3. \A h \in Handles : h \notin closed => h \notin hs \/ behind[h] \in {Nobody}
  BY DEF Open
<1> HIDE DEF closed
<1>4. behind' \in [Handles -> {Nobody} \cup (Conns \X {"ws", "msp"})]
  BY <1>1, <1>2
<1>5. /\ peer' \in [Conns -> {"new", "up", "left", "closed"}]
      /\ \A c \in Conns : peer'[c] = "new" => peer[c] = "new"
  BY <1>1, <1>2
<1>6. msp' \in [Conns -> {"none", "up", "left", "closed"}]
  BY <1>1, <1>2
<1>7. \A h \in Handles : behind'[h] \notin {Nobody} =>
                             behind'[h] = behind[h] /\ h \notin hs
  BY <1>1, <1>3
<1>8. \A h \in Handles, c \in Conns, side \in {"ws", "msp"} :
         behind'[h] = <<c, side>> => behind[h] = <<c, side>> /\ h \notin hs
  <2>1. \A c \in Conns, side \in {"ws", "msp"} : <<c, side>> \notin {Nobody}
    BY Sides
  <2>2. QED
    BY <1>7, <2>1
<1>9. QED
  BY <1>4, <1>5, <1>6, <1>8

-----------------------------------------------------------------------------
(* Types *)

\* Closing keeps the listening state; the types of what a session step leaves
\* alone are those it had.
LEMMA TypeFrame ==
    ASSUME TypeOK, UNCHANGED <<listenVars, starts>>,
           wsSessions' \in [Slots -> [ws : Values, tcp : Values]],
           thread' \in [Conns -> Thread], host' \in {"idle", "drop"},
           behind' \in [Handles -> {Nobody} \cup (Conns \X {"ws", "msp"})],
           peer' \in [Conns -> {"new", "up", "left", "closed"}],
           msp' \in [Conns -> {"none", "up", "left", "closed"}]
    PROVE  TypeOK'
<1>1. /\ wsStarted' = wsStarted /\ wsStopping' = wsStopping
      /\ wsListenSocket' = wsListenSocket /\ listeners' = listeners
      /\ returned' = returned /\ starts' = starts
  BY DEF listenVars
<1>2. QED
  BY <1>1 DEF TypeOK, Thread, Pc

\* The steps of a session thread keep the types.
LEMMA TypeSession ==
    ASSUME TypeOK, NEW c \in Conns, Session(c) \/ readWsFrameEnds(c) PROVE TypeOK'
<1>0. /\ thread \in [Conns -> Thread] /\ thread[c].ws \in Values /\ thread[c].tcp \in Values
      /\ wsSessions \in [Slots -> [ws : Values, tcp : Values]] /\ INVALID \in Values
      /\ behind \in [Handles -> {Nobody} \cup (Conns \X {"ws", "msp"})]
      /\ peer \in [Conns -> {"new", "up", "left", "closed"}]
      /\ msp \in [Conns -> {"none", "up", "left", "closed"}]
      /\ host \in {"idle", "drop"}
  BY TypeParts DEF TypeOK, Thread, Values
<1> USE DEF sockVars
<1>1. CASE wsSessionAdd(c)
  <2>1. wsSessions' \in [Slots -> [ws : Values, tcp : Values]]
    BY <1>0, <1>1 DEF wsSessionAdd
  <2>2. thread' \in [Conns -> Thread]
    BY <1>0, <1>1, GotoTypes DEF wsSessionAdd, Pc
  <2>3. QED
    BY <1>0, <1>1, <2>1, <2>2, TypeFrame DEF wsSessionAdd
<1>2. ASSUME NEW pc \in Pc, Goto(c, pc), UNCHANGED <<wsSessions, listenVars, host, sockVars, starts>>
      PROVE  TypeOK'
  BY <1>0, <1>2, GotoTypes, TypeFrame
<1>3. CASE wsHandshake(c) \/ GiveUp(c) \/ EndOfStream(c) \/ readWsFrameEnds(c)
  BY <1>2, <1>3 DEF wsHandshake, GiveUp, EndOfStream, readWsFrameEnds, Pc
<1>4. CASE ConnectMsp(c)
  <2>1. PICK h \in Unused :
          /\ behind' = [behind EXCEPT ![h] = <<c, "msp">>]
          /\ thread' = [thread EXCEPT ![c].pc = "upstream", ![c].tcp = h]
    BY <1>4 DEF ConnectMsp
  <2>2. h \in Handles
    BY <2>1 DEF Unused, First
  <2>3. [thread[c] EXCEPT !.pc = "upstream", !.tcp = h] \in Thread
    <3>1. thread[c] \in Thread /\ h \in Values /\ "upstream" \in Pc
      BY <1>0, <2>2 DEF Pc, Values
    <3>2. QED
      BY <3>1 DEF Thread
  <2>4. thread' \in [Conns -> Thread]
    BY <1>0, <2>1, <2>3
  <2>5. behind' \in [Handles -> {Nobody} \cup (Conns \X {"ws", "msp"})]
    BY <1>0, <2>1
  <2>6. QED
    BY <1>0, <1>4, <2>4, <2>5, TypeFrame DEF ConnectMsp
<1>5. CASE wsSessionSetUpstream(c)
  <2>1. wsSessions' \in [Slots -> [ws : Values, tcp : Values]]
    BY <1>0, <1>5 DEF wsSessionSetUpstream
  <2>2. thread' \in [Conns -> Thread]
    BY <1>0, <1>5, GotoTypes DEF wsSessionSetUpstream, Pc
  <2>3. QED
    BY <1>0, <1>5, <2>1, <2>2, TypeFrame DEF wsSessionSetUpstream
<1>6. CASE wsSessionRemove(c)
  <2>1. wsSessions' \in [Slots -> [ws : Values, tcp : Values]]
    BY <1>0, <1>6 DEF wsSessionRemove, NoSession
  <2>2. thread' \in [Conns -> Thread]
    BY <1>0, <1>6, GotoTypes DEF wsSessionRemove, Pc
  <2>3. QED
    BY <1>0, <1>6, <2>1, <2>2, TypeFrame DEF wsSessionRemove
<1>7. CASE CloseTcp(c)
  <2>1. thread' \in [Conns -> Thread]
    BY <1>0, <1>7, GotoTypes DEF CloseTcp, Pc
  <2>2. QED
    BY <1>0, <1>7, <2>1, Closes, TypeFrame DEF CloseTcp
<1>8. CASE CloseWs(c)
  <2>1. [NoThread EXCEPT !.pc = "done"] \in Thread
    BY <1>0 DEF NoThread, Thread, Pc
  <2>2. thread' \in [Conns -> Thread]
    BY <1>0, <1>8, <2>1 DEF CloseWs
  <2>3. QED
    BY <1>0, <1>8, <2>2, Closes, TypeFrame DEF CloseWs
<1>9. QED
  BY <1>1, <1>3, <1>4, <1>5, <1>6, <1>7, <1>8 DEF Session

\* Two counts whose sum is within a bound are within it.
LEMMA Bounded ==
    ASSUME NEW a \in Nat, NEW b \in Nat, NEW s \in Nat, NEW m \in Nat, a + b <= s, s <= m
    PROVE  a \in 0 .. m /\ b \in 0 .. m
OBVIOUS

\* Every step keeps the types.
LEMMA TypeNext == TypeOK /\ Listening /\ Next => TypeOK' /\ Listening'
<1> SUFFICES ASSUME TypeOK, Listening, Next PROVE TypeOK' /\ Listening'
  OBVIOUS
<1> USE DEF sockVars, listenVars
<1>0. /\ thread \in [Conns -> Thread] /\ wsSessions \in [Slots -> [ws : Values, tcp : Values]]
      /\ behind \in [Handles -> {Nobody} \cup (Conns \X {"ws", "msp"})]
      /\ peer \in [Conns -> {"new", "up", "left", "closed"}]
      /\ msp \in [Conns -> {"none", "up", "left", "closed"}]
      /\ host \in {"idle", "drop"} /\ INVALID \in Values
      /\ wsListenSocket <=> listeners > 0
      /\ listeners \in Nat /\ returned \in Nat /\ starts \in Nat /\ starts <= MaxStarts
      /\ MaxStarts \in Nat
  BY TypeParts, WsConstants DEF TypeOK, WsConstants, Values
<1>1. ASSUME NEW c \in Conns, Accept(c) PROVE TypeOK' /\ Listening'
  <2>1. PICK h \in Unused :
          /\ behind' = [behind EXCEPT ![h] = <<c, "ws">>]
          /\ thread' = [thread EXCEPT ![c] = [NoThread EXCEPT !.pc = "add", !.ws = h]]
    BY <1>1 DEF Accept
  <2>2. h \in Handles
    BY <2>1 DEF Unused, First
  <2>3. [NoThread EXCEPT !.pc = "add", !.ws = h] \in Thread
    BY <1>0, <2>2 DEF NoThread, Thread, Pc, Values
  <2>4. thread' \in [Conns -> Thread]
    BY <1>0, <2>1, <2>3
  <2>5. behind' \in [Handles -> {Nobody} \cup (Conns \X {"ws", "msp"})]
    BY <1>0, <2>1
  <2>6. peer' \in [Conns -> {"new", "up", "left", "closed"}]
    BY <1>0, <1>1 DEF Accept
  <2>7. TypeOK'
    BY <1>0, <1>1, <2>4, <2>5, <2>6, TypeFrame DEF Accept
  <2>8. QED
    BY <1>1, <2>7 DEF Accept, Listening
<1>2. ASSUME NEW c \in Conns, PeerLeaves(c) \/ MspDrops(c) PROVE TypeOK' /\ Listening'
  <2>1. /\ peer' \in [Conns -> {"new", "up", "left", "closed"}]
        /\ msp' \in [Conns -> {"none", "up", "left", "closed"}]
    BY <1>0, <1>2 DEF PeerLeaves, MspDrops
  <2>2. UNCHANGED <<wsSessions, listenVars, thread, host, behind, starts>>
    BY <1>2 DEF PeerLeaves, MspDrops
  <2>3. TypeOK'
    BY <1>0, <2>1, <2>2, TypeFrame
  <2>4. QED
    BY <2>2, <2>3 DEF Listening
<1>3. ASSUME NEW c \in Conns, Session(c) \/ readWsFrameEnds(c) PROVE TypeOK' /\ Listening'
  <2>1. UNCHANGED <<listenVars, host, starts>>
    BY <1>3 DEF Session, readWsFrameEnds, wsSessionAdd, wsHandshake, ConnectMsp, GiveUp,
                wsSessionSetUpstream, EndOfStream, wsSessionRemove, CloseTcp, CloseWs
  <2>2. QED
    BY <1>3, <2>1, TypeSession DEF Listening
<1>4. ASSUME UNCHANGED <<wsSessions, thread, sockVars>>, host' \in {"idle", "drop"},
             wsStarted' \in BOOLEAN, wsStopping' \in BOOLEAN, wsListenSocket' \in BOOLEAN,
             listeners' \in Nat, returned' \in Nat, starts' \in 0 .. MaxStarts,
             wsListenSocket' <=> listeners' > 0, Listening'
      PROVE  TypeOK'
  <2>1. /\ listeners' + returned' <= starts' /\ starts' <= MaxStarts
        /\ listeners' \in Nat /\ returned' \in Nat /\ starts' \in Nat
    <3>1. listeners' + returned' <= starts'
      BY <1>4 DEF Listening
    <3>2. starts' \in 0 .. MaxStarts
      BY <1>4, Zenon
    <3>3. starts' \in Nat /\ starts' <= MaxStarts
      BY <3>2, WsConstants DEF WsConstants
    <3>4. listeners' \in Nat /\ returned' \in Nat
      BY <1>4, Zenon
    <3>5. QED
      BY <3>1, <3>3, <3>4
  <2>2. listeners' \in 0 .. MaxStarts /\ returned' \in 0 .. MaxStarts
    BY <2>1, Bounded, <1>0
  <2>3. QED
    BY <1>4, <2>2 DEF TypeOK
<1>5. CASE AcceptFailed
  <2>1. /\ UNCHANGED <<wsSessions, wsStarted, wsStopping, wsListenSocket, thread, host,
                       sockVars, starts>>
        /\ returned' = returned - 1 /\ returned > 0 /\ (wsStopping \/ wsListenSocket)
        /\ listeners' = IF wsStopping THEN listeners ELSE listeners + 1
    BY <1>5 DEF AcceptFailed
  <2>2. Listening' /\ listeners' \in Nat /\ returned' \in Nat /\ starts' \in 0 .. MaxStarts
    BY <1>0, <2>1 DEF Listening
  <2>3. wsListenSocket' <=> listeners' > 0
    BY <1>0, <2>1
  <2>4. wsStarted' \in BOOLEAN /\ wsStopping' \in BOOLEAN /\ wsListenSocket' \in BOOLEAN
    BY <2>1, Zenon DEF TypeOK
  <2>5. QED
    BY <1>0, <1>4, <2>1, <2>2, <2>3, <2>4
<1>6. CASE wsProxyStart
  <2>1. /\ UNCHANGED <<wsSessions, returned, thread, host, sockVars>>
        /\ host = "idle" /\ wsStopping' = FALSE /\ starts < MaxStarts
    BY <1>6 DEF wsProxyStart
  <2>2. \/ UNCHANGED <<wsStarted, wsListenSocket, listeners, starts>>
        \/ /\ wsStarted' = TRUE /\ wsListenSocket' = TRUE
           /\ listeners' = listeners + 1 /\ starts' = starts + 1
    BY <1>6 DEF wsProxyStart
  <2>3. Listening' /\ listeners' \in Nat /\ returned' \in Nat /\ starts' \in 0 .. MaxStarts
    BY <1>0, <2>1, <2>2 DEF Listening
  <2>4. wsListenSocket' <=> listeners' > 0
    BY <1>0, <2>2
  <2>5. wsStarted' \in BOOLEAN /\ wsStopping' \in BOOLEAN /\ wsListenSocket' \in BOOLEAN
    BY <2>1, <2>2, Zenon DEF TypeOK
  <2>6. QED
    BY <1>0, <1>4, <2>1, <2>3, <2>4, <2>5
<1>7. CASE wsProxyStop
  <2>1. /\ UNCHANGED <<wsSessions, wsStarted, thread, sockVars, starts>>
        /\ wsStopping' = TRUE /\ wsListenSocket' = FALSE
        /\ listeners' = 0 /\ returned' = returned + listeners /\ host' = "drop"
    BY <1>7 DEF wsProxyStop
  <2>2. Listening' /\ listeners' \in Nat /\ returned' \in Nat /\ starts' \in 0 .. MaxStarts
    BY <1>0, <2>1 DEF Listening
  <2>3. wsStarted' \in BOOLEAN /\ wsStopping' \in BOOLEAN /\ wsListenSocket' \in BOOLEAN
    BY <2>1, Zenon DEF TypeOK
  <2>4. wsListenSocket' <=> listeners' > 0
    BY <2>1
  <2>5. host' \in {"idle", "drop"}
    BY <2>1
  <2>6. QED
    BY <1>4, <2>1, <2>2, <2>3, <2>4, <2>5
<1>8. CASE wsProxyDropClients
  <2>1. /\ UNCHANGED <<wsStopping, wsListenSocket, listeners, returned, thread, starts>>
        /\ wsStarted' = FALSE /\ host = "drop" /\ host' = "idle"
        /\ wsSessions' = [i \in Slots |-> NoSession]
    BY <1>8 DEF wsProxyDropClients
  <2>2. wsSessions' \in [Slots -> [ws : Values, tcp : Values]]
    BY <1>0, <2>1 DEF NoSession
  <2>3. /\ behind' \in [Handles -> {Nobody} \cup (Conns \X {"ws", "msp"})]
        /\ peer' \in [Conns -> {"new", "up", "left", "closed"}]
        /\ msp' \in [Conns -> {"none", "up", "left", "closed"}]
    BY <1>8, Closes DEF wsProxyDropClients
  <2>4. Listening'
    BY <2>1 DEF Listening
  <2>5. QED
    BY <2>1, <2>2, <2>3, <2>4 DEF TypeOK
<1>9. QED
  BY <1>1, <1>2, <1>3, <1>5, <1>6, <1>7, <1>8 DEF Next

-----------------------------------------------------------------------------
(* Sockets *)

\* A thread that goes on, but to the end, still has its sockets to close.
LEMMA GotoHeld ==
    ASSUME TypeOK, Sockets, NEW c \in Conns, NEW pc \in Pc \ {"none", "done"}, Goto(c, pc),
           thread[c].pc \notin {"none", "done"}, UNCHANGED <<behind, peer>>,
           \A h \in Handles : behind[h] = <<c, "msp">> =>
               pc \in {"upstream", "loop", "remove", "closeTcp"}
    PROVE  Sockets'
<1>1. /\ OthersStay(c) /\ thread'[c].pc = pc
      /\ thread'[c].ws = thread[c].ws /\ thread'[c].tcp = thread[c].tcp
  BY GotoTypes, TypeParts
<1>2. \A d \in Conns : d # c => thread'[d] = thread[d]
  BY <1>1 DEF OthersStay
<1>3. SocketsHeld'
  BY <1>1, <1>2 DEF Sockets, SocketsHeld
<1>4. NewHasNoThread'
  BY <1>1, <1>2 DEF Sockets, NewHasNoThread
<1>5. QED
  BY <1>3, <1>4 DEF Sockets

\* The steps of a session thread keep a thread to every socket.
LEMMA HeldSession ==
    ASSUME TypeOK, Sockets, NEW c \in Conns, Session(c) \/ readWsFrameEnds(c) PROVE Sockets'
<1> USE DEF sockVars
<1>0. /\ thread \in [Conns -> Thread]
      /\ behind \in [Handles -> {Nobody} \cup (Conns \X {"ws", "msp"})]
      /\ \A h \in Handles : behind[h] = <<c, "msp">> =>
            thread[c].tcp = h /\ thread[c].pc \in {"upstream", "loop", "remove", "closeTcp"}
      /\ \A h \in Handles : behind[h] = <<c, "ws">> => thread[c].ws = h
  BY TypeParts DEF TypeOK, Sockets, SocketsHeld
<1>1. CASE wsSessionAdd(c)
  BY <1>0, <1>1, GotoHeld DEF wsSessionAdd, Pc
<1>2. CASE wsHandshake(c)
  BY <1>0, <1>2, GotoHeld DEF wsHandshake, Pc
<1>3. CASE GiveUp(c) \/ EndOfStream(c) \/ readWsFrameEnds(c)
  BY <1>0, <1>3, GotoHeld DEF GiveUp, EndOfStream, readWsFrameEnds, Selects, Pc
<1>4. CASE wsSessionSetUpstream(c)
  BY <1>0, <1>4, GotoHeld DEF wsSessionSetUpstream, Pc
<1>5. CASE wsSessionRemove(c)
  <2>1. \A h \in Handles : behind[h] = <<c, "msp">> => thread[c].tcp # INVALID
    BY <1>0, Sides
  <2>2. QED
    BY <1>0, <1>5, <2>1, GotoHeld DEF wsSessionRemove, Pc
<1>6. CASE ConnectMsp(c)
  <2>1. PICK h \in Unused :
          /\ behind' = [behind EXCEPT ![h] = <<c, "msp">>]
          /\ thread' = [thread EXCEPT ![c].pc = "upstream", ![c].tcp = h]
    BY <1>6 DEF ConnectMsp
  <2>2. h \in Handles /\ thread[c].pc = "connect" /\ peer' = peer
    BY <1>6, <2>1 DEF Unused, First, ConnectMsp
  <2>3. /\ \A g \in Handles : behind'[g] = IF g = h THEN <<c, "msp">> ELSE behind[g]
        /\ \A d \in Conns : d # c => thread'[d] = thread[d]
        /\ thread'[c].pc = "upstream" /\ thread'[c].ws = thread[c].ws /\ thread'[c].tcp = h
    BY <1>0, <2>1, <2>2 DEF Thread
  <2>4. \A g \in Handles : behind[g] # <<c, "msp">>
    BY <1>0, <2>2
  <2>5. SocketsHeld'
    BY <2>2, <2>3, <2>4, Sides DEF Sockets, SocketsHeld
  <2>6. NewHasNoThread'
    BY <2>2, <2>3 DEF Sockets, NewHasNoThread
  <2>7. QED
    BY <2>5, <2>6 DEF Sockets
<1>7. CASE CloseTcp(c)
  <2>1. /\ OthersStay(c) /\ thread'[c].pc = "closeWs" /\ thread[c].pc = "closeTcp"
        /\ thread'[c].ws = thread[c].ws /\ thread'[c].tcp = thread[c].tcp
    BY <1>0, <1>7, GotoTypes DEF CloseTcp, Pc
  <2>2. /\ \A d \in Conns : peer'[d] = "new" => peer[d] = "new"
        /\ \A h \in Handles, d \in Conns, side \in {"ws", "msp"} :
              behind'[h] = <<d, side>> => behind[h] = <<d, side>> /\ h # thread[c].tcp
    BY <1>7, Closes DEF CloseTcp
  <2>3. \A d \in Conns : d # c => thread'[d] = thread[d]
    BY <2>1 DEF OthersStay
  <2>4. SocketsHeld'
    BY <1>0, <2>1, <2>2, <2>3, Sides DEF Sockets, SocketsHeld
  <2>5. NewHasNoThread'
    BY <2>1, <2>2, <2>3 DEF Sockets, NewHasNoThread
  <2>6. QED
    BY <2>4, <2>5 DEF Sockets
<1>8. CASE CloseWs(c)
  <2>1. /\ thread[c].pc = "closeWs" /\ thread'[c].pc = "done"
        /\ \A d \in Conns : d # c => thread'[d] = thread[d]
    BY <1>0, <1>8 DEF CloseWs, NoThread
  <2>2. /\ \A d \in Conns : peer'[d] = "new" => peer[d] = "new"
        /\ \A h \in Handles, d \in Conns, side \in {"ws", "msp"} :
              behind'[h] = <<d, side>> => behind[h] = <<d, side>> /\ h # thread[c].ws
    BY <1>8, Closes DEF CloseWs
  <2>3. \A h \in Handles : behind'[h] # <<c, "ws">> /\ behind'[h] # <<c, "msp">>
    BY <1>0, <2>1, <2>2, Sides
  <2>4. SocketsHeld'
    BY <2>1, <2>2, <2>3, Sides DEF Sockets, SocketsHeld
  <2>5. NewHasNoThread'
    BY <2>1, <2>2 DEF Sockets, NewHasNoThread
  <2>6. QED
    BY <2>4, <2>5 DEF Sockets
<1>9. QED
  BY <1>1, <1>2, <1>3, <1>4, <1>5, <1>6, <1>7, <1>8 DEF Session

\* Every step keeps a thread to every socket.
LEMMA HeldNext == TypeOK /\ Sockets /\ Next => Sockets'
<1> SUFFICES ASSUME TypeOK, Sockets, Next PROVE Sockets'
  OBVIOUS
<1> USE DEF sockVars
<1>0. /\ thread \in [Conns -> Thread]
      /\ behind \in [Handles -> {Nobody} \cup (Conns \X {"ws", "msp"})]
      /\ peer \in [Conns -> {"new", "up", "left", "closed"}]
  BY TypeParts DEF TypeOK
<1>1. ASSUME NEW c \in Conns, Accept(c) PROVE Sockets'
  <2>1. PICK h \in Unused :
          /\ behind' = [behind EXCEPT ![h] = <<c, "ws">>]
          /\ thread' = [thread EXCEPT ![c] = [NoThread EXCEPT !.pc = "add", !.ws = h]]
    BY <1>1 DEF Accept
  <2>2. /\ h \in Handles /\ thread[c].pc = "none"
        /\ \A d \in Conns : peer'[d] = IF d = c THEN "up" ELSE peer[d]
    BY <1>0, <1>1, <2>1 DEF Unused, First, Accept, Sockets, NewHasNoThread
  <2>3. /\ \A g \in Handles : behind'[g] = IF g = h THEN <<c, "ws">> ELSE behind[g]
        /\ \A d \in Conns : d # c => thread'[d] = thread[d]
        /\ thread'[c].pc = "add" /\ thread'[c].ws = h
    BY <1>0, <2>1, <2>2 DEF NoThread
  <2>4. \A g \in Handles : behind[g] # <<c, "ws">> /\ behind[g] # <<c, "msp">>
    BY <2>2 DEF Sockets, SocketsHeld
  <2>5. SocketsHeld'
    BY <2>2, <2>3, <2>4, Sides DEF Sockets, SocketsHeld
  <2>6. NewHasNoThread'
    BY <2>2, <2>3 DEF Sockets, NewHasNoThread
  <2>7. QED
    BY <2>5, <2>6 DEF Sockets
<1>2. ASSUME UNCHANGED <<behind, thread>>, \A c \in Conns : peer'[c] = "new" => peer[c] = "new"
      PROVE  Sockets'
  BY <1>2 DEF Sockets, SocketsHeld, NewHasNoThread
<1>3. ASSUME NEW c \in Conns, PeerLeaves(c) \/ MspDrops(c) PROVE Sockets'
  BY <1>0, <1>2, <1>3 DEF PeerLeaves, MspDrops
<1>4. ASSUME NEW c \in Conns, Session(c) \/ readWsFrameEnds(c) PROVE Sockets'
  BY <1>4, HeldSession
<1>5. CASE AcceptFailed \/ wsProxyStart \/ wsProxyStop
  BY <1>2, <1>5 DEF AcceptFailed, wsProxyStart, wsProxyStop
<1>6. CASE wsProxyDropClients
  <2>1. /\ thread' = thread
        /\ \A c \in Conns : peer'[c] = "new" => peer[c] = "new"
        /\ \A h \in Handles, d \in Conns, side \in {"ws", "msp"} :
              behind'[h] = <<d, side>> => behind[h] = <<d, side>>
    BY <1>6, Closes DEF wsProxyDropClients
  <2>2. QED
    BY <2>1, Sides DEF Sockets, SocketsHeld, NewHasNoThread
<1>7. QED
  BY <1>1, <1>3, <1>4, <1>5, <1>6 DEF Next

-----------------------------------------------------------------------------
(* Slots *)

\* Holders and slots are finite sets.
LEMMA FiniteCounts ==
    \A h : /\ IsFiniteSet(Holders(h)) /\ IsFiniteSet(SlotsOf(h))
           /\ IsFiniteSet(Holders(h)') /\ IsFiniteSet(SlotsOf(h)')
           /\ Cardinality(Holders(h)) \in Nat /\ Cardinality(Holders(h)') \in Nat
           /\ Cardinality(SlotsOf(h)) \in Nat /\ Cardinality(SlotsOf(h)') \in Nat
<1> TAKE h
<1>1. /\ Holders(h) \subseteq Conns /\ Holders(h)' \subseteq Conns
      /\ SlotsOf(h) \subseteq Slots /\ SlotsOf(h)' \subseteq Slots
  BY DEF Holders, SlotsOf
<1>2. IsFiniteSet(Conns) /\ IsFiniteSet(Slots)
  BY WsConstants DEF WsConstants
<1>3. /\ IsFiniteSet(Holders(h)) /\ IsFiniteSet(SlotsOf(h))
      /\ IsFiniteSet(Holders(h)') /\ IsFiniteSet(SlotsOf(h)')
  BY <1>1, <1>2, FS_Subset, Zenon
<1>4. QED
  BY <1>3, FS_CardinalityType, Zenon

\* A step after which a handle has no fewer threads and no more slots.
Settles(h) == Holders(h) \subseteq Holders(h)' /\ SlotsOf(h)' \subseteq SlotsOf(h)

\* Where threads only join and slots only go, the slots stay counted.
LEMMA SettlesCounted ==
    ASSUME SlotsCounted, NEW h \in Handles, Settles(h)
    PROVE  Cardinality(SlotsOf(h)') <= Cardinality(Holders(h)')
<1>1. /\ Cardinality(Holders(h)) <= Cardinality(Holders(h)')
      /\ Cardinality(SlotsOf(h)') <= Cardinality(SlotsOf(h))
  BY FS_Subset, FiniteCounts, Zenon DEF Settles
<1>2. Cardinality(SlotsOf(h)) <= Cardinality(Holders(h))
  BY DEF SlotsCounted
<1>3. QED
  BY <1>1, <1>2, FiniteCounts

\* A step of thread c that keeps the slots, and takes c out of no count.
LEMMA GotoSettles ==
    ASSUME TypeOK, NEW c \in Conns, NEW pc \in Pc, Goto(c, pc),
           thread[c].pc \in Holding => pc \in Holding,
           \A i \in Slots : wsSessions'[i].ws = wsSessions[i].ws,
           NEW h \in Handles
    PROVE  Settles(h)
<1>1. /\ \A d \in Conns \ {c} : thread'[d] = thread[d]
      /\ thread'[c].pc = pc /\ thread'[c].ws = thread[c].ws
  BY GotoTypes, TypeParts DEF OthersStay
<1>2. QED
  BY <1>1 DEF Settles, Holders, SlotsOf

\* Adding a session: the handle gains a thread, and at most one slot.
LEMMA AddCounted ==
    ASSUME TypeOK, SlotsCounted, NEW c \in Conns, wsSessionAdd(c), NEW h \in Handles
    PROVE  Cardinality(SlotsOf(h)') <= Cardinality(Holders(h)')
<1> DEFINE free == First({i \in Slots : wsSessions[i].ws = INVALID})
<1>1. /\ thread[c].pc = "add" /\ Goto(c, "handshake")
      /\ wsSessions' = [i \in Slots |-> IF i \in free
                          THEN [ws |-> thread[c].ws, tcp |-> INVALID] ELSE wsSessions[i]]
  BY DEF wsSessionAdd
<1>2. free \subseteq Slots /\ \A i, j \in free : i = j
  <2>1. {i \in Slots : wsSessions[i].ws = INVALID} \in SUBSET Nat
    BY WsConstants DEF WsConstants
  <2>2. QED
    BY <2>1, FirstIsOne
<1> HIDE DEF free
<1>3. \A i \in Slots : wsSessions'[i].ws = IF i \in free THEN thread[c].ws ELSE wsSessions[i].ws
  BY <1>1
<1>4. /\ \A d \in Conns \ {c} : thread'[d] = thread[d]
      /\ thread'[c].pc = "handshake" /\ thread'[c].ws = thread[c].ws
  BY <1>1, GotoTypes, TypeParts DEF OthersStay, Pc
<1>5. CASE thread[c].ws # h
  <2>1. Settles(h)
    BY <1>3, <1>4, <1>5 DEF Settles, Holders, SlotsOf
  <2>2. QED
    BY <2>1, SettlesCounted
<1>6. CASE thread[c].ws = h
  <2>1. Holders(h)' = Holders(h) \cup {c} /\ c \notin Holders(h)
    BY <1>1, <1>4, <1>6 DEF Holders, Holding
  <2>2. Cardinality(Holders(h)') = Cardinality(Holders(h)) + 1
    BY <2>1, FS_AddElement, FiniteCounts
  <2>3. \E i : SlotsOf(h)' \subseteq SlotsOf(h) \cup {i}
    <3>1. CASE free = {}
      BY <1>3, <3>1 DEF SlotsOf
    <3>2. ASSUME NEW i \in free PROVE SlotsOf(h)' \subseteq SlotsOf(h) \cup {i}
      BY <1>2, <1>3, <3>2 DEF SlotsOf
    <3>3. QED
      BY <3>1, <3>2
  <2>4. PICK i : SlotsOf(h)' \subseteq SlotsOf(h) \cup {i}
    BY <2>3
  <2>5. /\ IsFiniteSet(SlotsOf(h) \cup {i})
        /\ Cardinality(SlotsOf(h) \cup {i}) <= Cardinality(SlotsOf(h)) + 1
    <3>1. IsFiniteSet(SlotsOf(h)) /\ Cardinality(SlotsOf(h)) \in Nat
      BY FiniteCounts
    <3>2. /\ IsFiniteSet(SlotsOf(h) \cup {i})
          /\ Cardinality(SlotsOf(h) \cup {i}) = IF i \in SlotsOf(h) THEN Cardinality(SlotsOf(h))
                                                ELSE Cardinality(SlotsOf(h)) + 1
      BY <3>1, FS_AddElement
    <3>3. QED
      BY <3>1, <3>2
  <2>6. Cardinality(SlotsOf(h)') <= Cardinality(SlotsOf(h) \cup {i})
    BY <2>4, <2>5, FS_Subset, Zenon
  <2>7. /\ Cardinality(SlotsOf(h)) <= Cardinality(Holders(h))
        /\ Cardinality(SlotsOf(h) \cup {i}) \in Nat
    BY <2>5, FS_CardinalityType DEF SlotsCounted
  <2>8. QED
    BY <2>2, <2>5, <2>6, <2>7, FiniteCounts
<1>7. QED
  BY <1>5, <1>6

\* Giving a slot back: the handle loses a thread, and a slot if it has one.
LEMMA RemoveCounted ==
    ASSUME TypeOK, SlotsCounted, NEW c \in Conns, wsSessionRemove(c), NEW h \in Handles
    PROVE  Cardinality(SlotsOf(h)') <= Cardinality(Holders(h)')
<1> DEFINE mine == First({i \in Slots : wsSessions[i].ws = thread[c].ws})
<1>1. /\ thread[c].pc = "remove"
      /\ Goto(c, IF thread[c].tcp = INVALID THEN "closeWs" ELSE "closeTcp")
      /\ wsSessions' = [i \in Slots |-> IF i \in mine THEN NoSession ELSE wsSessions[i]]
  BY DEF wsSessionRemove
<1>2. /\ mine \subseteq SlotsOf(thread[c].ws)
      /\ SlotsOf(thread[c].ws) # {} => mine # {}
  <2>1. {i \in Slots : wsSessions[i].ws = thread[c].ws} \in SUBSET Nat
    BY WsConstants DEF WsConstants
  <2>2. QED
    BY <2>1, FirstIsOne DEF SlotsOf
<1> HIDE DEF mine
<1>3. \A i \in Slots : wsSessions'[i].ws = IF i \in mine THEN INVALID ELSE wsSessions[i].ws
  BY <1>1 DEF NoSession
<1>4. /\ \A d \in Conns \ {c} : thread'[d] = thread[d]
      /\ thread'[c].pc \in {"closeWs", "closeTcp"}
  BY <1>1, GotoTypes, TypeParts DEF OthersStay, Pc
<1>5. SlotsOf(h)' \subseteq SlotsOf(h) \ mine
  BY <1>3, Sides DEF SlotsOf
<1>6. CASE thread[c].ws # h
  <2>1. Settles(h)
    BY <1>4, <1>5, <1>6 DEF Settles, Holders
  <2>2. QED
    BY <2>1, SettlesCounted
<1>7. CASE thread[c].ws = h
  <2>1. Holders(h)' = Holders(h) \ {c} /\ c \in Holders(h)
    BY <1>1, <1>4, <1>7 DEF Holders, Holding
  <2>2. Cardinality(Holders(h)') = Cardinality(Holders(h)) - 1
    BY <2>1, FS_RemoveElement, FiniteCounts
  <2>3. CASE SlotsOf(h) = {}
    <3>1. SlotsOf(h)' = {}
      BY <1>5, <2>3
    <3>2. Cardinality(SlotsOf(h)') = 0
      BY <3>1, FS_EmptySet
    <3>3. QED
      BY <3>2, FiniteCounts
  <2>4. CASE SlotsOf(h) # {}
    <3>1. PICK i \in mine : i \in SlotsOf(h)
      BY <1>2, <1>7, <2>4
    <3>2. SlotsOf(h)' \subseteq SlotsOf(h) \ {i}
      BY <1>5, <3>1
    <3>3. /\ IsFiniteSet(SlotsOf(h) \ {i})
          /\ Cardinality(SlotsOf(h) \ {i}) = Cardinality(SlotsOf(h)) - 1
      BY <3>1, FS_RemoveElement, FiniteCounts
    <3>4. Cardinality(SlotsOf(h)') <= Cardinality(SlotsOf(h) \ {i})
      BY <3>2, <3>3, FS_Subset, Zenon
    <3>5. Cardinality(SlotsOf(h)) <= Cardinality(Holders(h))
      BY DEF SlotsCounted
    <3>6. QED
      BY <2>2, <3>3, <3>4, <3>5, FiniteCounts
  <2>5. QED
    BY <2>3, <2>4
<1>8. QED
  BY <1>6, <1>7

\* Every step keeps the slots of a handle counted.
LEMMA CountedNext == TypeOK /\ Sockets /\ SlotsCounted /\ Next => SlotsCounted'
<1> SUFFICES ASSUME TypeOK, Sockets, SlotsCounted, Next, NEW h \in Handles
             PROVE  Cardinality(SlotsOf(h)') <= Cardinality(Holders(h)')
  BY DEF SlotsCounted
<1>0. thread \in [Conns -> Thread]
  BY TypeParts
<1>1. ASSUME Settles(h) PROVE Cardinality(SlotsOf(h)') <= Cardinality(Holders(h)')
  BY <1>1, SettlesCounted
<1>2. ASSUME UNCHANGED <<wsSessions, thread>> PROVE Settles(h)
  BY <1>2 DEF Settles, Holders, SlotsOf
<1>3. ASSUME NEW c \in Conns, Accept(c) PROVE Settles(h)
  <2>1. PICK g \in Unused :
          thread' = [thread EXCEPT ![c] = [NoThread EXCEPT !.pc = "add", !.ws = g]]
    BY <1>3 DEF Accept
  <2>2. thread[c].pc = "none" /\ wsSessions' = wsSessions
    BY <1>3 DEF Accept, Sockets, NewHasNoThread
  <2>3. \A d \in Conns \ {c} : thread'[d] = thread[d]
    BY <1>0, <2>1
  <2>4. QED
    BY <2>2, <2>3 DEF Settles, Holders, SlotsOf, Holding
<1>4. ASSUME NEW c \in Conns, NEW pc \in Pc, Goto(c, pc), wsSessions' = wsSessions,
             thread[c].pc \in Holding => pc \in Holding
      PROVE  Settles(h)
  BY <1>4, GotoSettles
<1>5. ASSUME NEW c \in Conns,
             wsHandshake(c) \/ GiveUp(c) \/ EndOfStream(c) \/ readWsFrameEnds(c) \/ CloseTcp(c)
      PROVE  Settles(h)
  BY <1>4, <1>5 DEF wsHandshake, GiveUp, EndOfStream, readWsFrameEnds, CloseTcp, Pc, Holding
<1>6. ASSUME NEW c \in Conns, wsSessionSetUpstream(c) PROVE Settles(h)
  <2>1. \A i \in Slots : wsSessions'[i].ws = wsSessions[i].ws
    BY <1>6 DEF wsSessionSetUpstream, TypeOK
  <2>2. Goto(c, "loop")
    BY <1>6 DEF wsSessionSetUpstream
  <2>3. QED
    BY <2>1, <2>2, GotoSettles DEF Pc, Holding
<1>7. ASSUME NEW c \in Conns, ConnectMsp(c) PROVE Settles(h)
  <2>1. PICK g \in Unused : thread' = [thread EXCEPT ![c].pc = "upstream", ![c].tcp = g]
    BY <1>7 DEF ConnectMsp
  <2>2. /\ \A d \in Conns \ {c} : thread'[d] = thread[d]
        /\ thread'[c].pc = "upstream" /\ thread'[c].ws = thread[c].ws
    BY <1>0, <2>1 DEF Thread
  <2>3. wsSessions' = wsSessions
    BY <1>7 DEF ConnectMsp
  <2>4. QED
    BY <2>2, <2>3 DEF Settles, Holders, SlotsOf, Holding
<1>8. ASSUME NEW c \in Conns, CloseWs(c) PROVE Settles(h)
  <2>1. /\ \A d \in Conns \ {c} : thread'[d] = thread[d]
        /\ thread[c].pc = "closeWs" /\ wsSessions' = wsSessions
    BY <1>0, <1>8 DEF CloseWs
  <2>2. QED
    BY <2>1 DEF Settles, Holders, SlotsOf, Holding
<1>9. CASE wsProxyDropClients
  <2>1. SlotsOf(h)' = {} /\ thread' = thread
    BY <1>9, Sides DEF wsProxyDropClients, SlotsOf, NoSession
  <2>2. QED
    BY <1>1, <2>1 DEF Settles, Holders
<1>10. ASSUME \/ \E c \in Conns : PeerLeaves(c) \/ MspDrops(c)
              \/ AcceptFailed \/ wsProxyStart \/ wsProxyStop
       PROVE  Settles(h)
  BY <1>2, <1>10 DEF PeerLeaves, MspDrops, AcceptFailed, wsProxyStart, wsProxyStop
<1>11. QED
  BY <1>1, <1>3, <1>5, <1>6, <1>7, <1>8, <1>9, <1>10, AddCounted, RemoveCounted
  DEF Next, Session

-----------------------------------------------------------------------------
(* Theorems *)

\* The inductive invariant holds at start.
LEMMA WsInit == Init => WsInv
<1> SUFFICES ASSUME Init PROVE WsInv
  OBVIOUS
<1> USE DEF Init
<1>1. /\ INVALID \in Values /\ ZERO \in Values /\ MaxStarts \in Nat
      /\ INVALID \notin Handles /\ ZERO \notin Handles
  BY WsConstants DEF WsConstants, Values
<1>2. TypeOK
  <2>1. wsSessions \in [Slots -> [ws : Values, tcp : Values]]
    BY <1>1 DEF NoSession
  <2>2. thread \in [Conns -> Thread]
    BY <1>1 DEF NoThread, Thread, Pc
  <2>3. /\ behind \in [Handles -> {Nobody} \cup (Conns \X {"ws", "msp"})]
        /\ peer \in [Conns -> {"new", "up", "left", "closed"}]
        /\ msp \in [Conns -> {"none", "up", "left", "closed"}]
    OBVIOUS
  <2>4. /\ wsStarted \in BOOLEAN /\ wsStopping \in BOOLEAN /\ wsListenSocket \in BOOLEAN
        /\ host \in {"idle", "drop"}
    BY Zenon
  <2>5. listeners \in 0 .. MaxStarts /\ returned \in 0 .. MaxStarts /\ starts \in 0 .. MaxStarts
    BY <1>1
  <2>6. wsListenSocket <=> listeners > 0
    OBVIOUS
  <2>7. QED
    BY <2>1, <2>2, <2>3, <2>4, <2>5, <2>6 DEF TypeOK, Thread, Pc
<1>3. Listening
  BY DEF Listening
<1>4. Sockets
  BY Sides DEF Sockets, SocketsHeld, NewHasNoThread, NoThread
<1>5. SlotsCounted
  <2> SUFFICES ASSUME NEW h \in Handles PROVE Cardinality(SlotsOf(h)) <= Cardinality(Holders(h))
    BY DEF SlotsCounted
  <2>1. SlotsOf(h) = {}
    BY <1>1 DEF SlotsOf, NoSession
  <2>2. QED
    BY <2>1, FS_EmptySet, FiniteCounts
<1>6. QED
  BY <1>2, <1>3, <1>4, <1>5 DEF WsInv

\* The inductive invariant of the proxy.
THEOREM WsInvariance == Spec => []WsInv
<1>1. WsInv /\ [Next]_vars => WsInv'
  <2> SUFFICES ASSUME WsInv, [Next]_vars PROVE WsInv'
    OBVIOUS
  <2> USE DEF WsInv
  <2>1. CASE Next
    BY <2>1, TypeNext, HeldNext, CountedNext
  <2>2. CASE UNCHANGED vars
    <3>1. TypeOK' /\ Listening'
      BY <2>2 DEF vars, listenVars, sockVars, TypeOK, Listening
    <3>2. Sockets'
      BY <2>2 DEF vars, sockVars, Sockets, SocketsHeld, NewHasNoThread
    <3>3. SlotsCounted'
      BY <2>2, SettlesCounted DEF vars, SlotsCounted, Settles, SlotsOf, Holders
    <3>4. QED
      BY <3>1, <3>2, <3>3
  <2>3. QED
    BY <2>1, <2>2
<1>2. QED
  BY WsInit, <1>1, PTL DEF Spec

\* Every open socket of the proxy has a thread that will still close it, even
\* when a drop has closed sockets under their threads and the system has given
\* the handles to newer ones.
THEOREM EverySocketIsClosed == Spec => []NoSocketLeaks
<1>1. WsInv => NoSocketLeaks
  <2> SUFFICES ASSUME WsInv, NEW h \in Handles, Open(h)
               PROVE  \E c \in Conns : /\ thread[c].pc \notin {"none", "done"}
                                       /\ \/ thread[c].ws = h
                                          \/ thread[c].tcp = h /\ thread[c].pc # "closeWs"
    BY DEF WsInv, NoSocketLeaks
  <2>1. PICK c \in Conns : behind[h] = <<c, "ws">> \/ behind[h] = <<c, "msp">>
    BY DEF WsInv, TypeOK, Open
  <2>2. QED
    BY <2>1 DEF WsInv, Sockets, SocketsHeld
<1>2. QED
  BY <1>1, WsInvariance, PTL

\* Every slot of the session table that is in use has a thread that will still
\* give a slot of its handle back, with handles that are reused too.
THEOREM EverySlotIsGivenBack == Spec => []SlotsAreGivenBack
<1>1. WsInv => SlotsAreGivenBack
  <2> SUFFICES ASSUME WsInv, NEW i \in Slots, wsSessions[i].ws \in Handles
               PROVE  \E c \in Conns : c \in Holders(wsSessions[i].ws)
    BY DEF SlotsAreGivenBack, Holders, Holding
  <2> DEFINE h == wsSessions[i].ws
  <2>1. i \in SlotsOf(h)
    BY DEF SlotsOf
  <2>2. /\ Cardinality(SlotsOf(h)) # 0 /\ Cardinality(SlotsOf(h)) <= Cardinality(Holders(h))
        /\ Cardinality(SlotsOf(h)) \in Nat /\ Cardinality(Holders(h)) \in Nat
    BY <2>1, FS_EmptySet, FiniteCounts DEF WsInv, SlotsCounted
  <2>3. Cardinality(Holders(h)) # 0
    BY <2>2
  <2>4. Holders(h) # {}
    BY <2>3, FS_EmptySet
  <2>5. QED
    BY <2>4 DEF Holders
<1>2. QED
  BY <1>1, WsInvariance, PTL
=============================================================================
