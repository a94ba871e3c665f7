------------------------------ MODULE WsProxy -------------------------------
(***************************************************************************)
(* The WebSocket proxy for the web configurator (ws_proxy_win.c).  The     *)
(* listener thread accepts configurators; one thread per session does the  *)
(* handshake, connects to the MSP port of serial_tcp_win.c and relays      *)
(* until either end closes.  A small table of sessions lets the host close *)
(* them all when it stops the proxy.                                       *)
(*                                                                         *)
(* A critical section (wsSessionsLock) is one step.  The operating system  *)
(* gives a new socket any handle that is not open, one that another socket *)
(* had before included.                                                    *)
(*                                                                         *)
(* External: Winsock, the configurators, and the MSP port, which may       *)
(* refuse a link or close it.  What is relayed is left out: what matters   *)
(* of a frame is whether it ends the session.                              *)
(***************************************************************************)
EXTENDS Naturals, FiniteSets

CONSTANTS Conns,       \* bound: the connections made, 1..n in order of arrival
          Handles,     \* socket handles
          Slots,       \* 1..WS_CLIENT_SLOTS
          MaxStarts,   \* bound: wsProxyStart calls that open the listener
          ZERO,        \* the handle value of zeroed memory
          INVALID      \* INVALID_SOCKET

ASSUME WsConstants ==
    /\ ZERO \notin Handles /\ INVALID \notin Handles /\ ZERO # INVALID
    /\ Conns \subseteq Nat /\ Handles \subseteq Nat /\ Slots \subseteq Nat
    /\ IsFiniteSet(Conns) /\ IsFiniteSet(Slots)
    /\ MaxStarts \in Nat

VARIABLES
    wsSessions,       \* slot -> the two handles of a session
    wsStarted, wsStopping,
    wsListenSocket,   \* it is open
    listeners,        \* listener threads in accept
    returned,         \* listener threads whose accept has failed
    thread,           \* per connection: its wsClientThread
    host,             \* progress of wsProxyStop
    behind,           \* handle -> the connection and side of the socket, or Nobody
    peer,             \* configurator: "new", "up", "left" (it closed), "closed" (we did)
    msp,              \* MSP link: "none", "up", "left" (the port closed), "closed"
    starts            \* bound used up

listenVars == <<wsStarted, wsStopping, wsListenSocket, listeners, returned>>
sockVars   == <<behind, peer, msp>>
vars       == <<wsSessions, listenVars, thread, host, sockVars, starts>>

Values   == Handles \cup {ZERO, INVALID}
Nobody   == <<>>
NoThread == [pc |-> "none", ws |-> INVALID, tcp |-> INVALID]
NoSession == [ws |-> INVALID, tcp |-> INVALID]

\* The variables have their types, a listener thread is in accept only while
\* the listen socket is open, and one is there to accept whenever it is.
TypeOK ==
    /\ wsSessions \in [Slots -> [ws : Values, tcp : Values]]
    /\ wsStarted \in BOOLEAN /\ wsStopping \in BOOLEAN /\ wsListenSocket \in BOOLEAN
    /\ listeners \in 0 .. MaxStarts /\ returned \in 0 .. MaxStarts
    /\ thread \in [Conns -> [pc : {"none", "add", "handshake", "connect", "upstream", "loop",
                                   "remove", "closeTcp", "closeWs", "done"},
                             ws : Values, tcp : Values]]
    /\ host \in {"idle", "drop"}
    /\ behind \in [Handles -> {Nobody} \cup (Conns \X {"ws", "msp"})]
    /\ peer \in [Conns -> {"new", "up", "left", "closed"}]
    /\ msp \in [Conns -> {"none", "up", "left", "closed"}]
    /\ starts \in 0 .. MaxStarts
    /\ wsListenSocket <=> listeners > 0

\* The session table is static storage, zeroed and not INVALID_SOCKET; a run of
\* the proxy that has been stopped leaves it empty
Init ==
    /\ \/ wsSessions = [i \in Slots |-> [ws |-> ZERO, tcp |-> ZERO]]
       \/ wsSessions = [i \in Slots |-> NoSession]
    /\ wsStarted = FALSE /\ wsStopping = FALSE /\ wsListenSocket = FALSE
    /\ listeners = 0 /\ returned = 0
    /\ thread = [c \in Conns |-> NoThread]
    /\ host = "idle"
    /\ behind = [h \in Handles |-> Nobody]
    /\ peer = [c \in Conns |-> "new"] /\ msp = [c \in Conns |-> "none"]
    /\ starts = 0

-----------------------------------------------------------------------------
(* Operating system, configurators and the MSP port *)

\* The least element, if there is one
First(S) == {i \in S : \A j \in S : i <= j}

\* A thread or the table has the handle
Held(h) == \/ \E c \in Conns : h \in {thread[c].ws, thread[c].tcp}
           \/ \E i \in Slots : h \in {wsSessions[i].ws, wsSessions[i].tcp}

\* The handles a new socket may get.  Those that nobody has are
\* interchangeable: the least one stands for all of them
Unused == LET free == {h \in Handles : behind[h] = Nobody}
          IN  {h \in free : Held(h)} \cup First({h \in free : ~Held(h)})

Open(h) == h \in Handles /\ behind[h] # Nobody

\* The far end of the socket is gone, so recv on it returns 0
Ended(h) ==
    \E c \in Conns : \/ behind[h] = <<c, "ws">>  /\ peer[c] = "left"
                     \/ behind[h] = <<c, "msp">> /\ msp[c] = "left"

\* closesocket; a value that is no open handle is refused
closesocket(hs) ==
    LET closed == {h \in hs : Open(h)}
    IN  /\ behind' = [h \in Handles |-> IF h \in closed THEN Nobody ELSE behind[h]]
        /\ peer' = [c \in Conns |-> IF \E h \in closed : behind[h] = <<c, "ws">>
                                    THEN "closed" ELSE peer[c]]
        /\ msp' = [c \in Conns |-> IF \E h \in closed : behind[h] = <<c, "msp">>
                                   THEN "closed" ELSE msp[c]]

PeerLeaves(c) ==
    /\ peer[c] = "up" /\ peer' = [peer EXCEPT ![c] = "left"]
    /\ UNCHANGED <<wsSessions, listenVars, thread, host, behind, msp, starts>>

\* serialTcpDropClients, or a client thread of the port that ends
MspDrops(c) ==
    /\ msp[c] = "up" /\ msp' = [msp EXCEPT ![c] = "left"]
    /\ UNCHANGED <<wsSessions, listenVars, thread, host, behind, peer, starts>>

-----------------------------------------------------------------------------
(* wsListenThread *)

Accept(c) ==
    /\ wsListenSocket /\ peer[c] = "new" /\ \A d \in Conns : d < c => peer[d] # "new"
    /\ \E h \in Unused :
          /\ behind' = [behind EXCEPT ![h] = <<c, "ws">>]
          /\ thread' = [thread EXCEPT ![c] = [NoThread EXCEPT !.pc = "add", !.ws = h]]
    /\ peer' = [peer EXCEPT ![c] = "up"]
    /\ UNCHANGED <<wsSessions, listenVars, host, msp, starts>>

\* accept failed: the thread leaves if the proxy is being stopped, and goes
\* back to accept, on a new listen socket, if it has been started again
AcceptFailed ==
    /\ returned > 0 /\ (wsStopping \/ wsListenSocket)
    /\ returned' = returned - 1
    /\ listeners' = IF wsStopping THEN listeners ELSE listeners + 1
    /\ UNCHANGED <<wsSessions, wsStarted, wsStopping, wsListenSocket, thread, host,
                   sockVars, starts>>

-----------------------------------------------------------------------------
(* wsClientThread *)

Goto(c, pc) == thread' = [thread EXCEPT ![c].pc = pc]

\* wsSessionAdd; with no free slot the session goes on untracked
wsSessionAdd(c) ==
    LET free == First({i \in Slots : wsSessions[i].ws = INVALID})
    IN  /\ thread[c].pc = "add"
        /\ wsSessions' = [i \in Slots |-> IF i \in free
                            THEN [ws |-> thread[c].ws, tcp |-> INVALID] ELSE wsSessions[i]]
        /\ Goto(c, "handshake")
        /\ UNCHANGED <<listenVars, host, sockVars, starts>>

\* wsHandshake needs a socket that is open; it fails on a request without a
\* key, a hash that fails, a peer that is gone, or 5 s without a byte
wsHandshake(c) ==
    /\ thread[c].pc = "handshake"
    /\ \/ Open(thread[c].ws) /\ Goto(c, "connect")
       \/ Goto(c, "remove")
    /\ UNCHANGED <<wsSessions, listenVars, host, sockVars, starts>>

\* One of the 50 attempts succeeds
ConnectMsp(c) ==
    /\ thread[c].pc = "connect" /\ ~wsStopping
    /\ \E h \in Unused :
          /\ behind' = [behind EXCEPT ![h] = <<c, "msp">>]
          /\ thread' = [thread EXCEPT ![c].pc = "upstream", ![c].tcp = h]
    /\ msp' = [msp EXCEPT ![c] = "up"]
    /\ UNCHANGED <<wsSessions, listenVars, host, peer, starts>>

\* All 50 fail, or the proxy is being stopped
GiveUp(c) ==
    /\ thread[c].pc = "connect"
    /\ Goto(c, "remove")
    /\ UNCHANGED <<wsSessions, listenVars, host, sockVars, starts>>

\* wsSessionSetUpstream
wsSessionSetUpstream(c) ==
    LET mine == First({i \in Slots : wsSessions[i].ws = thread[c].ws})
    IN  /\ thread[c].pc = "upstream"
        /\ wsSessions' = [i \in Slots |-> IF i \in mine
                            THEN [wsSessions[i] EXCEPT !.tcp = thread[c].tcp] ELSE wsSessions[i]]
        /\ Goto(c, "loop")
        /\ UNCHANGED <<listenVars, host, sockVars, starts>>

\* select fails, and the loop goes on, unless both sockets are open
Selects(c) == thread[c].pc = "loop" /\ Open(thread[c].ws) /\ Open(thread[c].tcp)

\* Mutant of EndOfStream: only the configurator's side is read
EndOfWsStream(c) ==
    /\ Selects(c) /\ Ended(thread[c].ws)
    /\ Goto(c, "remove")
    /\ UNCHANGED <<wsSessions, listenVars, host, sockVars, starts>>

\* Mutant of EndOfStream: only the MSP side is read
EndOfMspStream(c) ==
    /\ Selects(c) /\ Ended(thread[c].tcp)
    /\ Goto(c, "remove")
    /\ UNCHANGED <<wsSessions, listenVars, host, sockVars, starts>>

\* recv on the MSP side, or readWsFrame on the other, meets the end
EndOfStream(c) ==
    /\ Selects(c) /\ (Ended(thread[c].ws) \/ Ended(thread[c].tcp))
    /\ Goto(c, "remove")
    /\ UNCHANGED <<wsSessions, listenVars, host, sockVars, starts>>

\* readWsFrame: a close frame, one that is too long, or one that stalls for 5 s
readWsFrameEnds(c) ==
    /\ Selects(c)
    /\ Goto(c, "remove")
    /\ UNCHANGED <<wsSessions, listenVars, host, sockVars, starts>>

\* Mutant of wsSessionRemove: the slot is kept
wsSessionKept(c) ==
    /\ thread[c].pc = "remove"
    /\ Goto(c, IF thread[c].tcp = INVALID THEN "closeWs" ELSE "closeTcp")
    /\ UNCHANGED <<wsSessions, listenVars, host, sockVars, starts>>

\* Mutant of wsSessionRemove: the MSP link is taken for closed
wsSessionRemoveShort(c) ==
    LET mine == First({i \in Slots : wsSessions[i].ws = thread[c].ws})
    IN  /\ thread[c].pc = "remove"
        /\ wsSessions' = [i \in Slots |-> IF i \in mine THEN NoSession ELSE wsSessions[i]]
        /\ Goto(c, "closeWs")
        /\ UNCHANGED <<listenVars, host, sockVars, starts>>

\* wsSessionRemove
wsSessionRemove(c) ==
    LET mine == First({i \in Slots : wsSessions[i].ws = thread[c].ws})
    IN  /\ thread[c].pc = "remove"
        /\ wsSessions' = [i \in Slots |-> IF i \in mine THEN NoSession ELSE wsSessions[i]]
        /\ Goto(c, IF thread[c].tcp = INVALID THEN "closeWs" ELSE "closeTcp")
        /\ UNCHANGED <<listenVars, host, sockVars, starts>>

CloseTcp(c) ==
    /\ thread[c].pc = "closeTcp"
    /\ closesocket({thread[c].tcp})
    /\ Goto(c, "closeWs")
    /\ UNCHANGED <<wsSessions, listenVars, host, starts>>

CloseWs(c) ==
    /\ thread[c].pc = "closeWs"
    /\ closesocket({thread[c].ws})
    /\ thread' = [thread EXCEPT ![c] = [NoThread EXCEPT !.pc = "done"]]
    /\ UNCHANGED <<wsSessions, listenVars, host, starts>>

-----------------------------------------------------------------------------
(* Host *)

\* wsProxyStart, on the opening of a serial port; bind may fail
wsProxyStart ==
    /\ host = "idle" /\ starts < MaxStarts
    /\ wsStopping' = FALSE
    /\ \/ wsStarted /\ UNCHANGED <<wsStarted, wsListenSocket, listeners, starts>>
       \/ /\ ~wsStarted
          /\ wsStarted' = TRUE /\ wsListenSocket' = TRUE
          /\ listeners' = listeners + 1 /\ starts' = starts + 1
       \/ ~wsStarted /\ UNCHANGED <<wsStarted, wsListenSocket, listeners, starts>>
    /\ UNCHANGED <<wsSessions, returned, thread, host, sockVars>>

\* wsProxyStop: the flag and the listen socket ...
wsProxyStop ==
    /\ host = "idle"
    /\ wsStopping' = TRUE /\ wsListenSocket' = FALSE
    /\ listeners' = 0 /\ returned' = returned + listeners
    /\ host' = "drop"
    /\ UNCHANGED <<wsSessions, wsStarted, thread, sockVars, starts>>

\* ... wsProxyDropClients, and the flag that lets it start again
wsProxyDropClients ==
    /\ host = "drop" /\ host' = "idle"
    /\ closesocket({wsSessions[i].ws : i \in Slots} \cup {wsSessions[i].tcp : i \in Slots})
    /\ wsSessions' = [i \in Slots |-> NoSession]
    /\ wsStarted' = FALSE
    /\ UNCHANGED <<wsStopping, wsListenSocket, listeners, returned, thread, starts>>

Session(c) ==
    \/ wsSessionAdd(c) \/ wsHandshake(c) \/ ConnectMsp(c) \/ GiveUp(c)
    \/ wsSessionSetUpstream(c) \/ EndOfStream(c) \/ wsSessionRemove(c)
    \/ CloseTcp(c) \/ CloseWs(c)

Next == \/ \E c \in Conns : Accept(c) \/ PeerLeaves(c) \/ MspDrops(c) \/ Session(c)
                            \/ readWsFrameEnds(c)
        \/ AcceptFailed \/ wsProxyStart \/ wsProxyStop \/ wsProxyDropClients

Spec == Init /\ [][Next]_vars

\* The system runs every session thread: no call of it blocks for ever, as
\* recv has a timeout, connect is tried 50 times and select waits 1 s
FairSpec == Spec /\ WF_vars(wsProxyDropClients) /\ \A c \in Conns : WF_vars(Session(c))

-----------------------------------------------------------------------------
(* Properties *)

\* Every open socket is in the hands of a thread that will still close it, on
\* every early return and whatever the drop has closed before.
NoSocketLeaks ==
    TypeOK /\ \A h \in Handles : Open(h) =>
        \E c \in Conns : /\ thread[c].pc \notin {"none", "done"}
                         /\ \/ thread[c].ws = h
                            \/ thread[c].tcp = h /\ thread[c].pc # "closeWs"

\* A slot of the session table belongs to a session whose thread will still
\* give it back: with 8 of them, one that stays behind is a session untracked.
SlotsAreGivenBack ==
    \A i \in Slots : wsSessions[i].ws \in Handles =>
        \E c \in Conns : /\ thread[c].ws = wsSessions[i].ws
                         /\ thread[c].pc \in {"handshake", "connect", "upstream", "loop", "remove"}

\* The socket of the session has been closed under its thread
Dropped(c) == thread[c].pc # "none" /\ (~Open(thread[c].ws) \/ behind[thread[c].ws] # <<c, "ws">>)

\* The MSP link of the session has been closed under its thread
Unlinked(c) == /\ thread[c].pc \in {"upstream", "loop", "remove", "closeTcp"}
               /\ thread[c].tcp # INVALID
               /\ ~Open(thread[c].tcp) \/ behind[thread[c].tcp] # <<c, "msp">>

\* "the configurator ... sees no close event, so its reboot-reconnect flow
\* never runs" (ws_proxy_win.c:49-52) must not happen: the MSP link that ends
\* takes the WebSocket with it, unless another thread closes the link under
\* the one that relays.  The thread of a dropped session does, when a handle it
\* still holds belongs to a newer session (ws_proxy_win.c:399, 477, 478).
LinkLossReachesPeer ==
    \A c \in Conns : msp[c] \in {"left", "closed"} /\ peer[c] = "up"
                      ~> peer[c] # "up" \/ Unlinked(c)

\* A configurator that leaves gives its MSP link back, of which the port has
\* few, unless its own socket has been closed under the thread.
LeaverReleasesMsp ==
    \A c \in Conns : peer[c] = "left" ~> (msp[c] # "up" \/ Dropped(c))

\* "a WebSocket that stays open while its MSP bridge is dead is exactly the
\* state the configurator cannot recover from" (ws_proxy_win.c:551-552).
NoDeadBridge ==
    \A c \in Conns : msp[c] \in {"left", "closed"} /\ peer[c] = "up" ~> peer[c] # "up"
=============================================================================
