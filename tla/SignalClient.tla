---------------------------- MODULE SignalClient ---------------------------
(***************************************************************************)
(* A node's connection to the signaler: the Socket.IO client               *)
(* (yamb/socketio/client.cpp), the Symple client over it                   *)
(* (yamb/symple/client.cpp) and SignalingConn (yamb/src/SignalingConn.cpp),*)
(* with the handlers of the signaler it talks to                           *)
(* (signaler/src/symple/symple.js, onConnection).                          *)
(*                                                                         *)
(* Two threads: the loop thread runs every callback of the client and the  *)
(* queue of actions _ipc; an application thread joins and leaves rooms.    *)
(* The connection may fail, connecting may be refused, an announcement may *)
(* be denied or time out, and the server may drop the client.              *)
(* MaxFail, MaxOps and MaxKicks bound how often.                           *)
(*                                                                         *)
(* The asserts of the code are active in its build: aborted names the one  *)
(* that failed, after which the process does nothing more.                 *)
(***************************************************************************)
EXTENDS Naturals, Sequences, FiniteSets

CONSTANTS Room,     \* rooms the application joins and leaves
          MaxFail,  \* failures, denials and time-outs of the environment
          MaxOps,   \* joins and leaves of the application
          MaxKicks  \* how often the server drops an announced client

ASSUME BoundsAssumption == MaxFail \in Nat /\ MaxOps \in Nat /\ MaxKicks \in Nat

VARIABLES
  cstate,       \* ClientState of the Socket.IO client
  sock,         \* its web socket: "closed", "connecting" or "open"
  timer,        \* _reconnectTimer is active
  reconnecting, \* _reconnecting
  status,       \* _announceStatus
  rooms,        \* _rooms of the Symple client
  txns,         \* announce transactions that are Running, by connection
  conn,         \* number of the current connection
  rejoin,       \* rooms onClientStateChange(Online) has yet to push
  online,       \* _connSync._connected
  ipc,          \* queue of joinRoomSync and leaveRoomSync actions
  app,          \* what the application thread is about to push
  wanted,       \* WebrtcNode::rooms, the rooms the application is in
  inbox,        \* packets under way to the client
  outbox,       \* packets under way to the server
  srv,          \* the server's socket for this connection
  srvRooms,     \* rooms2 of that socket
  aborted,      \* "no", or the assertion that failed
  fails, ops, kicks  \* the bounded counters

client == <<cstate, sock, timer, reconnecting, status, rooms, txns, conn, rejoin>>
threads == <<online, ipc, app, wanted>>
server == <<inbox, outbox, srv, srvRooms>>
counters == <<fails, ops, kicks>>
vars == <<client, threads, server, aborted, counters>>

States == {"Closed", "Connecting", "Connected", "Online", "Error"}
Packets == {"connect", "ack200", "ack401", "disconnect", "close"}
Actions == [op : {"join", "leave"}, room : Room]
Announce == [op |-> "announce"]
Idle == [op |-> "idle"]

\* The loop thread takes up one callback after the other.
LoopFree == aborted = "no" /\ rejoin = {}

Fail == fails < MaxFail /\ fails' = fails + 1

----------------------------------------------------------------------------
Init ==                          \* the constructor calls _client.connect()
  /\ cstate = "Connecting" /\ sock = "connecting"
  /\ timer = FALSE /\ reconnecting = FALSE
  /\ status = 0 /\ rooms = {} /\ txns = {} /\ conn = 1 /\ rejoin = {}
  /\ online = FALSE /\ ipc = << >> /\ app = Idle /\ wanted = {}
  /\ inbox = << >> /\ outbox = << >> /\ srv = "none" /\ srvRooms = {}
  /\ aborted = "no"
  /\ fails = 0 /\ ops = 0 /\ kicks = 0

\* The socket goes, and with it what was under way and the server's socket.
Disconnected == inbox' = << >> /\ outbox' = << >> /\ srv' = "none" /\ srvRooms' = {}

\* Symple's reset(), then that of Socket.IO; the socket is closed.
ResetKeepsStatus == rooms' = {} /\ UNCHANGED status  \* slip: status survives
Reset == rooms' = {} /\ status' = 0

\* setError and startReconnectTimer: the timer must not be active.
SetErrorOnce ==                      \* slip: only the first error arms the timer
  /\ cstate' = "Error" /\ online' = FALSE /\ reconnecting' = TRUE
  /\ timer' = (timer \/ ~reconnecting)
  /\ UNCHANGED aborted
SetError ==
  /\ cstate' = "Error" /\ online' = FALSE
  /\ IF timer THEN /\ aborted' = "timer"
                   /\ UNCHANGED <<timer, reconnecting>>
              ELSE /\ timer' = TRUE /\ reconnecting' = TRUE
                   /\ UNCHANGED aborted

----------------------------------------------------------------------------
(* Callbacks of the loop thread.                                           *)

\* TCP connected and the web socket handshake done: onConnect.  The server
\* greets the new socket and starts its two seconds' timer.
HandshakeDone ==
  /\ LoopFree /\ sock = "connecting"
  /\ sock' = "open"
  /\ cstate' = "Connected"
  /\ IF reconnecting THEN timer' = FALSE /\ reconnecting' = FALSE
                     ELSE UNCHANGED <<timer, reconnecting>>
  /\ srv' = "connected" /\ inbox' = <<"connect">>
  /\ UNCHANGED <<status, rooms, txns, conn, rejoin, threads, outbox, srvRooms,
                 aborted, counters>>

\* Connecting failed, or the connection was lost: onSocketError.
SocketError ==
  /\ LoopFree /\ sock # "closed"
  /\ Fail
  /\ SetError
  /\ sock' = "closed" /\ Disconnected
  /\ UNCHANGED <<status, rooms, txns, conn, rejoin, ipc, app, wanted, ops, kicks>>

OnReconnectTimer ==
  /\ LoopFree /\ timer
  /\ cstate' = "Connecting" /\ sock' = "connecting" /\ conn' = conn + 1
  /\ timer' = FALSE
  /\ Reset /\ Disconnected
  /\ UNCHANGED <<reconnecting, txns, rejoin, threads, aborted, counters>>

\* No answer in ten seconds: onAnnounceState(Failed).  The transaction outlives
\* the connection it was sent on.  Against a server that will not answer any
\* more the time-out is certain, otherwise it counts as a failure.
AnnounceTimeout(c) ==
  /\ LoopFree /\ c \in txns
  /\ IF c = conn /\ srv = "gone" /\ inbox = << >> THEN UNCHANGED fails ELSE Fail
  /\ txns' = txns \ {c}
  /\ SetError
  /\ UNCHANGED <<sock, status, rooms, conn, rejoin, ipc, app, wanted, server,
                 ops, kicks>>

Receive(p) == LoopFree /\ inbox # << >> /\ Head(inbox) = p /\ inbox' = Tail(inbox)

\* sockio::Client::onOnline and onClientStateChange(Online): waiters are let go
\* before the rooms are pushed.
GoOnlineForgetsRooms ==              \* slip: rooms are not joined again
  IF cstate = "Connected"
  THEN /\ cstate' = "Online" /\ online' = TRUE
       /\ UNCHANGED <<aborted, rejoin>>
  ELSE /\ aborted' = "online"
       /\ UNCHANGED <<cstate, online, rejoin>>
GoOnline ==
  IF cstate = "Connected"
  THEN /\ cstate' = "Online" /\ online' = TRUE /\ rejoin' = rooms
       /\ UNCHANGED aborted
  ELSE /\ aborted' = "online"
       /\ UNCHANGED <<cstate, online, rejoin>>

\* Symple's onOnline.
OnConnectPacket ==
  /\ Receive("connect")
  /\ IF status = 0
     THEN /\ outbox' = Append(outbox, Announce) /\ txns' = txns \cup {conn}
          /\ UNCHANGED <<cstate, online, rejoin, aborted>>
     ELSE GoOnline /\ UNCHANGED <<outbox, txns>>
  /\ UNCHANGED <<sock, timer, reconnecting, status, rooms, conn, ipc, app,
                 wanted, srv, srvRooms, counters>>

\* onAnnounceState(Success), unless the transaction has timed out before.
OnAnnounced ==
  /\ Receive("ack200")
  /\ txns' = txns \ {conn}
  /\ IF conn \in txns THEN status' = 200 /\ GoOnline
                      ELSE UNCHANGED <<status, cstate, online, rejoin, aborted>>
  /\ UNCHANGED <<sock, timer, reconnecting, rooms, conn, ipc, app, wanted, outbox,
                 srv, srvRooms, counters>>

OnDenied ==
  /\ Receive("ack401")
  /\ txns' = txns \ {conn}
  /\ IF conn \in txns
     THEN status' = 401 /\ SetError
     ELSE UNCHANGED <<status, cstate, online, timer, reconnecting, aborted>>
  /\ UNCHANGED <<sock, rooms, conn, rejoin, ipc, app, wanted, outbox, srv,
                 srvRooms, counters>>

\* "Do nothing, attempt to reconnect after ping timeout", which does nothing.
OnDisconnectPacket ==
  /\ Receive("disconnect")
  /\ UNCHANGED <<client, threads, outbox, srv, srvRooms, aborted, counters>>

\* Frame::Close: reset(), "close everything down".
OnClosePacket ==
  /\ LoopFree /\ inbox # << >> /\ Head(inbox) = "close"
  /\ Reset /\ sock' = "closed" /\ timer' = FALSE /\ Disconnected
  /\ UNCHANGED <<cstate, reconnecting, txns, conn, rejoin, threads, aborted, counters>>

\* joinRoomSync and leaveRoomSync: a web socket sends after its handshake only.
RunAction ==
  /\ LoopFree /\ ipc # << >>
  /\ LET a == Head(ipc) IN
     /\ rooms' = IF a.op = "join" THEN rooms \cup {a.room} ELSE rooms \ {a.room}
     /\ IF sock = "open" THEN outbox' = Append(outbox, a) /\ UNCHANGED aborted
                         ELSE aborted' = "send" /\ UNCHANGED outbox
  /\ ipc' = Tail(ipc)
  /\ UNCHANGED <<cstate, sock, timer, reconnecting, status, txns, conn, rejoin,
                 online, app, wanted, inbox, srv, srvRooms, counters>>

\* One more room of the loop in onClientStateChange(Online).
PushRejoin(r) ==
  /\ aborted = "no" /\ r \in rejoin
  /\ rejoin' = rejoin \ {r}
  /\ ipc' = Append(ipc, [op |-> "join", room |-> r])
  /\ UNCHANGED <<cstate, sock, timer, reconnecting, status, rooms, txns, conn,
                 online, app, wanted, server, aborted, counters>>

----------------------------------------------------------------------------
(* The application thread: WebrtcNode::joinRoomWS and leaveRoomWS wait     *)
(* until the client is online, note the room, and push the action.         *)

CallWhenever == TRUE                 \* slip: no waitForOnline
WaitedForOnline == online

Call(r) ==
  /\ aborted = "no" /\ app = Idle
  /\ ops < MaxOps /\ ops' = ops + 1
  /\ WaitedForOnline
  /\ IF r \in wanted
     THEN wanted' = wanted \ {r} /\ app' = [op |-> "leave", room |-> r]
     ELSE wanted' = wanted \cup {r} /\ app' = [op |-> "join", room |-> r]
  /\ UNCHANGED <<client, online, ipc, server, aborted, fails, kicks>>

PushAction ==
  /\ aborted = "no" /\ app # Idle
  /\ ipc' = Append(ipc, app)
  /\ app' = Idle
  /\ UNCHANGED <<client, online, wanted, server, aborted, counters>>

----------------------------------------------------------------------------
(* The signaler.                                                           *)

ServerReply(s, packets) ==
  /\ srv' = s
  /\ inbox' = inbox \o packets
  /\ UNCHANGED <<client, threads, aborted>>

\* Two seconds are over before an announcement was accepted: the server drops
\* the socket but not the connection, and an authorization goes on.
ServerTimeout ==
  /\ srv \in {"connected", "authorizing"}
  /\ Fail
  /\ ServerReply(IF srv = "connected" THEN "gone" ELSE "dropped", <<"disconnect">>)
  /\ UNCHANGED <<outbox, srvRooms, ops, kicks>>

ServerAuthorize ==
  /\ outbox # << >> /\ outbox' = Tail(outbox)
  /\ Head(outbox) = Announce /\ srv = "connected"
  /\ ServerReply("authorizing", << >>)
  /\ UNCHANGED <<srvRooms, counters>>

\* Accepting stops the timer; the answer waits for makeIceArray.
ServerAccept ==
  /\ srv = "authorizing"
  /\ ServerReply("accepted", << >>)
  /\ UNCHANGED <<outbox, srvRooms, counters>>

\* The answer is sent and the handlers of join and leave are registered; a
\* socket that was dropped meanwhile answers too, but hears nothing any more.
ServerAnswer ==
  /\ srv \in {"accepted", "dropped"}
  /\ ServerReply(IF srv = "accepted" THEN "ready" ELSE "gone", <<"ack200">>)
  /\ UNCHANGED <<outbox, srvRooms, counters>>

ServerDeny ==
  /\ srv \in {"authorizing", "dropped"}
  /\ Fail
  /\ ServerReply("gone", IF srv = "dropped" THEN <<"ack401">>
                         ELSE <<"ack401", "disconnect">>)
  /\ UNCHANGED <<outbox, srvRooms, ops, kicks>>

\* A packet no handler is registered for is ignored.
ServerTake ==
  /\ outbox # << >> /\ outbox' = Tail(outbox)
  /\ LET a == Head(outbox) IN
     /\ a = Announce => srv # "connected"
     /\ srvRooms' = IF srv # "ready" THEN srvRooms
                    ELSE IF a.op = "join" THEN srvRooms \cup {a.room}
                    ELSE srvRooms \ {a.room}
  /\ ServerReply(srv, << >>)
  /\ UNCHANGED counters

\* socket.disconnect(), or the Close frame, for an announced client.
ServerKick(p) ==
  /\ srv = "ready"
  /\ kicks < MaxKicks /\ kicks' = kicks + 1
  /\ ServerReply("gone", <<p>>)
  /\ srvRooms' = {}
  /\ UNCHANGED <<outbox, fails, ops>>

----------------------------------------------------------------------------
Loop ==
  \/ HandshakeDone \/ OnReconnectTimer
  \/ OnConnectPacket \/ OnAnnounced \/ OnDenied \/ OnDisconnectPacket
  \/ OnClosePacket \/ RunAction
  \/ \E r \in Room : PushRejoin(r)

Server == ServerAuthorize \/ ServerAccept \/ ServerAnswer \/ ServerTake

Environment ==
  \/ SocketError
  \/ \E c \in txns : AnnounceTimeout(c)
  \/ ServerTimeout \/ ServerDeny
  \/ \E p \in {"disconnect", "close"} : ServerKick(p)

Application == (\E r \in Room : Call(r)) \/ PushAction

Next == Loop \/ Server \/ Environment \/ Application

Spec == Init /\ [][Next]_vars

\* The loop thread runs callbacks that are due, packets arrive, the server
\* handles them, a timer that is running expires.  The queue of actions cannot
\* starve the packets: both are served by the same loop.
Fairness ==
  /\ WF_vars(HandshakeDone) /\ WF_vars(OnReconnectTimer)
  /\ WF_vars(OnConnectPacket) /\ WF_vars(OnAnnounced) /\ WF_vars(OnDenied)
  /\ WF_vars(OnDisconnectPacket) /\ WF_vars(OnClosePacket)
  /\ WF_vars(RunAction) /\ WF_vars(\E r \in Room : PushRejoin(r))
  /\ WF_vars(Server) /\ WF_vars(PushAction)
  /\ WF_vars(\E c \in txns : c = conn /\ srv = "gone" /\ AnnounceTimeout(c))

FairSpec == Spec /\ Fairness

----------------------------------------------------------------------------
TypeOK ==
  /\ cstate \in States
  /\ sock \in {"closed", "connecting", "open"}
  /\ timer \in BOOLEAN /\ reconnecting \in BOOLEAN /\ online \in BOOLEAN
  /\ status \in {0, 200, 401}
  /\ rooms \subseteq Room /\ rejoin \subseteq Room /\ wanted \subseteq Room
  /\ conn \in 1 .. MaxFail + 1
  /\ txns \subseteq 1 .. conn
  /\ ipc \in Seq(Actions)
  /\ app \in Actions \cup {Idle}
  /\ inbox \in Seq(Packets)
  /\ outbox \in Seq(Actions \cup {Announce})
  /\ srv \in {"none", "connected", "authorizing", "accepted", "ready",
              "dropped", "gone"}
  /\ srvRooms \subseteq Room
  /\ aborted \in {"no", "timer", "online", "send"}
  /\ fails \in 0 .. MaxFail /\ ops \in 0 .. MaxOps /\ kicks \in 0 .. MaxKicks

(* Online is a promise about this very connection: the server has accepted *)
(* an announcement made on it, and the waiters have been let go.  No answer*)
(* to an earlier connection, and no status left from it, can bring it      *)
(* about.  (The server, or the Close frame, may have ended it since.)      *)
OnlineIsAnnounced ==
  cstate = "Online" /\ sock = "open" =>
    status = 200 /\ online /\ srv \in {"ready", "gone"}

(* A client in the Error state will try again: its reconnect timer runs,   *)
(* unless the Close frame has closed everything down.                      *)
ErrorHasTimer ==
  cstate = "Error" /\ aborted = "no" => timer \/ (kicks > 0 /\ sock = "closed")

(* An assertion ends the process only after repeated failures: that of the *)
(* timer needs a second one, that of onOnline also a second connection on  *)
(* which the first one's announcement times out, and sending while offline *)
(* a first failure or a Close frame.                                       *)
AbortNeedsFailures ==
  /\ aborted = "timer" => fails > 1
  /\ aborted = "online" => fails > 1 /\ conn > 1
  /\ aborted = "send" => fails + kicks > 0

Settled == rejoin = {} /\ ipc = << >> /\ outbox = << >>

(* Once everything queued has been handled, the server has the client in   *)
(* exactly the rooms the Symple client believes it is in, those included   *)
(* that it joined before the server would listen.                          *)
RoomsFollow ==
  cstate = "Online" /\ srv = "ready" /\ Settled => srvRooms = rooms

(* On the first connection these are also the rooms the application is in. *)
(* A later connection does not have this: reset() forgets _rooms, and      *)
(* joinRoomWS returns early for a room the application is already in.      *)
FirstConnectionRooms ==
  conn = 1 /\ cstate = "Online" /\ srv = "ready" /\ Settled /\ app = Idle
    => rooms = wanted

(* A client whose connection failed comes online again, whatever failed in *)
(* between, unless an assertion ends the process or the server drops it.   *)
Recovers ==
  cstate = "Error" ~> cstate = "Online" \/ aborted # "no" \/ kicks > 0

(* Timer::setTimeout asserts that the timer it is called on is not active. *)
(* setError starts the reconnect timer without stopping it first.          *)
TimerAssertionHolds == aborted # "timer"

(* The comment on the Disconnect packet in socketio/client.cpp says that   *)
(* the client will "attempt to reconnect after ping timeout".  Here it is *)
(* online, and the server has told it that it dropped its socket.          *)
Dropped == cstate = "Online" /\ sock = "open" /\ srv = "gone"
DisconnectReconnects == Dropped ~> cstate # "Online" \/ aborted # "no"
============================================================================
