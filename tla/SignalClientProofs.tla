------------------------ MODULE SignalClientProofs -------------------------
(***************************************************************************)
(* Proofs about the signaling client: its types, what being online and the *)
(* Error state mean, and that client, server and application agree on the  *)
(* rooms, for any rooms and any number of failures, calls and kicks.       *)
(***************************************************************************)
EXTENDS SignalClient, TLAPS
----------------------------------------------------------------------------
(* The inductive invariant                                                 *)

In(s) == {s[i] : i \in DOMAIN s}

\* A failure was counted since the current connection was begun.
Spent == conn <= fails

\* So many connections need so many failures: the reconnect timer runs only
\* after one, and an announcement times out for free only after one.
SpentInv ==
  /\ conn <= fails + 1
  /\ timer => Spent
  /\ srv = "dropped" => Spent
  /\ srv \in {"ready", "gone"} /\ conn \in txns => Spent \/ "ack200" \in In(inbox)

\* The greeting of the server comes first, and nothing was announced before.
GreetInv ==
  "connect" \in In(inbox) =>
    /\ Head(inbox) = "connect" /\ "connect" \notin In(Tail(inbox))
    /\ status = 0 /\ Announce \notin In(outbox)
    /\ srv \in {"connected", "gone"} /\ (srv = "gone" => Spent)

Single(s) == \A i, j \in DOMAIN s : s[i] = Announce /\ s[j] = Announce => i = j

\* There is one announcement, which is under way until the server takes it.
AnnounceInv ==
  /\ Announce \in In(outbox) => srv \in {"connected", "gone"}
  /\ Single(outbox)

PacketsInv ==
  /\ "ack200" \in In(inbox) => srv \in {"ready", "gone"}
  /\ "ack401" \in In(inbox) => Spent
  /\ "close" \in In(inbox) => kicks > 0

\* Where there is no connection nothing is under way.
ClosedInv ==
  sock # "open" => /\ inbox = << >> /\ outbox = << >> /\ srv = "none"
                   /\ sock = "connecting" => status = 0

ConnInv == /\ SpentInv /\ GreetInv /\ AnnounceInv /\ PacketsInv /\ ClosedInv
           /\ OnlineIsAnnounced /\ ErrorHasTimer
ConnTypeInv == TypeOK /\ ConnInv

\* The announcement of the current connection has no answer yet.
Pending == "connect" \in In(inbox) \/ conn \in txns

\* Meanwhile only the time-out of an earlier one can have set the error.
PendingInv ==
  /\ sock = "connecting" \/ "connect" \in In(inbox) => conn \notin txns
  /\ sock = "connecting" /\ conn = 1 => ~timer
  /\ sock = "open" /\ Pending =>
       cstate = "Connected" \/ (cstate = "Error" /\ conn > 1)
  /\ sock = "open" /\ Pending /\ conn = 1 => ~timer

\* Before the first connection there is nothing to send.
OfflineInv ==
  fails = 0 /\ kicks = 0 /\ sock # "open" =>
    ipc = << >> /\ app = Idle /\ ~online /\ rejoin = {}

EndInv == PendingInv /\ OfflineInv /\ AbortNeedsFailures

\* The set of rooms R after the actions in s.
Join(r) == [op |-> "join", room |-> r]
Leave(r) == [op |-> "leave", room |-> r]
Result(s, R) ==
  {r \in Room : \/ \E i \in DOMAIN s : /\ s[i] = Join(r)
                                      /\ \A j \in DOMAIN s : s[j] = Leave(r) => j < i
                \/ r \in R /\ \A j \in DOMAIN s : s[j] # Leave(r)}

FollowInv ==
  /\ srv # "ready" => srvRooms = {}
  /\ Result(outbox, srvRooms) \subseteq rooms
  /\ cstate = "Online" /\ srv = "ready" =>
       \A r \in rooms : \/ r \in Result(outbox, srvRooms)
                        \/ r \in rejoin \/ Join(r) \in In(ipc)

\* The actions the application has decided on.
Decided == IF app = Idle THEN ipc ELSE Append(ipc, app)

FirstInv ==
  conn = 1 =>
    /\ rejoin = {}
    /\ sock = "connecting" => cstate = "Connecting" /\ txns = {}
    /\ cstate \in {"Connecting", "Connected"} =>
         rooms = {} /\ ipc = << >> /\ app = Idle /\ wanted = {} /\ ~online
    /\ sock = "open" => Result(Decided, rooms) = wanted

----------------------------------------------------------------------------
(* Sequences: what is in one, and what appending, concatenating and taking *)
(* the head off does to it.                                                *)

LEMMA InEmpty == In(<< >>) = {}
  BY DEF In

LEMMA InAppend ==
  ASSUME NEW S, NEW s \in Seq(S), NEW e \in S
  PROVE  Append(s, e) \in Seq(S) /\ In(Append(s, e)) = In(s) \cup {e}
<1>1. /\ Append(s, e) \in Seq(S) /\ DOMAIN Append(s, e) = 1 .. Len(s) + 1
      /\ \A i \in 1 .. Len(s) : Append(s, e)[i] = s[i]
      /\ Append(s, e)[Len(s) + 1] = e /\ DOMAIN s = 1 .. Len(s) /\ Len(s) \in Nat
  OBVIOUS
<1>2. \A i \in 1 .. Len(s) + 1 : i \in 1 .. Len(s) \/ i = Len(s) + 1
  BY <1>1
<1>3. /\ 1 .. Len(s) \subseteq 1 .. Len(s) + 1
      /\ Len(s) + 1 \in 1 .. Len(s) + 1
  BY <1>1
<1>4. In(Append(s, e)) \subseteq In(s) \cup {e}
  BY <1>1, <1>2 DEF In
<1>5. In(s) \cup {e} \subseteq In(Append(s, e))
  BY <1>1, <1>3 DEF In
<1>6. QED
  BY <1>1, <1>4, <1>5

LEMMA InTail ==
  ASSUME NEW S, NEW s \in Seq(S), s # << >>
  PROVE  /\ Head(s) \in S /\ Tail(s) \in Seq(S)
         /\ In(s) = {Head(s)} \cup In(Tail(s))
<1>1. /\ Head(s) \in S /\ Tail(s) \in Seq(S) /\ DOMAIN s = 1 .. Len(s)
      /\ DOMAIN Tail(s) = 1 .. Len(s) - 1 /\ Len(s) \in Nat /\ Len(s) > 0
      /\ \A i \in 1 .. Len(s) - 1 : Tail(s)[i] = s[i + 1]
      /\ Head(s) = s[1]
  OBVIOUS
<1>2. In(s) \subseteq {Head(s)} \cup In(Tail(s))
  <2> SUFFICES ASSUME NEW i \in 1 .. Len(s), i # 1
               PROVE  s[i] \in In(Tail(s))
    BY <1>1 DEF In
  <2>1. i - 1 \in 1 .. Len(s) - 1 /\ s[i] = Tail(s)[i - 1]
    BY <1>1
  <2>2. QED
    BY <1>1, <2>1 DEF In
<1>3. {Head(s)} \cup In(Tail(s)) \subseteq In(s)
  <2>1. \A i \in 1 .. Len(s) - 1 : i + 1 \in 1 .. Len(s)
    BY <1>1
  <2>2. 1 \in 1 .. Len(s)
    BY <1>1
  <2>3. QED
    BY <1>1, <2>1, <2>2 DEF In
<1>4. QED
  BY <1>1, <1>2, <1>3

LEMMA InCat ==
  ASSUME NEW S, NEW s \in Seq(S), NEW t \in Seq(S)
  PROVE  /\ s \o t \in Seq(S) /\ In(s \o t) = In(s) \cup In(t)
         /\ s # << >> => Head(s \o t) = Head(s) /\ Tail(s \o t) = Tail(s) \o t
<1>1. /\ s \o t \in Seq(S) /\ DOMAIN (s \o t) = 1 .. Len(s) + Len(t)
      /\ DOMAIN s = 1 .. Len(s) /\ DOMAIN t = 1 .. Len(t)
      /\ Len(s) \in Nat /\ Len(t) \in Nat
      /\ \A i \in 1 .. Len(s) : (s \o t)[i] = s[i]
      /\ \A i \in 1 .. Len(t) : (s \o t)[i + Len(s)] = t[i]
  OBVIOUS
<1>2. In(s \o t) \subseteq In(s) \cup In(t)
  <2> SUFFICES ASSUME NEW i \in 1 .. Len(s) + Len(t)
               PROVE  (s \o t)[i] \in In(s) \cup In(t)
    BY <1>1 DEF In
  <2>1. CASE i \in 1 .. Len(s)
    BY <1>1, <2>1 DEF In
  <2>2. CASE i \notin 1 .. Len(s)
    <3>1. i - Len(s) \in 1 .. Len(t) /\ i = (i - Len(s)) + Len(s)
      BY <1>1, <2>2
    <3>2. (s \o t)[i] = t[i - Len(s)]
      BY <1>1, <3>1
    <3>3. QED
      BY <1>1, <3>1, <3>2 DEF In
  <2>3. QED
    BY <2>1, <2>2
<1>3. In(s) \cup In(t) \subseteq In(s \o t)
  <2>1. /\ \A i \in 1 .. Len(s) : i \in 1 .. Len(s) + Len(t)
        /\ \A i \in 1 .. Len(t) : i + Len(s) \in 1 .. Len(s) + Len(t)
    BY <1>1
  <2>2. QED
    BY <1>1, <2>1 DEF In
<1>4. s # << >> => Head(s \o t) = Head(s) /\ Tail(s \o t) = Tail(s) \o t
  <2> SUFFICES ASSUME s # << >>
               PROVE  Head(s \o t) = Head(s) /\ Tail(s \o t) = Tail(s) \o t
    OBVIOUS
  <2>1. Head(s \o t) = Head(s)
    BY <1>1
  <2>2. /\ Tail(s \o t) \in Seq(S) /\ Tail(s) \o t \in Seq(S)
        /\ Len(Tail(s \o t)) = Len(s) + Len(t) - 1
        /\ Len(Tail(s) \o t) = Len(s) + Len(t) - 1
        /\ Len(s) > 0
    BY <1>1
  <2>3. \A i \in 1 .. Len(s) + Len(t) - 1 : Tail(s \o t)[i] = (Tail(s) \o t)[i]
    <3> SUFFICES ASSUME NEW i \in 1 .. Len(s) + Len(t) - 1
                 PROVE  Tail(s \o t)[i] = (Tail(s) \o t)[i]
      OBVIOUS
    <3>1. Tail(s \o t)[i] = (s \o t)[i + 1]
      BY <1>1, <2>2
    <3>2. CASE i \in 1 .. Len(s) - 1
      BY <1>1, <2>2, <3>1, <3>2
    <3>3. CASE i \notin 1 .. Len(s) - 1
      BY <1>1, <2>2, <3>1, <3>3
    <3>4. QED
      BY <3>2, <3>3
  <2>4. QED
    BY <2>1, <2>2, <2>3
<1>5. QED
  BY <1>1, <1>2, <1>3, <1>4

----------------------------------------------------------------------------
(* Types                                                                   *)

LEMMA TypeInit == Init => TypeOK /\ ConnInv
<1> SUFFICES ASSUME Init PROVE TypeOK /\ ConnInv
  OBVIOUS
<1>1. inbox = << >> /\ outbox = << >> /\ ipc = << >>
  BY DEF Init
<1>2. TypeOK
  <2>1. inbox \in Seq(Packets) /\ outbox \in Seq(Actions \cup {Announce}) /\ ipc \in Seq(Actions)
    BY <1>1
  <2>2. timer \in BOOLEAN /\ reconnecting \in BOOLEAN /\ online \in BOOLEAN
    BY Zenon DEF Init
  <2>3. /\ 1 \in 1 .. MaxFail + 1 /\ 0 \in 0 .. MaxFail /\ 0 \in 0 .. MaxOps
        /\ 0 \in 0 .. MaxKicks
    BY BoundsAssumption
  <2>4. QED
    BY <2>1, <2>2, <2>3 DEF Init, TypeOK, States
<1>3. ConnInv
  <2>1. /\ In(inbox) = {} /\ In(outbox) = {} /\ Single(outbox) /\ srv = "none"
        /\ conn = 1 /\ fails = 0 /\ timer = FALSE /\ status = 0 /\ cstate = "Connecting"
    BY <1>1, InEmpty DEF Init, Single
  <2>2. QED
    BY <1>1, <2>1 DEF ConnInv, SpentInv, Spent, GreetInv, AnnounceInv, PacketsInv,
       ClosedInv, OnlineIsAnnounced, ErrorHasTimer
<1>4. QED
  BY <1>2, <1>3

LEMMA FailType ==
  ASSUME TypeOK, Fail
  PROVE  fails' = fails + 1 /\ fails' \in 0 .. MaxFail
  BY BoundsAssumption DEF TypeOK, Fail

LEMMA SetErrorType ==
  ASSUME TypeOK, SetError
  PROVE  /\ cstate' = "Error" /\ online' = FALSE
         /\ timer' \in BOOLEAN /\ reconnecting' \in BOOLEAN /\ online' \in BOOLEAN
         /\ aborted' \in {"no", "timer", "online", "send"}
         /\ \/ aborted' = "timer" /\ timer /\ timer'
            \/ aborted' = aborted /\ ~timer /\ timer'
<1>1. timer \in BOOLEAN /\ reconnecting \in BOOLEAN
  BY DEF TypeOK
<1>2. CASE timer
  <2>1. cstate' = "Error" /\ online' = FALSE /\ aborted' = "timer"
        /\ UNCHANGED <<timer, reconnecting>>
    BY <1>2 DEF SetError
  <2>2. QED
    BY <1>1, <1>2, <2>1
<1>3. CASE ~timer
  <2>1. cstate' = "Error" /\ online' = FALSE /\ aborted' = aborted
        /\ timer' = TRUE /\ reconnecting' = TRUE
    BY <1>3 DEF SetError
  <2>2. aborted \in {"no", "timer", "online", "send"}
    BY DEF TypeOK
  <2>3. QED
    BY <1>3, <2>1, <2>2
<1>4. QED
  BY <1>2, <1>3

LEMMA ReceiveType ==
  ASSUME TypeOK, NEW p \in Packets, Receive(p)
  PROVE  /\ LoopFree /\ inbox # << >> /\ Head(inbox) = p
         /\ inbox' = Tail(inbox) /\ inbox' \in Seq(Packets)
         /\ In(inbox) = {p} \cup In(inbox')
<1>1. inbox \in Seq(Packets)
  BY DEF TypeOK
<1>2. QED
  BY <1>1, InTail DEF Receive

LEMMA GoOnlineType ==
  ASSUME TypeOK, GoOnline
  PROVE  /\ \/ cstate = "Connected" /\ cstate' = "Online" /\ online' = TRUE
               /\ rejoin' = rooms /\ aborted' = aborted
            \/ cstate # "Connected" /\ cstate' = cstate /\ online' = online
               /\ rejoin' = rejoin /\ aborted' = "online"
         /\ cstate' \in States /\ online' \in BOOLEAN /\ rejoin' \subseteq Room
         /\ aborted' \in {"no", "timer", "online", "send"}
  BY DEF TypeOK, GoOnline, States

LEMMA ServerReplyType ==
  ASSUME TypeOK, NEW s, NEW packets \in Seq(Packets), ServerReply(s, packets)
  PROVE  /\ srv' = s /\ inbox' = inbox \o packets /\ inbox' \in Seq(Packets)
         /\ In(inbox') = In(inbox) \cup In(packets)
         /\ inbox # << >> => /\ Head(inbox') = Head(inbox)
                             /\ Tail(inbox') = Tail(inbox) \o packets
         /\ UNCHANGED <<cstate, sock, timer, reconnecting, status, rooms, txns, conn,
                        rejoin, online, ipc, app, wanted, aborted>>
<1>1. inbox \in Seq(Packets)
  BY DEF TypeOK
<1>2. QED
  BY <1>1, InCat DEF ServerReply, client, threads

LEMMA ServerTypeOK ==
  ASSUME TypeOK,
         NEW s \in {"none", "connected", "authorizing", "accepted", "ready", "dropped", "gone"},
         NEW packets \in Seq(Packets), ServerReply(s, packets),
         outbox' \in Seq(Actions \cup {Announce}), srvRooms' \subseteq Room,
         fails' \in 0 .. MaxFail, ops' \in 0 .. MaxOps, kicks' \in 0 .. MaxKicks
  PROVE  TypeOK'
<1>1. /\ srv' = s /\ inbox' \in Seq(Packets)
      /\ UNCHANGED <<cstate, sock, timer, reconnecting, status, rooms, txns, conn,
                     rejoin, online, ipc, app, wanted, aborted>>
  BY ServerReplyType
<1>2. QED
  BY <1>1 DEF TypeOK

LEMMA PacketsType ==
  /\ << >> \in Seq(Packets)
  /\ <<"ack200">> \in Seq(Packets) /\ In(<<"ack200">>) = {"ack200"}
  /\ <<"disconnect">> \in Seq(Packets) /\ In(<<"disconnect">>) = {"disconnect"}
  /\ <<"close">> \in Seq(Packets) /\ In(<<"close">>) = {"close"}
  /\ <<"ack401">> \in Seq(Packets) /\ In(<<"ack401">>) = {"ack401"}
  /\ <<"connect">> \in Seq(Packets) /\ In(<<"connect">>) = {"connect"}
  /\ <<"ack401", "disconnect">> \in Seq(Packets)
  /\ In(<<"ack401", "disconnect">>) = {"ack401", "disconnect"}
  BY DEF Packets, In

LEMMA AnnounceIsNoAction == Announce \notin Actions
  BY DEF Announce, Actions

LEMMA TypeLoop ==
  ASSUME TypeOK, SpentInv, Loop
  PROVE  TypeOK'
<1> USE BoundsAssumption
<1>1. CASE HandshakeDone
  <2>1. inbox' \in Seq(Packets)
    BY <1>1, PacketsType DEF HandshakeDone
  <2>2. timer' \in BOOLEAN /\ reconnecting' \in BOOLEAN
    BY <1>1 DEF HandshakeDone, TypeOK
  <2>3. QED
    BY <1>1, <2>1, <2>2 DEF HandshakeDone, threads, counters, TypeOK, States
<1>2. CASE OnReconnectTimer
  <2>1. conn + 1 \in 1 .. MaxFail + 1 /\ txns \subseteq 1 .. conn + 1
    BY <1>2 DEF OnReconnectTimer, SpentInv, Spent, TypeOK
  <2>2. timer' \in BOOLEAN
    BY <1>2 DEF OnReconnectTimer
  <2>3. QED
    BY <1>2, <2>1, <2>2 DEF OnReconnectTimer, Reset, Disconnected, threads, counters, TypeOK, States
<1>3. CASE OnConnectPacket
  <2>1. inbox' \in Seq(Packets)
    BY <1>3, ReceiveType DEF OnConnectPacket, Packets
  <2>2. /\ outbox' \in Seq(Actions \cup {Announce}) /\ txns' \subseteq 1 .. conn
        /\ cstate' \in States /\ online' \in BOOLEAN /\ rejoin' \subseteq Room
        /\ aborted' \in {"no", "timer", "online", "send"}
    <3>1. CASE status = 0
      <4>1. outbox \in Seq(Actions \cup {Announce})
        BY DEF TypeOK
      <4>2. outbox' \in Seq(Actions \cup {Announce})
        BY <1>3, <3>1, <4>1, InAppend DEF OnConnectPacket
      <4>3. /\ UNCHANGED <<cstate, online, rejoin, aborted>>
            /\ txns' = txns \cup {conn}
        BY <1>3, <3>1 DEF OnConnectPacket
      <4>4. QED
        BY <4>2, <4>3 DEF TypeOK
    <3>2. CASE status # 0
      BY <1>3, <3>2, GoOnlineType DEF OnConnectPacket, TypeOK
    <3>3. QED
      BY <3>1, <3>2
  <2>3. QED
    BY <1>3, <2>1, <2>2 DEF OnConnectPacket, counters, TypeOK
<1>4. CASE OnAnnounced
  <2>1. inbox' \in Seq(Packets)
    BY <1>4, ReceiveType DEF OnAnnounced, Packets
  <2>2. /\ cstate' \in States /\ online' \in BOOLEAN /\ rejoin' \subseteq Room
        /\ aborted' \in {"no", "timer", "online", "send"} /\ status' \in {0, 200, 401}
    <3>1. CASE conn \in txns
      BY <1>4, <3>1, GoOnlineType DEF OnAnnounced
    <3>2. CASE conn \notin txns
      BY <1>4, <3>2 DEF OnAnnounced, TypeOK
    <3>3. QED
      BY <3>1, <3>2
  <2>3. QED
    BY <1>4, <2>1, <2>2 DEF OnAnnounced, counters, TypeOK
<1>5. CASE OnDenied
  <2>1. inbox' \in Seq(Packets)
    BY <1>5, ReceiveType DEF OnDenied, Packets
  <2>2. /\ cstate' \in States /\ online' \in BOOLEAN /\ status' \in {0, 200, 401}
        /\ timer' \in BOOLEAN /\ reconnecting' \in BOOLEAN
        /\ aborted' \in {"no", "timer", "online", "send"}
    <3>1. CASE conn \in txns
      BY <1>5, <3>1, SetErrorType DEF OnDenied, TypeOK, States
    <3>2. CASE conn \notin txns
      BY <1>5, <3>2 DEF OnDenied, TypeOK
    <3>3. QED
      BY <3>1, <3>2
  <2>3. QED
    BY <1>5, <2>1, <2>2 DEF OnDenied, counters, TypeOK
<1>6. CASE OnDisconnectPacket
  <2>1. inbox' \in Seq(Packets)
    BY <1>6, ReceiveType DEF OnDisconnectPacket, Packets
  <2>2. QED
    BY <1>6, <2>1 DEF OnDisconnectPacket, client, threads, counters, TypeOK
<1>7. CASE OnClosePacket
  <2>1. timer' \in BOOLEAN
    BY <1>7 DEF OnClosePacket
  <2>2. QED
    BY <1>7, <2>1 DEF OnClosePacket, Reset, Disconnected, threads, counters, TypeOK
<1>8. CASE RunAction
  <2>1. ipc \in Seq(Actions) /\ outbox \in Seq(Actions \cup {Announce})
    BY DEF TypeOK
  <2>2. Head(ipc) \in Actions /\ ipc' \in Seq(Actions)
    BY <1>8, <2>1, InTail DEF RunAction
  <2>3. rooms' \subseteq Room
    BY <1>8, <2>2 DEF RunAction, TypeOK, Actions
  <2>4. outbox' \in Seq(Actions \cup {Announce})
        /\ aborted' \in {"no", "timer", "online", "send"}
    <3>1. Append(outbox, Head(ipc)) \in Seq(Actions \cup {Announce})
      BY <2>1, <2>2, InAppend
    <3>2. \/ outbox' = Append(outbox, Head(ipc)) /\ aborted' = aborted
          \/ outbox' = outbox /\ aborted' = "send"
      BY <1>8 DEF RunAction
    <3>3. QED
      BY <2>1, <3>1, <3>2 DEF TypeOK
  <2>5. QED
    BY <1>8, <2>2, <2>3, <2>4 DEF RunAction, counters, TypeOK
<1>9. ASSUME NEW r \in Room, PushRejoin(r)
      PROVE  TypeOK'
  <2>1. ipc \in Seq(Actions) /\ [op |-> "join", room |-> r] \in Actions
    BY DEF TypeOK, Actions
  <2>2. ipc' \in Seq(Actions)
    BY <1>9, <2>1, InAppend DEF PushRejoin
  <2>3. QED
    BY <1>9, <2>2 DEF PushRejoin, server, counters, TypeOK
<1>10. QED
  BY <1>1, <1>2, <1>3, <1>4, <1>5, <1>6, <1>7, <1>8, <1>9 DEF Loop

LEMMA TypeServer ==
  ASSUME TypeOK, Server
  PROVE  TypeOK'
<1>1. CASE ServerAuthorize \/ ServerTake
  <2>1. outbox \in Seq(Actions \cup {Announce}) /\ outbox # << >> /\ outbox' = Tail(outbox)
    BY <1>1 DEF ServerAuthorize, ServerTake, TypeOK
  <2>2. outbox' \in Seq(Actions \cup {Announce}) /\ Head(outbox) \in Actions \cup {Announce}
    BY <2>1, InTail
  <2>3. PICK s \in {"none", "connected", "authorizing", "accepted", "ready", "dropped", "gone"} :
          ServerReply(s, << >>)
    BY <1>1 DEF ServerAuthorize, ServerTake, TypeOK
  <2>4. srvRooms' \subseteq Room
    <3>1. CASE ServerAuthorize
      BY <3>1 DEF ServerAuthorize, TypeOK
    <3>2. CASE ServerTake
      BY <3>2, <2>2 DEF ServerTake, TypeOK, Actions, Announce
    <3>3. QED
      BY <1>1, <3>1, <3>2
  <2>5. fails' \in 0 .. MaxFail /\ ops' \in 0 .. MaxOps /\ kicks' \in 0 .. MaxKicks
    BY <1>1 DEF ServerAuthorize, ServerTake, counters, TypeOK
  <2>6. << >> \in Seq(Packets)
    BY PacketsType
  <2>7. QED
    BY <2>2, <2>3, <2>4, <2>5, <2>6, ServerTypeOK
<1>2. CASE ServerAccept \/ ServerAnswer
  <2>1. PICK s \in {"accepted", "ready", "gone"}, packets \in Seq(Packets) :
          ServerReply(s, packets)
    BY <1>2, PacketsType DEF ServerAccept, ServerAnswer
  <2>2. /\ outbox' \in Seq(Actions \cup {Announce}) /\ srvRooms' \subseteq Room
        /\ fails' \in 0 .. MaxFail /\ ops' \in 0 .. MaxOps /\ kicks' \in 0 .. MaxKicks
    BY <1>2 DEF ServerAccept, ServerAnswer, counters, TypeOK
  <2>3. QED
    BY <2>1, <2>2, ServerTypeOK
<1>3. QED
  BY <1>1, <1>2 DEF Server

LEMMA TypeEnvironment ==
  ASSUME TypeOK, Environment
  PROVE  TypeOK'
<1>1. CASE SocketError
  <2>1. /\ cstate' \in States /\ timer' \in BOOLEAN /\ reconnecting' \in BOOLEAN
        /\ online' \in BOOLEAN /\ aborted' \in {"no", "timer", "online", "send"}
    BY <1>1, SetErrorType DEF SocketError, States
  <2>2. fails' \in 0 .. MaxFail
    BY <1>1, FailType DEF SocketError
  <2>3. /\ inbox' \in Seq(Packets) /\ outbox' \in Seq(Actions \cup {Announce})
        /\ srv' = "none" /\ srvRooms' = {} /\ sock' = "closed"
    BY <1>1 DEF SocketError, Disconnected
  <2>4. UNCHANGED <<status, rooms, txns, conn, rejoin, ipc, app, wanted, ops, kicks>>
    BY <1>1 DEF SocketError
  <2>5. QED
    BY <2>1, <2>2, <2>3, <2>4 DEF TypeOK
<1>2. ASSUME NEW c \in txns, AnnounceTimeout(c)
      PROVE  TypeOK'
  <2>1. fails' \in 0 .. MaxFail
    BY <1>2, FailType DEF AnnounceTimeout, TypeOK
  <2>2. QED
    <3>1. /\ cstate' \in States /\ timer' \in BOOLEAN /\ reconnecting' \in BOOLEAN
          /\ online' \in BOOLEAN /\ aborted' \in {"no", "timer", "online", "send"}
      BY <1>2, SetErrorType DEF AnnounceTimeout, States
    <3>2. txns' \subseteq txns
          /\ UNCHANGED <<sock, status, rooms, conn, rejoin, ipc, app, wanted, inbox,
                         outbox, srv, srvRooms, ops, kicks>>
      BY <1>2 DEF AnnounceTimeout, server
    <3>3. QED
      BY <2>1, <3>1, <3>2 DEF TypeOK
<1>3. CASE ServerTimeout \/ ServerDeny
  <2>1. PICK s \in {"dropped", "gone"}, packets \in Seq(Packets) : ServerReply(s, packets)
    BY <1>3, PacketsType DEF ServerTimeout, ServerDeny
  <2>2. fails' \in 0 .. MaxFail
    BY <1>3, FailType DEF ServerTimeout, ServerDeny
  <2>3. /\ outbox' \in Seq(Actions \cup {Announce}) /\ srvRooms' \subseteq Room
        /\ ops' \in 0 .. MaxOps /\ kicks' \in 0 .. MaxKicks
    BY <1>3 DEF ServerTimeout, ServerDeny, TypeOK
  <2>4. QED
    BY <2>1, <2>2, <2>3, ServerTypeOK
<1>4. ASSUME NEW p \in {"disconnect", "close"}, ServerKick(p)
      PROVE  TypeOK'
  <2>1. ServerReply("gone", <<p>>) /\ <<p>> \in Seq(Packets)
    BY <1>4, PacketsType DEF ServerKick
  <2>2. kicks' \in 0 .. MaxKicks
    BY <1>4, BoundsAssumption DEF ServerKick, TypeOK
  <2>3. /\ outbox' \in Seq(Actions \cup {Announce}) /\ srvRooms' \subseteq Room
        /\ fails' \in 0 .. MaxFail /\ ops' \in 0 .. MaxOps
    BY <1>4 DEF ServerKick, TypeOK
  <2>4. QED
    BY <2>1, <2>2, <2>3, ServerTypeOK
<1>5. QED
  BY <1>1, <1>2, <1>3, <1>4 DEF Environment

LEMMA TypeApplication ==
  ASSUME TypeOK, Application
  PROVE  TypeOK'
<1>1. ASSUME NEW r \in Room, Call(r)
      PROVE  TypeOK'
  <2>1. ops' \in 0 .. MaxOps
    BY <1>1, BoundsAssumption DEF Call, TypeOK
  <2>2. wanted' \subseteq Room /\ app' \in Actions
    BY <1>1 DEF Call, TypeOK, Actions
  <2>3. QED
    BY <1>1, <2>1, <2>2 DEF Call, client, server, TypeOK
<1>2. CASE PushAction
  <2>1. ipc \in Seq(Actions) /\ app \in Actions
    BY <1>2 DEF PushAction, TypeOK
  <2>2. ipc' \in Seq(Actions)
    BY <1>2, <2>1, InAppend DEF PushAction
  <2>3. QED
    BY <1>2, <2>2 DEF PushAction, client, server, counters, TypeOK
<1>3. QED
  BY <1>1, <1>2 DEF Application

LEMMA TypeStep == TypeOK /\ SpentInv /\ [Next]_vars => TypeOK'
<1> SUFFICES ASSUME TypeOK, SpentInv, [Next]_vars PROVE TypeOK'
  OBVIOUS
<1>1. CASE UNCHANGED vars
  BY <1>1 DEF vars, client, threads, server, counters, TypeOK
<1>2. QED
  BY <1>1, TypeLoop, TypeServer, TypeEnvironment, TypeApplication DEF Next

----------------------------------------------------------------------------
(* The connection                                                          *)

LEMMA SingleEmpty == Single(<< >>)
  BY DEF Single

LEMMA SingleAppend ==
  ASSUME NEW s \in Seq(Actions \cup {Announce}), NEW e \in Actions \cup {Announce},
         Single(s), e # Announce \/ Announce \notin In(s)
  PROVE  Single(Append(s, e))
<1>1. /\ DOMAIN Append(s, e) = 1 .. Len(s) + 1 /\ DOMAIN s = 1 .. Len(s)
      /\ \A i \in 1 .. Len(s) : Append(s, e)[i] = s[i]
      /\ Append(s, e)[Len(s) + 1] = e /\ Len(s) \in Nat
  OBVIOUS
<1>2. \A i \in 1 .. Len(s) + 1 : i \in 1 .. Len(s) \/ i = Len(s) + 1
  BY <1>1
<1>3. QED
  BY <1>1, <1>2 DEF Single, In

LEMMA SingleTail ==
  ASSUME NEW s \in Seq(Actions \cup {Announce}), s # << >>, Single(s)
  PROVE  /\ Single(Tail(s))
         /\ Head(s) = Announce => Announce \notin In(Tail(s))
<1>1. /\ DOMAIN s = 1 .. Len(s) /\ DOMAIN Tail(s) = 1 .. Len(s) - 1
      /\ Len(s) \in Nat /\ Len(s) > 0 /\ Head(s) = s[1]
      /\ \A i \in 1 .. Len(s) - 1 : Tail(s)[i] = s[i + 1]
  OBVIOUS
<1>2. /\ \A i \in 1 .. Len(s) - 1 : i + 1 \in 1 .. Len(s) /\ i + 1 # 1
      /\ 1 \in 1 .. Len(s)
  BY <1>1
<1>3. Single(Tail(s))
  <2> SUFFICES ASSUME NEW i \in 1 .. Len(s) - 1, NEW j \in 1 .. Len(s) - 1,
                      Tail(s)[i] = Announce, Tail(s)[j] = Announce
               PROVE  i = j
    BY <1>1 DEF Single
  <2>1. i + 1 = j + 1
    BY <1>1, <1>2 DEF Single
  <2>2. QED
    BY <1>1, <2>1
<1>4. Head(s) = Announce => Announce \notin In(Tail(s))
  BY <1>1, <1>2 DEF Single, In
<1>5. QED
  BY <1>3, <1>4

(* Failures only grow in number.                                           *)
LEMMA Counts ==
  ASSUME NEW c \in Nat, NEW f \in Nat, NEW g \in Nat, f <= g
  PROVE  /\ c <= f + 1 => c <= g + 1
         /\ c <= f => c <= g /\ c <= f + 1
         /\ f > 0 => g > 0
  OBVIOUS

LEMMA ConnHandshake ==
  ASSUME TypeOK, ConnInv, HandshakeDone
  PROVE  ConnInv'
<1>1. outbox = << >> /\ status = 0 /\ conn <= fails + 1 /\ (timer => conn <= fails)
  BY DEF HandshakeDone, ConnInv, ClosedInv, SpentInv, Spent
<1>2. /\ inbox' = <<"connect">> /\ srv' = "connected" /\ sock' = "open"
      /\ cstate' = "Connected" /\ (timer' => timer)
      /\ UNCHANGED <<outbox, status, conn, fails, kicks, txns>>
  BY DEF HandshakeDone, threads, counters
<1>3. Head(inbox') = "connect" /\ Tail(inbox') = << >> /\ In(inbox') = {"connect"}
  BY <1>2, PacketsType
<1>4. "connect" \notin In(Tail(inbox')) /\ Announce \notin In(outbox')
  BY <1>1, <1>2, <1>3, InEmpty
<1>5. QED
  BY <1>1, <1>2, <1>3, <1>4, SingleEmpty
  DEF ConnInv, SpentInv, Spent, GreetInv, AnnounceInv, PacketsInv, ClosedInv,
      OnlineIsAnnounced, ErrorHasTimer

(* The connection goes: by an error, the timer or the Close frame.         *)
LEMMA ConnDown ==
  ASSUME TypeOK, Disconnected, sock' # "open", sock' = "connecting" => status' = 0,
         conn' <= fails' + 1, timer' => conn' <= fails', ErrorHasTimer'
  PROVE  ConnInv'
<1>1. inbox' = << >> /\ outbox' = << >> /\ srv' = "none"
  BY DEF Disconnected
<1>2. In(inbox') = {} /\ In(outbox') = {} /\ Single(outbox')
  BY <1>1, InEmpty, SingleEmpty
<1>3. QED
  BY <1>1, <1>2
  DEF ConnInv, SpentInv, Spent, GreetInv, AnnounceInv, PacketsInv, ClosedInv,
      OnlineIsAnnounced

LEMMA ConnConnectPacket ==
  ASSUME TypeOK, ConnInv, OnConnectPacket
  PROVE  ConnInv'
<1>1. /\ inbox # << >> /\ inbox' = Tail(inbox) /\ In(inbox) = {"connect"} \cup In(inbox')
  BY ReceiveType DEF OnConnectPacket, Packets
<1>2. /\ status = 0 /\ "connect" \notin In(inbox') /\ Announce \notin In(outbox)
      /\ srv \in {"connected", "gone"} /\ (srv = "gone" => conn <= fails)
  BY <1>1 DEF ConnInv, GreetInv, Spent
<1>3. /\ outbox' = Append(outbox, Announce) /\ txns' = txns \cup {conn}
      /\ UNCHANGED <<cstate, online, sock, timer, status, conn, srv, fails, kicks, aborted>>
  BY <1>2 DEF OnConnectPacket, counters
<1>4. outbox \in Seq(Actions \cup {Announce}) /\ Single(outbox)
  BY DEF TypeOK, ConnInv, AnnounceInv
<1>5. Single(outbox')
  BY <1>2, <1>3, <1>4, SingleAppend
<1>6. sock = "open"
  BY <1>1 DEF ConnInv, ClosedInv
<1>7. QED
  BY <1>1, <1>2, <1>3, <1>5, <1>6
  DEF ConnInv, SpentInv, Spent, GreetInv, AnnounceInv, PacketsInv, ClosedInv,
      OnlineIsAnnounced, ErrorHasTimer

LEMMA ConnAnnounced ==
  ASSUME TypeOK, ConnInv, OnAnnounced
  PROVE  ConnInv'
<1>1. /\ inbox # << >> /\ inbox' = Tail(inbox) /\ In(inbox) = {"ack200"} \cup In(inbox')
      /\ Head(inbox) = "ack200"
  BY ReceiveType DEF OnAnnounced, Packets
<1>2. /\ sock = "open" /\ "connect" \notin In(inbox) /\ srv \in {"ready", "gone"}
  BY <1>1 DEF ConnInv, ClosedInv, GreetInv, PacketsInv
<1>3. /\ txns' = txns \ {conn}
      /\ UNCHANGED <<sock, timer, conn, outbox, srv, fails, kicks>>
  BY DEF OnAnnounced, counters
<1>4. OnlineIsAnnounced' /\ ErrorHasTimer'
  <2>1. CASE conn \in txns
    <3>1. status' = 200 /\ GoOnline
      BY <2>1 DEF OnAnnounced
    <3>2. CASE cstate = "Connected"
      BY <1>2, <1>3, <3>1, <3>2 DEF GoOnline, OnlineIsAnnounced, ErrorHasTimer
    <3>3. CASE cstate # "Connected"
      BY <1>2, <1>3, <3>1, <3>3 DEF GoOnline, OnlineIsAnnounced, ErrorHasTimer, ConnInv
    <3>4. QED
      BY <3>2, <3>3
  <2>2. CASE conn \notin txns
    <3>1. UNCHANGED <<status, cstate, online, aborted>>
      BY <2>2 DEF OnAnnounced
    <3>2. QED
      BY <1>3, <3>1 DEF OnlineIsAnnounced, ErrorHasTimer, ConnInv
  <2>3. QED
    BY <2>1, <2>2
<1>5. QED
  BY <1>1, <1>2, <1>3, <1>4
  DEF ConnInv, SpentInv, Spent, GreetInv, AnnounceInv, PacketsInv, ClosedInv

LEMMA ConnDenied ==
  ASSUME TypeOK, ConnInv, OnDenied
  PROVE  ConnInv'
<1>1. /\ inbox # << >> /\ inbox' = Tail(inbox) /\ In(inbox) = {"ack401"} \cup In(inbox')
      /\ Head(inbox) = "ack401"
  BY ReceiveType DEF OnDenied, Packets
<1>2. sock = "open" /\ "connect" \notin In(inbox) /\ conn <= fails
  BY <1>1 DEF ConnInv, ClosedInv, GreetInv, PacketsInv, Spent
<1>3. txns' = txns \ {conn} /\ UNCHANGED <<sock, conn, outbox, srv, fails, kicks>>
  BY DEF OnDenied, counters
<1>4. OnlineIsAnnounced' /\ ErrorHasTimer'
  <2>1. CASE conn \in txns
    BY <2>1, SetErrorType DEF OnDenied, OnlineIsAnnounced, ErrorHasTimer
  <2>2. CASE conn \notin txns
    <3>1. UNCHANGED <<status, cstate, online, timer, aborted>>
      BY <2>2 DEF OnDenied
    <3>2. QED
      BY <1>3, <3>1 DEF OnlineIsAnnounced, ErrorHasTimer, ConnInv
  <2>3. QED
    BY <2>1, <2>2
<1>5. QED
  BY <1>1, <1>2, <1>3, <1>4
  DEF ConnInv, SpentInv, Spent, GreetInv, AnnounceInv, PacketsInv, ClosedInv

LEMMA ConnDisconnectPacket ==
  ASSUME TypeOK, ConnInv, OnDisconnectPacket
  PROVE  ConnInv'
<1>1. /\ inbox # << >> /\ inbox' = Tail(inbox) /\ In(inbox) = {"disconnect"} \cup In(inbox')
      /\ Head(inbox) = "disconnect"
  BY ReceiveType DEF OnDisconnectPacket, Packets
<1>2. sock = "open" /\ "connect" \notin In(inbox)
  BY <1>1 DEF ConnInv, ClosedInv, GreetInv
<1>3. UNCHANGED <<cstate, sock, timer, status, txns, conn, online, outbox, srv, aborted,
                  fails, kicks>>
  BY DEF OnDisconnectPacket, client, threads, counters
<1>4. QED
  BY <1>1, <1>2, <1>3
  DEF ConnInv, SpentInv, Spent, GreetInv, AnnounceInv, PacketsInv, ClosedInv,
      OnlineIsAnnounced, ErrorHasTimer

LEMMA ConnGoes ==
  ASSUME TypeOK, ConnInv, OnReconnectTimer \/ OnClosePacket \/ SocketError
  PROVE  ConnInv'
<1>1. conn <= fails + 1 /\ (timer => conn <= fails) /\ fails \in Nat /\ conn \in Nat
  BY DEF ConnInv, SpentInv, Spent, TypeOK
<1>2. CASE OnReconnectTimer
  BY <1>1, <1>2, ConnDown DEF OnReconnectTimer, Reset, counters, ErrorHasTimer
<1>3. CASE OnClosePacket
  <2>1. kicks > 0
    <3>1. "close" \in In(inbox)
      BY <1>3, InTail DEF OnClosePacket, TypeOK
    <3>2. QED
      BY <3>1 DEF ConnInv, PacketsInv
  <2>2. QED
    BY <1>1, <1>3, <2>1, ConnDown DEF OnClosePacket, counters, ErrorHasTimer
<1>4. CASE SocketError
  <2>1. timer' /\ fails' = fails + 1
    BY <1>4, SetErrorType, FailType DEF SocketError
  <2>2. QED
    BY <1>1, <1>4, <2>1, ConnDown DEF SocketError, ErrorHasTimer
<1>5. QED
  BY <1>2, <1>3, <1>4

LEMMA ConnTimeout ==
  ASSUME TypeOK, ConnInv, NEW c \in txns, AnnounceTimeout(c)
  PROVE  ConnInv'
<1>1. cstate' = "Error" /\ timer' /\ txns' \subseteq txns
  BY SetErrorType DEF AnnounceTimeout
<1>2. UNCHANGED <<sock, status, conn, inbox, outbox, srv, kicks>>
  BY DEF AnnounceTimeout, server
<1>3. conn <= fails + 1 /\ fails \in Nat /\ conn \in Nat
  BY DEF ConnInv, SpentInv, TypeOK
<1>4. fails' \in Nat /\ fails <= fails' /\ conn <= fails'
  <2>1. CASE c = conn /\ srv = "gone" /\ inbox = << >>
    <3>1. fails' = fails
      BY <2>1 DEF AnnounceTimeout
    <3>2. "ack200" \notin In(inbox)
      BY <2>1, InEmpty
    <3>3. QED
      BY <1>3, <2>1, <3>1, <3>2 DEF ConnInv, SpentInv, Spent
  <2>2. CASE ~(c = conn /\ srv = "gone" /\ inbox = << >>)
    <3>1. Fail
      BY <2>2 DEF AnnounceTimeout
    <3>2. QED
      BY <1>3, <3>1, FailType
  <2>3. QED
    BY <2>1, <2>2
<1>5. OnlineIsAnnounced' /\ ErrorHasTimer'
  BY <1>1 DEF OnlineIsAnnounced, ErrorHasTimer
<1>6. SpentInv'
  <2>1. conn' = conn /\ srv' = srv /\ inbox' = inbox
    BY <1>2
  <2>2. conn' <= fails' /\ conn' <= fails' + 1
    BY <1>3, <1>4, <2>1, Counts
  <2>3. QED
    BY <2>2 DEF SpentInv, Spent
<1>7. GreetInv' /\ PacketsInv'
  BY <1>2, <1>3, <1>4 DEF ConnInv, GreetInv, PacketsInv, Spent
<1>8. QED
  BY <1>2, <1>5, <1>6, <1>7 DEF ConnInv, AnnounceInv, ClosedInv

LEMMA ConnRunAction ==
  ASSUME TypeOK, ConnInv, RunAction
  PROVE  ConnInv'
<1>1. ipc \in Seq(Actions) /\ outbox \in Seq(Actions \cup {Announce}) /\ Single(outbox)
  BY DEF TypeOK, ConnInv, AnnounceInv
<1>2. Head(ipc) \in Actions /\ Head(ipc) # Announce
  BY <1>1, InTail, AnnounceIsNoAction DEF RunAction
<1>3. UNCHANGED <<cstate, sock, timer, status, txns, conn, online, inbox, srv, fails, kicks>>
  BY DEF RunAction, counters
<1>4. \/ sock = "open" /\ outbox' = Append(outbox, Head(ipc)) /\ aborted' = aborted
      \/ outbox' = outbox /\ aborted' = "send"
  BY DEF RunAction
<1>5. Single(outbox') /\ (Announce \in In(outbox') => Announce \in In(outbox))
  <2>1. CASE outbox' = Append(outbox, Head(ipc))
    <3>1. Single(outbox')
      BY <1>1, <1>2, <2>1, SingleAppend
    <3>2. In(outbox') = In(outbox) \cup {Head(ipc)}
      BY <1>1, <1>2, <2>1, InAppend
    <3>3. QED
      BY <1>2, <3>1, <3>2
  <2>2. CASE outbox' = outbox
    BY <1>1, <2>2
  <2>3. QED
    BY <1>4, <2>1, <2>2
<1>6. QED
  BY <1>3, <1>4, <1>5
  DEF ConnInv, SpentInv, Spent, GreetInv, AnnounceInv, PacketsInv, ClosedInv,
      OnlineIsAnnounced, ErrorHasTimer

LEMMA ConnKept ==
  ASSUME ConnInv, UNCHANGED <<cstate, sock, timer, status, txns, conn, online, inbox,
                              outbox, srv, aborted, fails, kicks>>
  PROVE  ConnInv'
  BY DEF ConnInv, SpentInv, Spent, GreetInv, AnnounceInv, PacketsInv, ClosedInv,
         OnlineIsAnnounced, ErrorHasTimer


----------------------------------------------------------------------------
(* The connection: steps of the server                                     *)

LEMMA ConnServerTimeout ==
  ASSUME TypeOK, ConnInv, ServerTimeout
  PROVE  ConnInv'
<1> DEFINE s == IF srv = "connected" THEN "gone" ELSE "dropped"
<1>1. ServerReply(s, <<"disconnect">>) /\ UNCHANGED <<outbox, kicks>>
      /\ srv \in {"connected", "authorizing"}
  BY DEF ServerTimeout
<1>2. /\ srv' = s /\ In(inbox') = In(inbox) \cup {"disconnect"}
      /\ UNCHANGED <<cstate, sock, timer, status, txns, conn, online, aborted>>
      /\ inbox # << >> => /\ Head(inbox') = Head(inbox)
                          /\ Tail(inbox') = Tail(inbox) \o <<"disconnect">>
  BY <1>1, ServerReplyType, PacketsType
<1>3. conn' <= fails' /\ conn' <= fails' + 1
  BY <1>2, FailType DEF ServerTimeout, ConnInv, SpentInv, TypeOK
<1>4. SpentInv'
  BY <1>3 DEF SpentInv, Spent
<1>5. /\ sock = "open" /\ "ack200" \notin In(inbox) /\ cstate # "Online"
      /\ "connect" \in In(inbox) \/ Announce \in In(outbox) => srv = "connected"
  BY <1>1 DEF ConnInv, ClosedInv, PacketsInv, OnlineIsAnnounced, GreetInv, AnnounceInv
<1>6. GreetInv'
  <2> SUFFICES ASSUME "connect" \in In(inbox') PROVE GreetInv'
    BY DEF GreetInv
  <2>1. /\ "connect" \in In(inbox) /\ inbox # << >> /\ srv' = "gone"
        /\ Head(inbox) = "connect" /\ "connect" \notin In(Tail(inbox))
        /\ status = 0 /\ Announce \notin In(outbox)
    BY <1>2, <1>5, InEmpty DEF ConnInv, GreetInv
  <2>2. In(Tail(inbox')) = In(Tail(inbox)) \cup {"disconnect"}
    <3>1. inbox \in Seq(Packets)
      BY DEF TypeOK
    <3>2. Tail(inbox) \in Seq(Packets)
      BY <2>1, <3>1, InTail
    <3>3. PICK q \in Seq(Packets), t \in Seq(Packets) : q = Tail(inbox) /\ t = <<"disconnect">>
      BY <3>2, PacketsType
    <3>4. In(q \o t) = In(q) \cup In(t)
      BY InCat
    <3>5. In(Tail(inbox) \o <<"disconnect">>) = In(Tail(inbox)) \cup {"disconnect"}
      BY <3>3, <3>4, PacketsType, Zenon
    <3>6. QED
      BY <1>2, <2>1, <3>5, Zenon
  <2>3. QED
    BY <1>1, <1>2, <1>3, <2>1, <2>2 DEF GreetInv, Spent
<1>7. PacketsInv' /\ AnnounceInv'
  BY <1>1, <1>2, <1>3, <1>5 DEF ConnInv, PacketsInv, AnnounceInv, Spent
<1>8. QED
  BY <1>2, <1>4, <1>5, <1>6, <1>7
  DEF ConnInv, ClosedInv, OnlineIsAnnounced, ErrorHasTimer

(* The server goes on; a greeting is not, or no longer, under way.         *)
LEMMA ConnServerGoes ==
  ASSUME TypeOK, ConnInv, NEW s \in {"authorizing", "accepted", "ready", "gone"},
         NEW packets \in Seq(Packets), ServerReply(s, packets),
         srv # "none", "connect" \notin In(inbox), "connect" \notin In(packets),
         "ack200" \in In(inbox) \cup In(packets) => s \in {"ready", "gone"},
         "close" \in In(packets) => kicks' > 0,
         "ack401" \in In(packets) => conn <= fails',
         s \in {"ready", "gone"} /\ conn \in txns =>
           conn <= fails' \/ "ack200" \in In(inbox) \cup In(packets),
         Announce \in In(outbox') => s = "gone",
         Single(outbox'), fails' \in Nat, kicks' \in Nat, fails <= fails', kicks <= kicks',
         cstate = "Online" => s \in {"ready", "gone"}
  PROVE  ConnInv'
<1>1. /\ srv' = s /\ In(inbox') = In(inbox) \cup In(packets)
      /\ UNCHANGED <<cstate, sock, timer, status, txns, conn, online, aborted>>
  BY ServerReplyType
<1>2. sock = "open" /\ "connect" \notin In(inbox')
  BY <1>1 DEF ConnInv, ClosedInv
<1>3. /\ fails \in Nat /\ kicks \in Nat /\ conn \in Nat /\ conn <= fails' + 1
      /\ conn <= fails => conn <= fails'
      /\ kicks > 0 => kicks' > 0
  <2>1. fails \in Nat /\ kicks \in Nat /\ conn \in Nat /\ conn <= fails + 1
    BY DEF TypeOK, ConnInv, SpentInv
  <2>2. QED
    BY <2>1, Counts
<1>4. SpentInv'
  BY <1>1, <1>3 DEF SpentInv, Spent, ConnInv
<1>5. PacketsInv' /\ AnnounceInv' /\ GreetInv'
  BY <1>1, <1>2, <1>3 DEF ConnInv, PacketsInv, AnnounceInv, GreetInv, Spent
<1>6. OnlineIsAnnounced' /\ ErrorHasTimer'
  BY <1>1, <1>2, <1>3 DEF ConnInv, OnlineIsAnnounced, ErrorHasTimer
<1>7. QED
  BY <1>1, <1>2, <1>4, <1>5, <1>6 DEF ConnInv, ClosedInv

LEMMA ConnServer ==
  ASSUME TypeOK, ConnInv, ServerAuthorize \/ ServerAccept \/ ServerAnswer \/ ServerDeny
  PROVE  ConnInv'
<1>1. fails \in Nat /\ kicks \in Nat /\ conn \in Nat /\ conn <= fails + 1 /\ Single(outbox)
  BY DEF TypeOK, ConnInv, SpentInv, AnnounceInv
<1>2. /\ srv \in {"connected", "authorizing", "accepted", "dropped"} =>
           "ack200" \notin In(inbox) /\ cstate # "Online"
      /\ srv \in {"authorizing", "accepted", "dropped"} =>
           "connect" \notin In(inbox) /\ Announce \notin In(outbox)
  BY DEF ConnInv, ClosedInv, PacketsInv, OnlineIsAnnounced, GreetInv, AnnounceInv
<1>3. CASE ServerAuthorize
  <2>1. outbox \in Seq(Actions \cup {Announce})
    BY DEF TypeOK
  <2>2. /\ outbox # << >> /\ outbox' = Tail(outbox) /\ Head(outbox) = Announce
        /\ srv = "connected" /\ ServerReply("authorizing", << >>) /\ fails' = fails /\ kicks' = kicks
    BY <1>3 DEF ServerAuthorize, counters
  <2>3. /\ Single(outbox') /\ Announce \notin In(outbox')
    BY <1>1, <2>1, <2>2, SingleTail
  <2>4. "connect" \notin In(inbox)
    BY <2>1, <2>2, InTail DEF ConnInv, GreetInv
  <2>5. << >> \in Seq(Packets) /\ In(<< >>) = {}
    BY PacketsType, InEmpty
  <2>6. fails' \in Nat /\ kicks' \in Nat /\ fails <= fails' /\ kicks <= kicks'
    BY <1>1, <2>2
  <2>7. "ack200" \notin In(inbox) /\ cstate # "Online" /\ srv # "none"
    BY <1>2, <2>2
  <2>8. QED
    BY <2>2, <2>3, <2>4, <2>5, <2>6, <2>7, ConnServerGoes
<1>4. CASE ServerAccept
  <2>1. /\ srv = "authorizing" /\ ServerReply("accepted", << >>)
        /\ outbox' = outbox /\ fails' = fails /\ kicks' = kicks
    BY <1>4 DEF ServerAccept, counters
  <2>2. << >> \in Seq(Packets) /\ In(<< >>) = {}
    BY PacketsType, InEmpty
  <2>3. fails' \in Nat /\ kicks' \in Nat /\ fails <= fails' /\ kicks <= kicks'
    BY <1>1, <2>1
  <2>4. /\ "ack200" \notin In(inbox) /\ cstate # "Online" /\ srv # "none"
        /\ "connect" \notin In(inbox) /\ Announce \notin In(outbox') /\ Single(outbox')
    BY <1>1, <1>2, <2>1
  <2>5. QED
    BY <2>1, <2>2, <2>3, <2>4, ConnServerGoes
<1>5. CASE ServerAnswer
  <2>1. PICK s \in {"ready", "gone"} : ServerReply(s, <<"ack200">>)
    BY <1>5 DEF ServerAnswer
  <2>2. srv \in {"accepted", "dropped"} /\ UNCHANGED <<outbox, fails, kicks>>
    BY <1>5 DEF ServerAnswer, counters
  <2>3. QED
    BY <1>1, <1>2, <2>1, <2>2, PacketsType, ConnServerGoes
<1>6. CASE ServerDeny
  <2>1. PICK packets \in {<<"ack401">>, <<"ack401", "disconnect">>} : ServerReply("gone", packets)
    BY <1>6 DEF ServerDeny
  <2>2. srv \in {"authorizing", "dropped"} /\ UNCHANGED <<outbox, kicks>> /\ fails' = fails + 1
    BY <1>6, FailType DEF ServerDeny
  <2>3. /\ packets \in Seq(Packets) /\ "connect" \notin In(packets) /\ "close" \notin In(packets)
    BY PacketsType
  <2>4. QED
    BY <1>1, <1>2, <2>1, <2>2, <2>3, ConnServerGoes
<1>7. QED
  BY <1>3, <1>4, <1>5, <1>6

LEMMA ConnKick ==
  ASSUME TypeOK, ConnInv, NEW p \in {"disconnect", "close"}, ServerKick(p)
  PROVE  ConnInv'
<1>1. srv = "ready" /\ ServerReply("gone", <<p>>) /\ kicks' = kicks + 1
      /\ outbox' = outbox /\ fails' = fails
  BY DEF ServerKick
<1>2. /\ fails \in Nat /\ kicks \in Nat /\ conn \in Nat /\ Single(outbox)
      /\ "connect" \notin In(inbox) /\ Announce \notin In(outbox)
      /\ conn \in txns => conn <= fails \/ "ack200" \in In(inbox)
  BY <1>1 DEF TypeOK, ConnInv, AnnounceInv, GreetInv, SpentInv, Spent
<1>3. <<p>> \in Seq(Packets) /\ In(<<p>>) = {p}
  BY PacketsType
<1>4. fails' \in Nat /\ kicks' \in Nat /\ fails <= fails' /\ kicks <= kicks' /\ kicks' > 0
  BY <1>1, <1>2
<1>5. /\ conn \in txns => conn <= fails' \/ "ack200" \in In(inbox) \cup In(<<p>>)
      /\ Single(outbox') /\ Announce \notin In(outbox') /\ "ack401" \notin In(<<p>>)
      /\ "connect" \notin In(<<p>>) /\ srv # "none"
  BY <1>1, <1>2, <1>3
<1>6. QED
  BY <1>1, <1>2, <1>3, <1>4, <1>5, ConnServerGoes

LEMMA ConnTake ==
  ASSUME TypeOK, ConnInv, ServerTake
  PROVE  ConnInv'
<1>1. outbox \in Seq(Actions \cup {Announce}) /\ inbox \in Seq(Packets) /\ Single(outbox)
  BY DEF TypeOK, ConnInv, AnnounceInv
<1>2. outbox # << >> /\ outbox' = Tail(outbox) /\ ServerReply(srv, << >>)
      /\ UNCHANGED <<fails, kicks>>
  BY DEF ServerTake, counters
<1>3. Single(outbox') /\ In(outbox') \subseteq In(outbox)
  BY <1>1, <1>2, SingleTail, InTail
<1>4. srv' = srv /\ inbox' = inbox
      /\ UNCHANGED <<cstate, sock, timer, status, txns, conn, online, aborted>>
  BY <1>1, <1>2 DEF ServerReply, client, threads
<1>5. sock = "open"
  BY <1>2 DEF ConnInv, ClosedInv
<1>6. QED
  BY <1>2, <1>3, <1>4, <1>5
  DEF ConnInv, SpentInv, Spent, GreetInv, AnnounceInv, PacketsInv, ClosedInv,
      OnlineIsAnnounced, ErrorHasTimer

LEMMA ConnStep == TypeOK /\ ConnInv /\ [Next]_vars => ConnInv'
<1> SUFFICES ASSUME TypeOK, ConnInv, [Next]_vars PROVE ConnInv'
  OBVIOUS
<1>1. CASE Loop
  <2>1. ASSUME NEW r \in Room, PushRejoin(r)
        PROVE  ConnInv'
    BY <2>1, ConnKept DEF PushRejoin, server, counters
  <2>2. QED
    BY <1>1, <2>1, ConnHandshake, ConnGoes, ConnConnectPacket, ConnAnnounced, ConnDenied,
       ConnDisconnectPacket, ConnRunAction DEF Loop
<1>2. CASE Server
  BY <1>2, ConnServer, ConnTake DEF Server
<1>3. CASE Environment
  BY <1>3, ConnGoes, ConnTimeout, ConnServerTimeout, ConnServer, ConnKick DEF Environment
<1>4. CASE Application
  <2>1. ASSUME NEW r \in Room, Call(r)
        PROVE  ConnInv'
    BY <2>1, ConnKept DEF Call, client, server
  <2>2. CASE PushAction
    BY <2>2, ConnKept DEF PushAction, client, server, counters
  <2>3. QED
    BY <1>4, <2>1, <2>2 DEF Application
<1>5. CASE UNCHANGED vars
  BY <1>5, ConnKept DEF vars, client, threads, server, counters
<1>6. QED
  BY <1>1, <1>2, <1>3, <1>4, <1>5 DEF Next

(* The types, and the bound of the numbers of connections.                 *)
THEOREM TypeCorrect == Spec => []TypeOK
<1>1. ConnInv => SpentInv
  BY DEF ConnInv
<1>2. QED
  BY <1>1, TypeInit, TypeStep, ConnStep, PTL DEF Spec

(* A client that is online was announced on this very connection: onOnline *)
(* and onAnnounceState cannot be reached by what an earlier one left.      *)
THEOREM OnlineAnnounced == Spec => []OnlineIsAnnounced
<1>1. ConnInv => SpentInv /\ OnlineIsAnnounced
  BY DEF ConnInv
<1>2. QED
  BY <1>1, TypeInit, TypeStep, ConnStep, PTL DEF Spec

(* A client in the Error state has its reconnect timer running, unless the *)
(* Close frame has closed everything down.                                 *)
THEOREM ErrorTimer == Spec => []ErrorHasTimer
<1>1. ConnInv => SpentInv /\ ErrorHasTimer
  BY DEF ConnInv
<1>2. QED
  BY <1>1, TypeInit, TypeStep, ConnStep, PTL DEF Spec

----------------------------------------------------------------------------
(* What ends the process                                                   *)

(* Neither failures nor kicks are taken back.                              *)
LEMMA CountersGrow ==
  ASSUME TypeOK, Next
  PROVE  fails' \in Nat /\ kicks' \in Nat /\ fails <= fails' /\ kicks <= kicks'
<1>1. fails \in Nat /\ kicks \in Nat /\ (Fail => fails' = fails + 1)
  BY BoundsAssumption DEF TypeOK, Fail
<1>2. \/ UNCHANGED <<fails, kicks>>
      \/ Fail /\ kicks' = kicks
      \/ fails' = fails /\ kicks' = kicks + 1
  <2>1. CASE Loop
    BY <2>1 DEF Loop, HandshakeDone, OnReconnectTimer, OnConnectPacket, OnAnnounced, OnDenied,
       OnDisconnectPacket, OnClosePacket, RunAction, PushRejoin, counters
  <2>2. CASE Server \/ Application
    BY <2>2 DEF Server, ServerAuthorize, ServerAccept, ServerAnswer, ServerTake, Application,
       Call, PushAction, counters
  <2>3. CASE Environment
    <3>1. CASE SocketError \/ ServerTimeout \/ ServerDeny
      BY <3>1 DEF SocketError, ServerTimeout, ServerDeny
    <3>2. ASSUME NEW c \in txns, AnnounceTimeout(c)
          PROVE  kicks' = kicks /\ (fails' = fails \/ Fail)
      BY <3>2 DEF AnnounceTimeout
    <3>3. ASSUME NEW p, ServerKick(p)
          PROVE  fails' = fails /\ kicks' = kicks + 1
      BY <3>3 DEF ServerKick
    <3>4. QED
      BY <2>3, <3>1, <3>2, <3>3 DEF Environment
  <2>4. QED
    BY <2>1, <2>2, <2>3 DEF Next
<1>3. QED
  BY <1>1, <1>2

(* Packets come from the server: those it sends later are no greeting.     *)
LEMMA PendingServer ==
  ASSUME TypeOK, PendingInv, NEW s, NEW packets \in Seq(Packets),
         "connect" \notin In(packets), ServerReply(s, packets)
  PROVE  PendingInv'
<1>1. /\ In(inbox') = In(inbox) \cup In(packets)
      /\ UNCHANGED <<cstate, sock, timer, txns, conn>>
  BY ServerReplyType
<1>2. QED
  BY <1>1 DEF PendingInv, Pending

LEMMA PendingLoop ==
  ASSUME TypeOK, ConnInv, PendingInv, Loop
  PROVE  PendingInv'
<1>1. conn \in Nat /\ conn > 0 /\ txns \subseteq 1 .. conn /\ inbox \in Seq(Packets)
  BY DEF TypeOK
<1>2. CASE HandshakeDone
  BY <1>2 DEF HandshakeDone, PendingInv, Pending
<1>3. CASE OnReconnectTimer
  <2>1. sock' = "connecting" /\ conn' = conn + 1 /\ txns' = txns /\ inbox' = << >>
    BY <1>3 DEF OnReconnectTimer, Disconnected
  <2>2. conn' \notin txns' /\ conn' # 1
    BY <1>1, <2>1
  <2>3. QED
    BY <2>1, <2>2, InEmpty DEF PendingInv
<1>4. CASE OnConnectPacket
  <2>1. /\ In(inbox) = {"connect"} \cup In(inbox') /\ inbox # << >>
        /\ "connect" \notin In(inbox') /\ status = 0
    BY <1>4, ReceiveType DEF OnConnectPacket, Packets, ConnInv, GreetInv
  <2>2. sock = "open"
    BY <2>1 DEF ConnInv, ClosedInv
  <2>3. /\ UNCHANGED <<cstate, sock, timer, conn>>
    BY <1>4, <2>1 DEF OnConnectPacket
  <2>4. QED
    BY <2>1, <2>2, <2>3 DEF PendingInv, Pending
<1>5. CASE OnAnnounced \/ OnDenied
  <2>1. /\ inbox # << >> /\ Head(inbox) # "connect" /\ In(inbox') \subseteq In(inbox)
        /\ txns' = txns \ {conn} /\ UNCHANGED <<sock, conn>>
    BY <1>5, ReceiveType DEF OnAnnounced, OnDenied, Packets
  <2>2. sock = "open" /\ "connect" \notin In(inbox)
    BY <2>1 DEF ConnInv, ClosedInv, GreetInv
  <2>3. QED
    BY <2>1, <2>2 DEF PendingInv, Pending
<1>6. CASE OnDisconnectPacket
  <2>1. In(inbox') \subseteq In(inbox) /\ UNCHANGED <<cstate, sock, timer, txns, conn>>
    BY <1>6, ReceiveType DEF OnDisconnectPacket, Packets, client
  <2>2. QED
    BY <2>1 DEF PendingInv, Pending
<1>7. CASE OnClosePacket
  <2>1. sock' = "closed" /\ inbox' = << >>
    BY <1>7 DEF OnClosePacket, Disconnected
  <2>2. QED
    BY <2>1, InEmpty DEF PendingInv
<1>8. CASE RunAction \/ \E r \in Room : PushRejoin(r)
  <2>1. UNCHANGED <<cstate, sock, timer, txns, conn, inbox>>
    BY <1>8 DEF RunAction, PushRejoin, server
  <2>2. QED
    BY <2>1 DEF PendingInv, Pending
<1>9. QED
  BY <1>2, <1>3, <1>4, <1>5, <1>6, <1>7, <1>8 DEF Loop

LEMMA PendingStep == TypeOK /\ ConnInv /\ PendingInv /\ [Next]_vars => PendingInv'
<1> SUFFICES ASSUME TypeOK, ConnInv, PendingInv, [Next]_vars PROVE PendingInv'
  OBVIOUS
<1>1. CASE Server
  <2>1. \E s : \E packets \in {<< >>, <<"ack200">>} : ServerReply(s, packets)
    BY <1>1 DEF Server, ServerAuthorize, ServerAccept, ServerAnswer, ServerTake
  <2>2. QED
    BY <2>1, PacketsType, InEmpty, PendingServer
<1>2. CASE SocketError
  <2>1. sock' = "closed" /\ inbox' = << >>
    BY <1>2 DEF SocketError, Disconnected
  <2>2. QED
    BY <2>1, InEmpty DEF PendingInv
<1>3. ASSUME NEW c \in txns, AnnounceTimeout(c)
      PROVE  PendingInv'
  <2>1. /\ cstate' = "Error" /\ txns' = txns \ {c}
        /\ UNCHANGED <<sock, conn, inbox>>
    BY <1>3, SetErrorType DEF AnnounceTimeout, server
  <2>2. conn = 1 => c = conn
    BY <1>3 DEF TypeOK
  <2>3. conn \in Nat /\ conn > 0
    BY DEF TypeOK
  <2>4. QED
    BY <2>1, <2>2, <2>3 DEF PendingInv, Pending
<1>4. CASE ServerTimeout \/ ServerDeny \/ \E p \in {"disconnect", "close"} : ServerKick(p)
  <2>1. \E s : \E packets \in {<<"disconnect">>, <<"ack401">>, <<"ack401", "disconnect">>,
                               <<"close">>} : ServerReply(s, packets)
    BY <1>4 DEF ServerTimeout, ServerDeny, ServerKick
  <2>2. QED
    BY <2>1, PacketsType, PendingServer
<1>5. CASE Application \/ UNCHANGED vars
  <2>1. UNCHANGED <<cstate, sock, timer, txns, conn, inbox>>
    BY <1>5 DEF Application, Call, PushAction, vars, client, server
  <2>2. QED
    BY <2>1 DEF PendingInv, Pending
<1>6. QED
  BY <1>1, <1>2, <1>3, <1>4, <1>5, PendingLoop DEF Next, Environment

(* Nobody goes offline without a failure or a Close frame.                 *)
LEMMA OfflineStep == TypeOK /\ ConnInv /\ OfflineInv /\ [Next]_vars => OfflineInv'
<1> SUFFICES ASSUME TypeOK, ConnInv, OfflineInv, [Next]_vars,
                    fails' = 0, kicks' = 0, sock' # "open"
             PROVE  ipc' = << >> /\ app' = Idle /\ ~online' /\ rejoin' = {}
  BY DEF OfflineInv
<1>1. fails = 0 /\ kicks = 0
  <2>1. CASE Next
    BY <2>1, CountersGrow, BoundsAssumption DEF TypeOK
  <2>2. CASE UNCHANGED vars
    BY <2>2 DEF vars, counters
  <2>3. QED
    BY <2>1, <2>2
<1>2. ~timer
  BY <1>1 DEF ConnInv, SpentInv, Spent, TypeOK
<1>3. ~SocketError /\ ~OnReconnectTimer /\ ~OnClosePacket
  <2>1. ~SocketError
    BY <1>1 DEF SocketError, Fail
  <2>2. ~OnClosePacket
    <3>1. SUFFICES ASSUME OnClosePacket PROVE FALSE
      OBVIOUS
    <3>2. "close" \in In(inbox)
      BY <3>1, InTail DEF OnClosePacket, TypeOK
    <3>3. QED
      BY <1>1, <3>2 DEF ConnInv, PacketsInv
  <2>3. QED
    BY <1>2, <2>1, <2>2 DEF OnReconnectTimer
<1>4. /\ sock # "open" /\ inbox = << >>
      /\ ipc = << >> /\ app = Idle /\ ~online /\ rejoin = {}
  <2>1. sock = "open" => sock' = "open"
    <3>1. CASE Loop
      BY <1>3, <3>1 DEF Loop, HandshakeDone, OnConnectPacket, OnAnnounced, OnDenied,
         OnDisconnectPacket, RunAction, PushRejoin, client
    <3>2. CASE Server \/ Application
      BY <3>2 DEF Server, ServerAuthorize, ServerAccept, ServerAnswer, ServerTake,
         ServerReply, Application, Call, PushAction, client
    <3>3. CASE Environment
      BY <1>3, <3>3 DEF Environment, AnnounceTimeout, ServerTimeout, ServerDeny, ServerKick,
         ServerReply, client
    <3>4. QED
      BY <3>1, <3>2, <3>3 DEF Next, vars, client
  <2>2. QED
    BY <1>1, <2>1 DEF OfflineInv, ConnInv, ClosedInv
<1>5. CASE Loop
  BY <1>3, <1>4, <1>5 DEF Loop, HandshakeDone, OnConnectPacket, OnAnnounced, OnDenied,
     OnDisconnectPacket, Receive, RunAction, PushRejoin, threads
<1>6. CASE Server \/ Application
  BY <1>4, <1>6 DEF Server, ServerAuthorize, ServerAccept, ServerAnswer, ServerTake,
     ServerReply, Application, Call, WaitedForOnline, PushAction, client, threads
<1>7. CASE Environment
  <2>1. ASSUME NEW c \in txns, AnnounceTimeout(c)
        PROVE  ipc' = << >> /\ app' = Idle /\ ~online' /\ rejoin' = {}
    BY <1>4, <2>1, SetErrorType DEF AnnounceTimeout
  <2>2. QED
    BY <1>3, <1>4, <1>7, <2>1 DEF Environment, ServerTimeout, ServerDeny, ServerKick,
       ServerReply, client, threads
<1>8. CASE UNCHANGED vars
  BY <1>4, <1>8 DEF vars, client, threads
<1>9. QED
  BY <1>5, <1>6, <1>7, <1>8 DEF Next

(* The timer runs only after a failure, and an assertion about it fails on *)
(* a second one, or on the announcement of a second connection.            *)
LEMMA SecondError ==
  ASSUME TypeOK, ConnInv, PendingInv, SetError, timer,
         \/ fails' = fails + 1
         \/ sock = "open" /\ conn \in txns /\ fails' = fails
  PROVE  fails' > 1
<1>1. conn <= fails /\ fails \in Nat /\ conn \in Nat /\ conn > 0
  BY DEF ConnInv, SpentInv, Spent, TypeOK
<1>2. CASE fails' = fails + 1
  BY <1>1, <1>2
<1>3. CASE sock = "open" /\ conn \in txns /\ fails' = fails
  <2>1. conn # 1
    BY <1>3 DEF PendingInv, Pending
  <2>2. QED
    BY <1>1, <1>3, <2>1
<1>4. QED
  BY <1>2, <1>3

(* Each failing assertion.                                                 *)
LEMMA EndStep ==
  ASSUME TypeOK, ConnInv, PendingInv, OfflineInv, Next, aborted' # aborted
  PROVE  AbortNeedsFailures'
<1>1. CASE SocketError
  <2>1. aborted' = "timer" /\ timer /\ fails' = fails + 1 /\ SetError
    BY <1>1, SetErrorType, FailType DEF SocketError
  <2>2. QED
    BY <2>1, SecondError DEF AbortNeedsFailures
<1>2. ASSUME NEW c \in txns, AnnounceTimeout(c)
      PROVE  AbortNeedsFailures'
  <2>1. aborted' = "timer" /\ timer /\ SetError
    BY <1>2, SetErrorType DEF AnnounceTimeout
  <2>2. CASE c = conn /\ srv = "gone" /\ inbox = << >>
    <3>1. sock = "open" /\ fails' = fails
      BY <1>2, <2>2 DEF AnnounceTimeout, ConnInv, ClosedInv
    <3>2. QED
      BY <1>2, <2>1, <2>2, <3>1, SecondError DEF AbortNeedsFailures
  <2>3. CASE ~(c = conn /\ srv = "gone" /\ inbox = << >>)
    <3>1. fails' = fails + 1
      BY <1>2, <2>3, FailType DEF AnnounceTimeout
    <3>2. QED
      BY <2>1, <3>1, SecondError DEF AbortNeedsFailures
  <2>4. QED
    BY <2>2, <2>3
<1>3. CASE OnDenied
  <2>1. inbox # << >> /\ conn \in txns /\ SetError
    BY <1>3 DEF OnDenied, Receive
  <2>2. /\ sock = "open" /\ fails' = fails /\ aborted' = "timer" /\ timer
    BY <1>3, <2>1, SetErrorType DEF OnDenied, counters, ConnInv, ClosedInv
  <2>3. QED
    BY <2>1, <2>2, SecondError DEF AbortNeedsFailures
<1>4. CASE OnConnectPacket
  <2>1. status = 0
    BY <1>4, ReceiveType DEF OnConnectPacket, Packets, ConnInv, GreetInv
  <2>2. QED
    BY <1>4, <2>1 DEF OnConnectPacket
<1>5. CASE OnAnnounced
  <2>1. inbox # << >> /\ conn \in txns /\ GoOnline /\ LoopFree
    BY <1>5 DEF OnAnnounced, Receive
  <2>2. /\ sock = "open" /\ cstate # "Connected" /\ aborted' = "online"
        /\ UNCHANGED <<conn, fails>>
    BY <1>5, <2>1, GoOnlineType DEF OnAnnounced, counters, ConnInv, ClosedInv
  <2>3. cstate = "Error" /\ conn > 1
    BY <2>1, <2>2 DEF PendingInv, Pending
  <2>4. timer
    BY <2>1, <2>2, <2>3 DEF LoopFree, ConnInv, ErrorHasTimer
  <2>5. conn <= fails /\ fails \in Nat /\ conn \in Nat
    BY <2>4 DEF ConnInv, SpentInv, Spent, TypeOK
  <2>6. QED
    BY <2>2, <2>3, <2>5 DEF AbortNeedsFailures
<1>6. CASE RunAction
  <2>1. /\ ipc # << >> /\ sock # "open" /\ aborted' = "send" /\ UNCHANGED <<fails, kicks>>
    BY <1>6 DEF RunAction, counters
  <2>2. fails \in Nat /\ kicks \in Nat /\ (fails # 0 \/ kicks # 0)
    BY <2>1 DEF OfflineInv, TypeOK
  <2>3. QED
    BY <2>1, <2>2 DEF AbortNeedsFailures
<1>7. ~HandshakeDone /\ ~OnReconnectTimer /\ ~OnDisconnectPacket /\ ~OnClosePacket
      /\ \A r \in Room : ~PushRejoin(r)
  BY DEF HandshakeDone, OnReconnectTimer, OnDisconnectPacket, OnClosePacket, PushRejoin
<1>8. ~Server /\ ~Application /\ ~ServerTimeout /\ ~ServerDeny
      /\ \A p : ~ServerKick(p)
  BY DEF Server, ServerAuthorize, ServerAccept, ServerAnswer, ServerTake, ServerTimeout,
     ServerDeny, ServerKick, ServerReply, Application, Call, PushAction
<1>9. QED
  BY <1>1, <1>2, <1>3, <1>4, <1>5, <1>6, <1>7, <1>8 DEF Next, Loop, Environment

LEMMA Grows ==
  ASSUME NEW a \in Nat, NEW b \in Nat, NEW c \in Nat, NEW d \in Nat, a <= c, b <= d
  PROVE  (a > 1 => c > 1) /\ (b > 1 => d > 1) /\ (a + b > 0 => c + d > 0)
  OBVIOUS

LEMMA EndsStep ==
  EndInv /\ TypeOK /\ ConnInv /\ [Next]_vars => EndInv'
<1> SUFFICES ASSUME EndInv, TypeOK, ConnInv, [Next]_vars PROVE EndInv'
  OBVIOUS
<1>1. PendingInv' /\ OfflineInv'
  BY PendingStep, OfflineStep DEF EndInv
<1>2. CASE Next /\ aborted' = aborted
  <2>1. conn' \in Nat /\ conn <= conn'
    <3>1. conn \in Nat
      BY DEF TypeOK
    <3>2. conn' = conn \/ conn' = conn + 1
      <4>1. CASE Loop
        BY <4>1 DEF Loop, HandshakeDone, OnReconnectTimer, OnConnectPacket, OnAnnounced,
           OnDenied, OnDisconnectPacket, OnClosePacket, RunAction, PushRejoin, client
      <4>2. CASE Server \/ Application
        BY <4>2 DEF Server, ServerAuthorize, ServerAccept, ServerAnswer, ServerTake,
           ServerReply, Application, Call, PushAction, client
      <4>3. CASE Environment
        BY <4>3 DEF Environment, SocketError, AnnounceTimeout, ServerTimeout, ServerDeny,
           ServerKick, ServerReply, client
      <4>4. QED
        BY <1>2, <4>1, <4>2, <4>3 DEF Next
    <3>3. QED
      BY <3>1, <3>2
  <2>2. /\ fails \in Nat /\ kicks \in Nat /\ conn \in Nat
        /\ fails' \in Nat /\ kicks' \in Nat /\ fails <= fails' /\ kicks <= kicks'
    BY <1>2, CountersGrow DEF TypeOK
  <2>3. /\ fails > 1 => fails' > 1
        /\ conn > 1 => conn' > 1
        /\ fails + kicks > 0 => fails' + kicks' > 0
    BY <2>1, <2>2, Grows
  <2>4. AbortNeedsFailures'
    BY <1>2, <2>3 DEF EndInv, AbortNeedsFailures
  <2>5. QED
    BY <1>1, <2>4 DEF EndInv
<1>3. CASE Next /\ aborted' # aborted
  BY <1>1, <1>3, EndStep DEF EndInv
<1>4. CASE UNCHANGED vars
  BY <1>1, <1>4 DEF vars, client, counters, EndInv, AbortNeedsFailures
<1>5. QED
  BY <1>2, <1>3, <1>4

LEMMA EndsInit == Init => EndInv
<1> SUFFICES ASSUME Init PROVE EndInv
  OBVIOUS
<1>1. PendingInv
  BY DEF Init, PendingInv
<1>2. QED
  BY <1>1 DEF Init, EndInv, OfflineInv, AbortNeedsFailures

(* The process is ended by an assertion only after repeated failures, or   *)
(* by sending after one.                                                   *)
THEOREM AbortsCaused == Spec => []AbortNeedsFailures
<1>1. (ConnInv => SpentInv) /\ (EndInv => AbortNeedsFailures)
  BY DEF ConnInv, EndInv
<1>2. QED
  BY <1>1, TypeInit, TypeStep, ConnStep, EndsInit, EndsStep, PTL DEF Spec

----------------------------------------------------------------------------
(* What a sequence of actions makes of a set of rooms                      *)

LEMMA ActionIs ==
  ASSUME NEW e \in Actions
  PROVE  /\ e.room \in Room
         /\ \/ e = Join(e.room) /\ e.op = "join"
            \/ e = Leave(e.room) /\ e.op # "join"
  BY DEF Actions, Join, Leave

LEMMA ActionsDiffer ==
  ASSUME NEW q \in Room, NEW r \in Room
  PROVE  /\ Join(q) \in Actions /\ Leave(q) \in Actions
         /\ Join(q) # Leave(r) /\ Join(q) # Announce /\ Leave(q) # Announce
         /\ Join(q) # Idle /\ Leave(q) # Idle
         /\ q # r => Join(q) # Join(r) /\ Leave(q) # Leave(r)
  BY DEF Actions, Join, Leave, Announce, Idle

LEMMA ResultRooms == \A s, R : Result(s, R) \subseteq Room
  BY DEF Result

LEMMA ResultEmpty ==
  ASSUME NEW R \in SUBSET Room
  PROVE  Result(<< >>, R) = R
  BY DEF Result

LEMMA ResultGrows ==
  ASSUME NEW s, NEW Q \in SUBSET Room, NEW R \in SUBSET Room, Q \subseteq R
  PROVE  Result(s, Q) \subseteq Result(s, R)
  BY DEF Result

(* One more action decides about its room and no other.                    *)
LEMMA AppendDecides ==
  ASSUME NEW s \in Seq(Actions \cup {Announce}), NEW e \in Actions \cup {Announce},
         NEW R \in SUBSET Room, NEW r \in Room
  PROVE  /\ e = Join(r) => r \in Result(Append(s, e), R)
         /\ e = Leave(r) => r \notin Result(Append(s, e), R)
         /\ e # Join(r) /\ e # Leave(r) =>
              (r \in Result(Append(s, e), R) <=> r \in Result(s, R))
<1> DEFINE t == Append(s, e)
<1>1. /\ DOMAIN t = 1 .. Len(s) + 1 /\ DOMAIN s = 1 .. Len(s) /\ Len(s) \in Nat
      /\ \A i \in 1 .. Len(s) : t[i] = s[i]
      /\ t[Len(s) + 1] = e
  OBVIOUS
<1>2. /\ \A i \in 1 .. Len(s) + 1 : i \in 1 .. Len(s) \/ i = Len(s) + 1
      /\ \A i \in 1 .. Len(s) : i \in 1 .. Len(s) + 1 /\ i < Len(s) + 1 /\ ~(Len(s) + 1 < i)
      /\ Len(s) + 1 \in 1 .. Len(s) + 1 /\ ~(Len(s) + 1 < Len(s) + 1)
  BY <1>1
<1> HIDE DEF t
<1>3. CASE e = Join(r)
  <2>1. e # Leave(r)
    BY <1>3, ActionsDiffer
  <2>2. r \in Result(t, R)
    BY <1>1, <1>2, <1>3, <2>1 DEF Result
  <2>3. QED
    BY <1>3, <2>1, <2>2 DEF t
<1>4. CASE e = Leave(r)
  <2>1. e # Join(r)
    BY <1>4, ActionsDiffer
  <2>2. r \notin Result(t, R)
    BY <1>1, <1>2, <1>4, <2>1 DEF Result
  <2>3. QED
    BY <1>4, <2>1, <2>2 DEF t
<1>5. CASE e # Join(r) /\ e # Leave(r)
  <2>1. r \in Result(t, R) => r \in Result(s, R)
    BY <1>1, <1>2, <1>5 DEF Result
  <2>2. r \in Result(s, R) => r \in Result(t, R)
    BY <1>1, <1>2, <1>5 DEF Result
  <2>3. QED
    BY <1>5, <2>1, <2>2 DEF t
<1>6. QED
  BY <1>3, <1>4, <1>5

LEMMA ResultAnnounce ==
  ASSUME NEW s \in Seq(Actions \cup {Announce}), NEW R \in SUBSET Room
  PROVE  Result(Append(s, Announce), R) = Result(s, R)
<1>1. \A r \in Room : r \in Result(Append(s, Announce), R) <=> r \in Result(s, R)
  BY AppendDecides, ActionsDiffer
<1>2. Result(Append(s, Announce), R) \subseteq Room /\ Result(s, R) \subseteq Room
  BY ResultRooms
<1>3. QED
  BY <1>1, <1>2

LEMMA ResultAppend ==
  ASSUME NEW s \in Seq(Actions \cup {Announce}), NEW R \in SUBSET Room,
         NEW q \in Room
  PROVE  /\ Result(Append(s, Join(q)), R) = Result(s, R) \cup {q}
         /\ Result(Append(s, Leave(q)), R) = Result(s, R) \ {q}
<1>1. Result(Append(s, Join(q)), R) = Result(s, R) \cup {q}
  <2>1. \A r \in Room : r \in Result(Append(s, Join(q)), R) <=> r \in Result(s, R) \cup {q}
    <3> SUFFICES ASSUME NEW r \in Room
                 PROVE  r \in Result(Append(s, Join(q)), R) <=> r \in Result(s, R) \cup {q}
      OBVIOUS
    <3>1. Join(q) \in Actions \cup {Announce} /\ Join(q) # Leave(r)
          /\ (q # r => Join(q) # Join(r))
      BY ActionsDiffer
    <3>2. CASE q = r
      BY <3>1, <3>2, AppendDecides
    <3>3. CASE q # r
      BY <3>1, <3>3, AppendDecides
    <3>4. QED
      BY <3>2, <3>3
  <2>2. QED
    BY <2>1, ResultRooms
<1>2. Result(Append(s, Leave(q)), R) = Result(s, R) \ {q}
  <2>1. \A r \in Room : r \in Result(Append(s, Leave(q)), R) <=> r \in Result(s, R) \ {q}
    <3> SUFFICES ASSUME NEW r \in Room
                 PROVE  r \in Result(Append(s, Leave(q)), R) <=> r \in Result(s, R) \ {q}
      OBVIOUS
    <3>1. Leave(q) \in Actions \cup {Announce} /\ Leave(q) # Join(r)
          /\ (q # r => Leave(q) # Leave(r))
      BY ActionsDiffer
    <3>2. CASE q = r
      BY <3>1, <3>2, AppendDecides
    <3>3. CASE q # r
      BY <3>1, <3>3, AppendDecides
    <3>4. QED
      BY <3>2, <3>3
  <2>2. QED
    BY <2>1, ResultRooms
<1>3. QED
  BY <1>1, <1>2

(* Carrying out the first action first makes no difference.                *)
LEMMA TailDecides ==
  ASSUME NEW s \in Seq(Actions \cup {Announce}), s # << >>,
         NEW Q \in SUBSET Room, NEW R \in SUBSET Room, NEW r \in Room,
         Head(s) = Join(r) => r \in Q,
         Head(s) = Leave(r) => r \notin Q,
         Head(s) # Join(r) /\ Head(s) # Leave(r) => (r \in Q <=> r \in R)
  PROVE  r \in Result(Tail(s), Q) <=> r \in Result(s, R)
<1> DEFINE t == Tail(s)
<1>1. /\ DOMAIN s = 1 .. Len(s) /\ DOMAIN t = 1 .. Len(s) - 1
      /\ Len(s) \in Nat /\ Len(s) > 0 /\ Head(s) = s[1]
      /\ \A i \in 1 .. Len(s) - 1 : t[i] = s[i + 1]
  OBVIOUS
<1>2. /\ 1 \in 1 .. Len(s)
      /\ \A i \in 1 .. Len(s) - 1 : i + 1 \in 1 .. Len(s) /\ 1 < i + 1 /\ i + 1 # 1
      /\ \A i \in 1 .. Len(s) : i = 1 \/ (i - 1 \in 1 .. Len(s) - 1 /\ i = (i - 1) + 1)
  BY <1>1
<1>3. \A i, j \in 1 .. Len(s) - 1 : i < j <=> i + 1 < j + 1
  BY <1>1
<1>4. \A i \in 1 .. Len(s) : ~(i < 1) /\ (i < 1 <=> FALSE)
  BY <1>1
<1> DEFINE Joined(u) == \E i \in DOMAIN u : /\ u[i] = Join(r)
                                            /\ \A j \in DOMAIN u : u[j] = Leave(r) => j < i
           Left(u) == \E j \in DOMAIN u : u[j] = Leave(r)
<1>5. /\ r \in Result(t, Q) <=> Joined(t) \/ (r \in Q /\ ~Left(t))
      /\ r \in Result(s, R) <=> Joined(s) \/ (r \in R /\ ~Left(s))
  BY DEF Result
<1>6. Left(s) <=> Left(t) \/ Head(s) = Leave(r)
  BY <1>1, <1>2
<1>7. Joined(t) => Joined(s)
  <2> SUFFICES ASSUME NEW i \in 1 .. Len(s) - 1, t[i] = Join(r),
                      \A j \in 1 .. Len(s) - 1 : t[j] = Leave(r) => j < i
               PROVE  Joined(s)
    BY <1>1
  <2>1. i + 1 \in 1 .. Len(s) /\ s[i + 1] = Join(r)
    BY <1>1, <1>2
  <2>2. ASSUME NEW j \in 1 .. Len(s), s[j] = Leave(r)
        PROVE  j < i + 1
    <3>1. CASE j = 1
      BY <1>2, <3>1
    <3>2. CASE j # 1
      <4>1. j - 1 \in 1 .. Len(s) - 1 /\ t[j - 1] = Leave(r)
        BY <1>1, <1>2, <2>2, <3>2
      <4>2. j - 1 < i
        BY <4>1
      <4>3. QED
        BY <4>2
    <3>3. QED
      BY <3>1, <3>2
  <2>3. QED
    BY <1>1, <2>1, <2>2
<1>8. Joined(s) => Joined(t) \/ (Head(s) = Join(r) /\ ~Left(t))
  <2> SUFFICES ASSUME NEW i \in 1 .. Len(s), s[i] = Join(r),
                      \A j \in 1 .. Len(s) : s[j] = Leave(r) => j < i
               PROVE  Joined(t) \/ (Head(s) = Join(r) /\ ~Left(t))
    BY <1>1
  <2>1. CASE i = 1
    <3>1. \A j \in 1 .. Len(s) - 1 : t[j] # Leave(r)
      <4> SUFFICES ASSUME NEW j \in 1 .. Len(s) - 1, s[j + 1] = Leave(r) PROVE FALSE
        BY <1>1
      <4>1. j + 1 < 1
        BY <1>2, <2>1
      <4>2. QED
        BY <4>1
    <3>2. QED
      BY <1>1, <2>1, <3>1
  <2>2. CASE i # 1
    <3>1. i - 1 \in 1 .. Len(s) - 1 /\ t[i - 1] = Join(r)
      BY <1>1, <1>2, <2>2
    <3>2. ASSUME NEW j \in 1 .. Len(s) - 1, t[j] = Leave(r)
          PROVE  j < i - 1
      <4>1. j + 1 < i
        BY <1>1, <1>2, <3>2
      <4>2. QED
        BY <4>1
    <3>3. QED
      BY <1>1, <3>1, <3>2
  <2>3. QED
    BY <2>1, <2>2
<1>9. Head(s) = Join(r) => Joined(s) \/ Left(t)
  <2> SUFFICES ASSUME Head(s) = Join(r), ~Left(t) PROVE Joined(s)
    OBVIOUS
  <2>1. Head(s) # Leave(r)
    BY ActionsDiffer
  <2>2. \A j \in 1 .. Len(s) : s[j] # Leave(r)
    BY <1>1, <1>6, <2>1
  <2>3. QED
    BY <1>1, <1>2, <2>2
<1>10. Join(r) # Leave(r)
  BY ActionsDiffer
<1> HIDE DEF Joined, Left
<1>11. r \in Result(t, Q) <=> r \in Result(s, R)
  BY <1>5, <1>6, <1>7, <1>8, <1>9, <1>10
<1>12. QED
  BY <1>11

LEMMA ResultTail ==
  ASSUME NEW s \in Seq(Actions \cup {Announce}), s # << >>, NEW R \in SUBSET Room
  PROVE  /\ Head(s) = Announce => Result(Tail(s), R) = Result(s, R)
         /\ \A q \in Room :
              /\ Head(s) = Join(q) => Result(Tail(s), R \cup {q}) = Result(s, R)
              /\ Head(s) = Leave(q) => Result(Tail(s), R \ {q}) = Result(s, R)
<1>1. \A Q : Result(Tail(s), Q) \subseteq Room /\ Result(s, R) \subseteq Room
  BY ResultRooms
<1>2. ASSUME Head(s) = Announce
      PROVE  Result(Tail(s), R) = Result(s, R)
  <2>1. \A r \in Room : r \in Result(Tail(s), R) <=> r \in Result(s, R)
    BY <1>2, TailDecides, ActionsDiffer
  <2>2. QED
    BY <1>1, <2>1
<1>3. ASSUME NEW q \in Room, Head(s) = Join(q)
      PROVE  Result(Tail(s), R \cup {q}) = Result(s, R)
  <2>1. ASSUME NEW r \in Room
        PROVE  r \in Result(Tail(s), R \cup {q}) <=> r \in Result(s, R)
    <3>1. /\ Head(s) # Leave(r) /\ (Head(s) = Join(r) => r = q)
          /\ R \cup {q} \in SUBSET Room
      BY <1>3, ActionsDiffer
    <3>2. QED
      BY <1>3, <3>1, TailDecides
  <2>2. QED
    BY <1>1, <2>1
<1>4. ASSUME NEW q \in Room, Head(s) = Leave(q)
      PROVE  Result(Tail(s), R \ {q}) = Result(s, R)
  <2>1. ASSUME NEW r \in Room
        PROVE  r \in Result(Tail(s), R \ {q}) <=> r \in Result(s, R)
    <3>1. /\ Head(s) # Join(r) /\ (Head(s) = Leave(r) => r = q)
          /\ R \ {q} \in SUBSET Room
      BY <1>4, ActionsDiffer
    <3>2. QED
      BY <1>4, <3>1, TailDecides
  <2>2. QED
    BY <1>1, <2>1
<1>5. QED
  BY <1>2, <1>3, <1>4

(* From an empty set, the tail of a sequence leads to no more than all.    *)
LEMMA TailFromNothing ==
  ASSUME NEW s \in Seq(Actions \cup {Announce}), s # << >>
  PROVE  Result(Tail(s), {}) \subseteq Result(s, {})
<1>1. Head(s) \in Actions \cup {Announce}
  BY InTail
<1>2. CASE Head(s) = Announce
  BY <1>2, ResultTail
<1>3. CASE Head(s) \in Actions
  <2>1. PICK q \in Room : Head(s) = Join(q) \/ Head(s) = Leave(q)
    BY <1>3, ActionIs
  <2>2. Result(Tail(s), {} \cup {q}) = Result(s, {}) \/ Result(Tail(s), {} \ {q}) = Result(s, {})
    BY <2>1, ResultTail
  <2>3. /\ Result(Tail(s), {}) \subseteq Result(Tail(s), {} \cup {q})
        /\ {} \ {q} = {}
    BY ResultGrows
  <2>4. QED
    BY <2>2, <2>3
<1>4. QED
  BY <1>1, <1>2, <1>3

----------------------------------------------------------------------------
(* The rooms of the client and those of the server                         *)

LEMMA FollowInit == Init => FollowInv
<1> SUFFICES ASSUME Init PROVE FollowInv
  OBVIOUS
<1>1. outbox = << >> /\ srvRooms = {} /\ rooms = {} /\ srv = "none"
  BY DEF Init
<1>2. Result(<< >>, {}) = {}
  BY ResultEmpty
<1>3. QED
  BY <1>1, <1>2 DEF FollowInv

(* The rooms and what is sent about them stay.                             *)
LEMMA FollowKept ==
  ASSUME FollowInv, UNCHANGED <<outbox, srvRooms, rooms>>,
         srv' # "ready" => srv # "ready",
         cstate' = "Online" /\ srv' = "ready" =>
           \/ rejoin' = rooms
           \/ /\ cstate = "Online" /\ srv = "ready"
              /\ \A r \in Room : r \in rejoin \/ Join(r) \in In(ipc) =>
                                 r \in rejoin' \/ Join(r) \in In(ipc'),
         rooms \subseteq Room
  PROVE  FollowInv'
<1>1. outbox' = outbox /\ srvRooms' = srvRooms /\ rooms' = rooms
  OBVIOUS
<1>2. /\ srv' # "ready" => srvRooms' = {}
      /\ Result(outbox', srvRooms') \subseteq rooms'
  BY <1>1 DEF FollowInv
<1>3. ASSUME cstate' = "Online", srv' = "ready", NEW r \in rooms
      PROVE  r \in Result(outbox', srvRooms') \/ r \in rejoin' \/ Join(r) \in In(ipc')
  BY <1>1, <1>3 DEF FollowInv
<1>4. QED
  BY <1>1, <1>2, <1>3 DEF FollowInv

(* Whoever is not ready at the server is in no room there.                 *)
LEMMA FollowNotReady ==
  ASSUME srv' # "ready", srvRooms' = {}, Result(outbox', {}) \subseteq rooms'
  PROVE  FollowInv'
<1>1. Result(outbox', srvRooms') \subseteq rooms'
  BY Zenon
<1>2. QED
  BY <1>1 DEF FollowInv

LEMMA FollowLoop ==
  ASSUME TypeOK, ConnInv, FollowInv, Loop
  PROVE  FollowInv'
<1> USE DEF TypeOK
<1>1. CASE HandshakeDone
  <2>1. srv = "none" /\ outbox = << >>
    BY <1>1 DEF HandshakeDone, ConnInv, ClosedInv
  <2>2. srvRooms = {} /\ outbox' = << >> /\ srv' # "ready" /\ srvRooms' = {}
    BY <1>1, <2>1 DEF HandshakeDone, FollowInv
  <2>3. Result(<< >>, {}) = {}
    BY ResultEmpty
  <2>4. QED
    BY <2>2, <2>3, FollowNotReady
<1>2. CASE OnReconnectTimer \/ OnClosePacket
  <2>1. srv' # "ready" /\ outbox' = << >> /\ srvRooms' = {}
    BY <1>2 DEF OnReconnectTimer, OnClosePacket, Disconnected
  <2>2. Result(<< >>, {}) = {}
    BY ResultEmpty
  <2>3. QED
    BY <2>1, <2>2, FollowNotReady
<1>3. CASE OnConnectPacket
  <2>1. status = 0
    <3>1. "connect" \in In(inbox)
      BY <1>3, ReceiveType DEF OnConnectPacket, Packets
    <3>2. QED
      BY <3>1 DEF ConnInv, GreetInv
  <2>2. outbox' = Append(outbox, Announce)
        /\ UNCHANGED <<cstate, rejoin, rooms, ipc, srv, srvRooms>>
    BY <1>3, <2>1 DEF OnConnectPacket
  <2>3. Result(outbox', srvRooms) = Result(outbox, srvRooms)
    BY <2>2, ResultAnnounce
  <2>4. QED
    BY <2>2, <2>3 DEF FollowInv
<1>4. CASE OnAnnounced
  <2>1. UNCHANGED <<rooms, ipc, outbox, srv, srvRooms>>
    BY <1>4 DEF OnAnnounced
  <2>2. \/ cstate' = "Online" /\ rejoin' = rooms
        \/ cstate' = cstate /\ rejoin' = rejoin
    BY <1>4, GoOnlineType DEF OnAnnounced
  <2>3. rooms \subseteq Room
    OBVIOUS
  <2>4. QED
    BY <2>1, <2>2, <2>3, FollowKept
<1>5. CASE OnDenied
  <2>1. UNCHANGED <<rooms, ipc, rejoin, outbox, srv, srvRooms>>
    BY <1>5 DEF OnDenied
  <2>2. cstate' = "Error" \/ cstate' = cstate
    BY <1>5, SetErrorType DEF OnDenied
  <2>3. rooms \subseteq Room
    OBVIOUS
  <2>4. QED
    BY <2>1, <2>2, <2>3, FollowKept
<1>6. CASE OnDisconnectPacket
  <2>1. UNCHANGED <<cstate, rooms, ipc, rejoin, outbox, srv, srvRooms>>
    BY <1>6 DEF OnDisconnectPacket, client, threads
  <2>2. rooms \subseteq Room
    OBVIOUS
  <2>3. QED
    BY <2>1, <2>2, FollowKept
<1>7. CASE RunAction
  <2> DEFINE a == Head(ipc)
  <2>1. /\ a \in Actions /\ In(ipc) = {a} \cup In(ipc')
        /\ UNCHANGED <<cstate, sock, rejoin, srv, srvRooms>>
    BY <1>7, InTail DEF RunAction
  <2>2. rooms' = IF a.op = "join" THEN rooms \cup {a.room} ELSE rooms \ {a.room}
    BY <1>7 DEF RunAction
  <2>3. PICK q \in Room :
          \/ a = Join(q) /\ rooms' = rooms \cup {q}
          \/ a = Leave(q) /\ rooms' = rooms \ {q}
    <3>1. PICK r \in Room : r = a.room
      BY <2>1, ActionIs
    <3>2. CASE a.op = "join"
      <4>1. a = Join(r) /\ rooms' = rooms \cup {r}
        BY <2>1, <2>2, <3>1, <3>2, ActionIs
      <4>2. QED
        BY <4>1
    <3>3. CASE a.op # "join"
      <4>1. a = Leave(r) /\ rooms' = rooms \ {r}
        BY <2>1, <2>2, <3>1, <3>3, ActionIs
      <4>2. QED
        BY <4>1
    <3>4. QED
      BY <3>2, <3>3
  <2>4. CASE sock = "open"
    <3>1. outbox' = Append(outbox, a) /\ outbox \in Seq(Actions \cup {Announce})
      BY <1>7, <2>4 DEF RunAction
    <3>2. /\ a = Join(q) => Result(outbox', srvRooms) = Result(outbox, srvRooms) \cup {q}
          /\ a = Leave(q) => Result(outbox', srvRooms) = Result(outbox, srvRooms) \ {q}
      <4>1. srvRooms \in SUBSET Room
        OBVIOUS
      <4>2. /\ Result(Append(outbox, Join(q)), srvRooms) = Result(outbox, srvRooms) \cup {q}
            /\ Result(Append(outbox, Leave(q)), srvRooms) = Result(outbox, srvRooms) \ {q}
        BY <3>1, <4>1, ResultAppend
      <4>3. QED
        BY <3>1, <4>2, Zenon
    <3>3. \A r \in Room : Join(r) = a => a = Join(q) /\ r = q
      BY <2>3, ActionsDiffer
    <3>4. Result(outbox', srvRooms) \subseteq rooms'
      BY <2>3, <3>2 DEF FollowInv
    <3>5. ASSUME cstate = "Online", srv = "ready", NEW r \in rooms'
          PROVE  r \in Result(outbox', srvRooms) \/ r \in rejoin \/ Join(r) \in In(ipc')
      <4>1. CASE r = q
        BY <2>3, <3>2, <3>5, <4>1
      <4>2. CASE r # q
        <5>1. r \in rooms /\ r \in Room /\ Join(r) # a
          BY <2>3, <3>3, <3>5, <4>2
        <5>2. r \in Result(outbox, srvRooms) \/ r \in rejoin \/ Join(r) \in In(ipc)
          BY <3>5, <5>1 DEF FollowInv
        <5>3. QED
          BY <2>1, <2>3, <3>2, <4>2, <5>1, <5>2
      <4>3. QED
        BY <4>1, <4>2
    <3>6. QED
      BY <2>1, <3>4, <3>5 DEF FollowInv
  <2>5. CASE sock # "open"
    <3>1. outbox' = outbox
      BY <1>7, <2>5 DEF RunAction
    <3>2. srv' # "ready" /\ srvRooms' = {} /\ outbox' = << >>
      BY <2>1, <2>5, <3>1 DEF ConnInv, ClosedInv, FollowInv
    <3>3. Result(<< >>, {}) = {}
      BY ResultEmpty
    <3>4. QED
      BY <3>2, <3>3, FollowNotReady
  <2>6. QED
    BY <2>4, <2>5
<1>8. ASSUME NEW r \in Room, PushRejoin(r)
      PROVE  FollowInv'
  <2>1. UNCHANGED <<cstate, rooms, outbox, srv, srvRooms>> /\ rejoin' = rejoin \ {r}
    BY <1>8 DEF PushRejoin, server
  <2>2. ipc' = Append(ipc, Join(r)) /\ Join(r) \in Actions
    BY <1>8, ActionsDiffer DEF PushRejoin, Join
  <2>3. In(ipc') = In(ipc) \cup {Join(r)}
    BY <2>2, InAppend
  <2>4. rooms \subseteq Room
    OBVIOUS
  <2>5. QED
    BY <2>1, <2>3, <2>4, FollowKept
<1>9. QED
  BY <1>1, <1>2, <1>3, <1>4, <1>5, <1>6, <1>7, <1>8 DEF Loop

LEMMA FollowServer ==
  ASSUME TypeOK, ConnInv, FollowInv,
         Server \/ ServerTimeout \/ ServerDeny \/ \E p \in {"disconnect", "close"} : ServerKick(p)
  PROVE  FollowInv'
<1> USE DEF TypeOK
<1>1. UNCHANGED <<cstate, rooms, rejoin, ipc>>
  BY DEF Server, ServerAuthorize, ServerAccept, ServerAnswer, ServerTake, ServerTimeout,
         ServerDeny, ServerKick, ServerReply, client, threads
<1>2. CASE ServerTimeout \/ ServerAccept \/ ServerDeny
  <2>1. srv # "ready" /\ srv' # "ready" /\ UNCHANGED <<outbox, srvRooms>>
    BY <1>2 DEF ServerTimeout, ServerAccept, ServerDeny, ServerReply
  <2>2. rooms \subseteq Room
    OBVIOUS
  <2>3. QED
    BY <1>1, <2>1, <2>2, FollowKept
<1>3. CASE ServerAnswer
  <2>1. srv # "ready" /\ UNCHANGED <<outbox, srvRooms>> /\ cstate # "Online"
    BY <1>3 DEF ServerAnswer, ServerReply, ConnInv, ClosedInv, OnlineIsAnnounced
  <2>2. /\ srv' # "ready" => srvRooms' = {}
        /\ Result(outbox', srvRooms') \subseteq rooms'
    BY <1>1, <2>1 DEF FollowInv
  <2>3. QED
    BY <1>1, <2>1, <2>2 DEF FollowInv
<1>4. CASE ServerAuthorize \/ (ServerTake /\ srv # "ready")
  <2>1. /\ outbox # << >> /\ outbox' = Tail(outbox) /\ srvRooms' = srvRooms
        /\ srv # "ready" /\ srv' # "ready"
    BY <1>4 DEF ServerAuthorize, ServerTake, ServerReply
  <2>2. srvRooms = {} /\ Result(outbox, {}) \subseteq rooms
    BY <2>1 DEF FollowInv
  <2>3. Result(Tail(outbox), {}) \subseteq Result(outbox, {})
    BY <2>1, TailFromNothing
  <2>4. QED
    BY <1>1, <2>1, <2>2, <2>3, FollowNotReady
<1>5. CASE ServerTake /\ srv = "ready"
  <2> DEFINE a == Head(outbox)
  <2>1. /\ outbox # << >> /\ outbox' = Tail(outbox) /\ srv' = srv
        /\ srvRooms' = IF a.op = "join" THEN srvRooms \cup {a.room} ELSE srvRooms \ {a.room}
    BY <1>5 DEF ServerTake, ServerReply
  <2>2. a \in Actions
    <3>1. a \in Actions \cup {Announce}
      BY <2>1, InTail
    <3>2. a # Announce
      <4>1. Announce \notin In(outbox) /\ a \in In(outbox)
        BY <1>5, <2>1, InTail DEF ConnInv, AnnounceInv
      <4>2. QED
        BY <4>1
    <3>3. QED
      BY <3>1, <3>2
  <2>3. Result(outbox', srvRooms') = Result(outbox, srvRooms)
    <3>1. a.room \in Room /\ srvRooms \in SUBSET Room
      BY <2>2, ActionIs
    <3>2. \/ a = Join(a.room) /\ srvRooms' = srvRooms \cup {a.room}
          \/ a = Leave(a.room) /\ srvRooms' = srvRooms \ {a.room}
      <4>1. CASE a.op = "join"
        BY <2>1, <2>2, <4>1, ActionIs
      <4>2. CASE a.op # "join"
        BY <2>1, <2>2, <4>2, ActionIs
      <4>3. QED
        BY <4>1, <4>2
    <3>3. outbox \in Seq(Actions \cup {Announce}) /\ outbox # << >>
      BY <2>1
    <3>4. PICK q \in Room : q = a.room
      BY <3>1
    <3>5. /\ a = Join(q) => Result(Tail(outbox), srvRooms \cup {q}) = Result(outbox, srvRooms)
          /\ a = Leave(q) => Result(Tail(outbox), srvRooms \ {q}) = Result(outbox, srvRooms)
      BY <3>1, <3>3, ResultTail
    <3>6. QED
      BY <2>1, <3>2, <3>4, <3>5
  <2>4. QED
    BY <1>1, <1>5, <2>1, <2>3 DEF FollowInv
<1>6. ASSUME NEW p \in {"disconnect", "close"}, ServerKick(p)
      PROVE  FollowInv'
  <2>1. srv' = "gone" /\ srvRooms' = {} /\ outbox' = outbox
    BY <1>6 DEF ServerKick, ServerReply
  <2>2. Result(outbox, {}) \subseteq Result(outbox, srvRooms)
    BY ResultGrows
  <2>3. Result(outbox', {}) \subseteq rooms'
    BY <1>1, <2>1, <2>2 DEF FollowInv
  <2>4. QED
    BY <2>1, <2>3, FollowNotReady
<1>7. QED
  BY <1>2, <1>3, <1>4, <1>5, <1>6 DEF Server

LEMMA FollowStep == TypeOK /\ ConnInv /\ FollowInv /\ [Next]_vars => FollowInv'
<1> SUFFICES ASSUME TypeOK, ConnInv, FollowInv, [Next]_vars PROVE FollowInv'
  OBVIOUS
<1>1. rooms \subseteq Room
  BY DEF TypeOK
<1>2. CASE SocketError
  <2>1. srv' # "ready" /\ outbox' = << >> /\ srvRooms' = {}
    BY <1>2 DEF SocketError, Disconnected
  <2>2. Result(<< >>, {}) = {}
    BY ResultEmpty
  <2>3. QED
    BY <2>1, <2>2, FollowNotReady
<1>3. ASSUME NEW c \in txns, AnnounceTimeout(c)
      PROVE  FollowInv'
  <2>1. cstate' = "Error" /\ UNCHANGED <<rooms, rejoin, ipc, outbox, srv, srvRooms>>
    BY <1>3, SetErrorType DEF AnnounceTimeout, server
  <2>2. QED
    BY <1>1, <2>1, FollowKept
<1>4. ASSUME NEW r \in Room, Call(r)
      PROVE  FollowInv'
  <2>1. UNCHANGED <<cstate, rooms, rejoin, ipc, outbox, srv, srvRooms>>
    BY <1>4 DEF Call, client, server
  <2>2. QED
    BY <1>1, <2>1, FollowKept
<1>5. CASE PushAction
  <2>1. UNCHANGED <<cstate, rooms, rejoin, outbox, srv, srvRooms>>
    BY <1>5 DEF PushAction, client, server
  <2>2. ipc' = Append(ipc, app) /\ app \in Actions /\ ipc \in Seq(Actions)
    BY <1>5 DEF PushAction, TypeOK
  <2>3. In(ipc') = In(ipc) \cup {app}
    BY <2>2, InAppend
  <2>4. QED
    BY <1>1, <2>1, <2>3, FollowKept
<1>6. CASE UNCHANGED vars
  <2>1. UNCHANGED <<cstate, rooms, rejoin, ipc, outbox, srv, srvRooms>>
    BY <1>6 DEF vars, client, threads, server
  <2>2. QED
    BY <1>1, <2>1, FollowKept
<1>7. QED
  BY <1>2, <1>3, <1>4, <1>5, <1>6, FollowLoop, FollowServer DEF Next, Environment, Application

(* Once all is handled, the server has the client in exactly the rooms its *)
(* Symple client believes it is in.                                        *)
THEOREM RoomsAgree == Spec => []RoomsFollow
<1>1. ConnInv => SpentInv
  BY DEF ConnInv
<1>2. TypeOK /\ FollowInv => RoomsFollow
  <2> SUFFICES ASSUME TypeOK, FollowInv, cstate = "Online", srv = "ready", Settled
               PROVE  srvRooms = rooms
    BY DEF RoomsFollow
  <2>1. Result(outbox, srvRooms) = srvRooms
    BY ResultEmpty DEF Settled, TypeOK
  <2>2. rejoin = {} /\ In(ipc) = {}
    BY InEmpty DEF Settled
  <2>3. QED
    BY <2>1, <2>2 DEF FollowInv
<1>3. QED
  BY <1>1, <1>2, TypeInit, TypeStep, ConnStep, FollowInit, FollowStep, PTL DEF Spec

----------------------------------------------------------------------------
(* The first connection                                                    *)

LEMMA FirstInit == Init => FirstInv
<1> SUFFICES ASSUME Init PROVE FirstInv
  OBVIOUS
<1>1. /\ rejoin = {} /\ sock = "connecting" /\ cstate = "Connecting" /\ txns = {}
      /\ rooms = {} /\ ipc = << >> /\ app = Idle /\ wanted = {} /\ online = FALSE
  BY DEF Init
<1>2. QED
  BY <1>1 DEF FirstInv

(* Nothing changes that the application and the rooms are about.           *)
LEMMA FirstKept ==
  ASSUME FirstInv, UNCHANGED <<conn, rooms, ipc, app, wanted>>,
         conn = 1 => rejoin' = {},
         (cstate' = cstate /\ online' = online) \/ cstate' \notin {"Connecting", "Connected"},
         sock' # "connecting" \/ (sock' = sock /\ cstate' = cstate /\ txns' = txns),
         sock' = "open" => sock = "open"
  PROVE  FirstInv'
<1>1. /\ conn' = conn /\ rooms' = rooms /\ ipc' = ipc /\ app' = app /\ wanted' = wanted
      /\ Decided' = Decided
  BY DEF Decided
<1>2. QED
  BY <1>1 DEF FirstInv

(* What is sent has been decided on.                                       *)
LEMMA DecidedSeq ==
  ASSUME TypeOK
  PROVE  /\ ipc \in Seq(Actions \cup {Announce}) /\ Decided \in Seq(Actions \cup {Announce})
         /\ ipc # << >> => /\ Decided # << >> /\ Head(Decided) = Head(ipc)
                           /\ Tail(Decided) = IF app = Idle THEN Tail(ipc)
                                                            ELSE Append(Tail(ipc), app)
<1>1. ipc \in Seq(Actions) /\ (app = Idle \/ app \in Actions)
  BY DEF TypeOK
<1>2. ipc \in Seq(Actions \cup {Announce})
  BY <1>1
<1>3. CASE app = Idle
  BY <1>2, <1>3 DEF Decided
<1>4. CASE app # Idle
  <2>1. PICK a \in Actions \cup {Announce} : a = app
    BY <1>1, <1>4
  <2>2. Decided = Append(ipc, a)
    BY <1>4, <2>1 DEF Decided
  <2>3. Append(ipc, a) \in Seq(Actions \cup {Announce})
    BY <1>2, InAppend
  <2>4. ASSUME ipc # << >>
        PROVE  /\ Append(ipc, a) # << >> /\ Head(Append(ipc, a)) = Head(ipc)
               /\ Tail(Append(ipc, a)) = Append(Tail(ipc), a)
    BY <1>2, <2>4
  <2>5. QED
    BY <1>2, <1>4, <2>1, <2>2, <2>3, <2>4
<1>5. QED
  BY <1>3, <1>4

LEMMA FirstLoop ==
  ASSUME TypeOK, ConnInv, FirstInv, Loop
  PROVE  FirstInv'
<1>1. CASE HandshakeDone
  <2> SUFFICES ASSUME conn' = 1 PROVE FirstInv'
    BY DEF FirstInv
  <2>1. /\ sock = "connecting" /\ sock' = "open" /\ cstate' = "Connected"
        /\ UNCHANGED <<rooms, conn, rejoin, ipc, app, wanted, online>>
    BY <1>1 DEF HandshakeDone, threads
  <2>2. /\ rejoin = {} /\ rooms = {} /\ ipc = << >> /\ app = Idle /\ wanted = {} /\ ~online
    BY <2>1 DEF FirstInv
  <2>3. Decided' = << >> /\ Result(<< >>, {}) = {}
    BY <2>1, <2>2, ResultEmpty DEF Decided
  <2>4. Result(Decided', rooms') = wanted'
    BY <2>1, <2>2, <2>3, Zenon
  <2>5. QED
    BY <2>1, <2>2, <2>4 DEF FirstInv
<1>2. CASE OnReconnectTimer
  <2>1. conn' # 1
    BY <1>2 DEF OnReconnectTimer, TypeOK
  <2>2. QED
    BY <2>1 DEF FirstInv
<1>3. CASE OnClosePacket
  <2>1. /\ sock' = "closed" /\ rooms' = {}
        /\ UNCHANGED <<cstate, conn, rejoin, ipc, app, wanted, online>>
    BY <1>3 DEF OnClosePacket, Reset, threads
  <2>2. QED
    BY <2>1 DEF FirstInv
<1>4. CASE OnConnectPacket \/ OnAnnounced
  <2>1. inbox # << >>
    BY <1>4 DEF OnConnectPacket, OnAnnounced, Receive
  <2>2. sock = "open"
    BY <2>1 DEF ConnInv, ClosedInv
  <2>3. UNCHANGED <<sock, conn, rooms, ipc, app, wanted>>
    BY <1>4 DEF OnConnectPacket, OnAnnounced
  <2>4. GoOnline \/ UNCHANGED <<cstate, online, rejoin>>
    BY <1>4 DEF OnConnectPacket, OnAnnounced
  <2>5. /\ conn = 1 => rejoin' = {}
        /\ (cstate' = cstate /\ online' = online) \/ cstate' = "Online"
    BY <2>4, GoOnlineType DEF FirstInv
  <2>6. QED
    BY <2>2, <2>3, <2>5, FirstKept
<1>5. CASE OnDenied
  <2>1. inbox # << >>
    BY <1>5 DEF OnDenied, Receive
  <2>2. sock = "open"
    BY <2>1 DEF ConnInv, ClosedInv
  <2>3. UNCHANGED <<sock, conn, rooms, rejoin, ipc, app, wanted>>
    BY <1>5 DEF OnDenied
  <2>4. (cstate' = cstate /\ online' = online) \/ cstate' = "Error"
    BY <1>5, SetErrorType DEF OnDenied
  <2>5. QED
    BY <2>2, <2>3, <2>4, FirstKept DEF FirstInv
<1>6. CASE OnDisconnectPacket
  BY <1>6, FirstKept DEF OnDisconnectPacket, client, threads, FirstInv
<1>7. CASE RunAction
  <2> SUFFICES ASSUME conn' = 1 PROVE FirstInv'
    BY DEF FirstInv
  <2>1. /\ ipc # << >> /\ ipc' = Tail(ipc)
        /\ UNCHANGED <<cstate, sock, txns, conn, rejoin, online, app, wanted>>
        /\ rooms' = IF Head(ipc).op = "join" THEN rooms \cup {Head(ipc).room}
                                             ELSE rooms \ {Head(ipc).room}
    BY <1>7 DEF RunAction
  <2>2. cstate \notin {"Connecting", "Connected"}
    BY <2>1 DEF FirstInv
  <2>3. Head(ipc) \in Actions
    BY <2>1, InTail DEF TypeOK
  <2>4. Decided' = Tail(Decided)
    BY <2>1, DecidedSeq DEF Decided
  <2>5. PICK q \in Room : q = Head(ipc).room
    BY <2>3, ActionIs
  <2>6. \/ Head(Decided) = Join(q) /\ rooms' = rooms \cup {q}
        \/ Head(Decided) = Leave(q) /\ rooms' = rooms \ {q}
    <3>1. Head(Decided) = Head(ipc)
      BY <2>1, DecidedSeq
    <3>2. CASE Head(ipc).op = "join"
      BY <2>1, <2>3, <2>5, <3>1, <3>2, ActionIs
    <3>3. CASE Head(ipc).op # "join"
      BY <2>1, <2>3, <2>5, <3>1, <3>3, ActionIs
    <3>4. QED
      BY <3>2, <3>3
  <2>7. Result(Decided', rooms') = Result(Decided, rooms)
    <3>1. Decided \in Seq(Actions \cup {Announce}) /\ Decided # << >> /\ rooms \in SUBSET Room
      BY <2>1, DecidedSeq DEF TypeOK
    <3>2. /\ Head(Decided) = Join(q) => Result(Tail(Decided), rooms \cup {q}) = Result(Decided, rooms)
          /\ Head(Decided) = Leave(q) => Result(Tail(Decided), rooms \ {q}) = Result(Decided, rooms)
      BY <3>1, ResultTail
    <3>3. QED
      BY <2>4, <2>6, <3>2, Zenon
  <2>8. sock' = "open" => Result(Decided', rooms') = wanted'
    BY <2>1, <2>7 DEF FirstInv
  <2>9. QED
    BY <2>1, <2>2, <2>8 DEF FirstInv
<1>8. ASSUME NEW r \in Room, PushRejoin(r)
      PROVE  FirstInv'
  <2>1. rejoin # {} /\ conn' = conn
    BY <1>8 DEF PushRejoin
  <2>2. QED
    BY <2>1 DEF FirstInv
<1>9. QED
  BY <1>1, <1>2, <1>3, <1>4, <1>5, <1>6, <1>7, <1>8 DEF Loop

LEMMA FirstApplication ==
  ASSUME TypeOK, FirstInv, Application
  PROVE  FirstInv'
<1> SUFFICES ASSUME conn' = 1 PROVE FirstInv'
  BY DEF FirstInv
<1>1. ASSUME NEW r \in Room, Call(r)
      PROVE  FirstInv'
  <2>1. /\ app = Idle /\ online
        /\ UNCHANGED <<cstate, sock, rooms, txns, conn, rejoin, online, ipc>>
    BY <1>1 DEF Call, WaitedForOnline, client
  <2>2. \/ app' = Join(r) /\ wanted' = wanted \cup {r}
        \/ app' = Leave(r) /\ wanted' = wanted \ {r}
    BY <1>1 DEF Call, Join, Leave
  <2>3. app' \in Actions /\ app' # Idle
    BY <2>2, ActionsDiffer
  <2>4. Decided = ipc /\ Decided' = Append(ipc, app')
    BY <2>1, <2>3 DEF Decided
  <2>5. ipc \in Seq(Actions \cup {Announce}) /\ rooms \in SUBSET Room
    BY DecidedSeq DEF TypeOK
  <2>6. /\ Result(Append(ipc, Join(r)), rooms) = Result(ipc, rooms) \cup {r}
        /\ Result(Append(ipc, Leave(r)), rooms) = Result(ipc, rooms) \ {r}
    <3>1. ASSUME NEW s \in Seq(Actions \cup {Announce}), NEW R \in SUBSET Room
          PROVE  /\ Result(Append(s, Join(r)), R) = Result(s, R) \cup {r}
                 /\ Result(Append(s, Leave(r)), R) = Result(s, R) \ {r}
      <4>1. Result(Append(s, Join(r)), R) = Result(s, R) \cup {r}
        BY ResultAppend, SMTT(60)
      <4>2. Result(Append(s, Leave(r)), R) = Result(s, R) \ {r}
        BY ResultAppend, SMTT(60)
      <4>3. QED
        BY <4>1, <4>2
    <3>2. QED
      BY <2>5, <3>1, Zenon
  <2>7. \/ Result(Decided', rooms) = Result(Decided, rooms) \cup {r} /\ wanted' = wanted \cup {r}
        \/ Result(Decided', rooms) = Result(Decided, rooms) \ {r} /\ wanted' = wanted \ {r}
    BY <2>2, <2>4, <2>6, Zenon
  <2>8. sock' = "open" => Result(Decided', rooms') = wanted'
    BY <2>1, <2>7 DEF FirstInv
  <2>9. QED
    BY <2>1, <2>8 DEF FirstInv
<1>2. CASE PushAction
  <2>1. /\ app # Idle /\ app' = Idle /\ ipc' = Append(ipc, app)
        /\ UNCHANGED <<cstate, sock, rooms, txns, conn, rejoin, online, wanted>>
    BY <1>2 DEF PushAction, client
  <2>2. Decided' = Decided
    BY <2>1 DEF Decided
  <2>3. QED
    BY <2>1, <2>2 DEF FirstInv
<1>3. QED
  BY <1>1, <1>2 DEF Application

LEMMA FirstStep == TypeOK /\ ConnInv /\ FirstInv /\ [Next]_vars => FirstInv'
<1> SUFFICES ASSUME TypeOK, ConnInv, FirstInv, [Next]_vars PROVE FirstInv'
  OBVIOUS
<1>1. CASE SocketError
  <2>1. sock' = "closed" /\ cstate' = "Error"
        /\ UNCHANGED <<rooms, conn, rejoin, ipc, app, wanted>>
    BY <1>1, SetErrorType DEF SocketError
  <2>2. QED
    BY <2>1, FirstKept DEF FirstInv
<1>2. ASSUME NEW c \in txns, AnnounceTimeout(c)
      PROVE  FirstInv'
  <2>1. cstate' = "Error" /\ UNCHANGED <<sock, rooms, conn, rejoin, ipc, app, wanted>>
    BY <1>2, SetErrorType DEF AnnounceTimeout
  <2>2. conn = 1 => sock # "connecting"
    BY DEF FirstInv
  <2>3. CASE conn = 1
    BY <2>1, <2>2, <2>3, FirstKept DEF FirstInv
  <2>4. CASE conn # 1
    BY <2>1, <2>4 DEF FirstInv
  <2>5. QED
    BY <2>3, <2>4
<1>3. CASE \/ Server \/ ServerTimeout \/ ServerDeny
           \/ \E p \in {"disconnect", "close"} : ServerKick(p)
  <2>1. UNCHANGED <<cstate, sock, rooms, txns, conn, rejoin, online, ipc, app, wanted>>
    BY <1>3 DEF Server, ServerAuthorize, ServerAccept, ServerAnswer, ServerTake, ServerTimeout,
                ServerDeny, ServerKick, ServerReply, client, threads
  <2>2. QED
    BY <2>1, FirstKept DEF FirstInv
<1>4. CASE UNCHANGED vars
  BY <1>4, FirstKept DEF vars, client, threads, FirstInv
<1>5. QED
  BY <1>1, <1>2, <1>3, <1>4, FirstLoop, FirstApplication DEF Next, Environment

(* On the first connection these are also the rooms the application is in. *)
THEOREM FirstRooms == Spec => []FirstConnectionRooms
<1>1. ConnInv => SpentInv
  BY DEF ConnInv
<1>2. TypeOK /\ ConnInv /\ FirstInv => FirstConnectionRooms
  <2> SUFFICES ASSUME TypeOK, ConnInv, FirstInv, conn = 1, srv = "ready", ipc = << >>,
                      app = Idle
               PROVE  rooms = wanted
    BY DEF FirstConnectionRooms, Settled
  <2>1. sock = "open"
    BY DEF ConnInv, ClosedInv
  <2>2. Decided = << >> /\ Result(<< >>, rooms) = rooms
    BY ResultEmpty DEF Decided, TypeOK
  <2>3. QED
    BY <2>1, <2>2 DEF FirstInv
<1>3. QED
  BY <1>1, <1>2, TypeInit, TypeStep, ConnStep, FirstInit, FirstStep, PTL DEF Spec
============================================================================
