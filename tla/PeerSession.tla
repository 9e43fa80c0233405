---------------------------- MODULE PeerSession ----------------------------
(***************************************************************************)
(* How two members of a room get a WebRTC connection to each other:        *)
(* createPC, joinRoomWS, leaveRoomWS, onClosed and the signaling callbacks *)
(* of yamb/src/WebrtcNode.cpp, yamb/webrtc/peermanager.cpp and             *)
(* yamb/webrtc/peer.cpp.                                                   *)
(*                                                                         *)
(* Each node keeps its peer connection twice: PeerManager maps the peer's  *)
(* id to it, and PeersInRoom of the room's unit maps the same id to it for *)
(* the thread that sends messages.  The loop thread handles the signaling  *)
(* messages and runs the callbacks of peer connections, since it is also   *)
(* WebRTC's signaling thread; the application's joins and leaves.          *)
(*                                                                         *)
(* The signaler introduces members to each other and relays their          *)
(* messages in order.  WebRTC itself is external: two connections that     *)
(* hold each other's descriptions may open their data channels, a          *)
(* connection with a remote description may fail, and the callbacks of one *)
(* connection come in the order they were asked for.  The System messages  *)
(* that onCreatedConnection and onClosed queue are left out.               *)
(*                                                                         *)
(* MaxFail, MaxLeaves, MaxIntros and MaxCands bound the failures, the      *)
(* departures, the introductions, and the candidates of one connection.    *)
(***************************************************************************)
EXTENDS Naturals, Sequences

CONSTANTS Node, MaxFail, MaxLeaves, MaxIntros, MaxCands

ASSUME TwoNodes == \E a, b \in Node : a # b /\ Node = {a, b}
ASSUME BoundsAssumption == {MaxFail, MaxLeaves, MaxIntros, MaxCands} \subseteq Nat

VARIABLES
  weoffer,  \* the nodes whose createPC computes weoffer for the other one
  member,   \* the nodes whose room manager has the room
  manager,  \* PeerManager: the number of the connection, 0 if there is none
  listed,   \* PeersInRoom of the room: the same, set by addNode
  conns,    \* every connection a node made, in order
  wire,     \* signaling messages under way to a node
  aborted,  \* "no", or the assertion or exception that ended the process
  intros, fails, leaves   \* the bounded counters

counters == <<intros, fails, leaves>>
vars == <<weoffer, member, manager, listed, conns, wire, aborted, counters>>

Other(n) == CHOOSE m \in Node : m # n

\* A Peer.  local: "none", "creating" once an offer or answer was asked for,
\* "set" once it is set and sent; remote: the other end's connection whose
\* description was set, 0 for none; observing: the observer of that is not yet
\* called; sent: its own candidates; waiting: the other end's candidates in
\* _pendingCandidates that WebRTC has not got; freed: that vector also holds
\* deleted ones; open: its data channel is open; alive: it is not deleted.
NewPeer(mode) ==
  [mode |-> mode, local |-> "creating", remote |-> 0, sent |-> 0,
   observing |-> FALSE, waiting |-> 0, freed |-> FALSE, open |-> FALSE,
   destroying |-> FALSE, alive |-> TRUE]

Alive(n) == aborted[n] = "no"
Session(n) == conns[n][manager[n]]
Kinds == {"presence", "offer", "answer", "candidate"}

Send(n, kind, id) ==
  wire' = [wire EXCEPT ![Other(n)] = Append(@, [kind |-> kind, id |-> id])]
Set(n, g, c) == conns' = [conns EXCEPT ![n][g] = c]
Abort(n, why) == aborted' = [aborted EXCEPT ![n] = why]

----------------------------------------------------------------------------
Init ==
  /\ weoffer \in SUBSET Node \ {{}}
  /\ member = {}
  /\ manager = [n \in Node |-> 0]
  /\ listed = [n \in Node |-> 0]
  /\ conns = [n \in Node |-> << >>]
  /\ wire = [n \in Node |-> << >>]
  /\ aborted = [n \in Node |-> "no"]
  /\ intros = 0 /\ fails = 0 /\ leaves = 0

\* joinRoomWS: a new room unit lists nobody.
Join(n) ==
  /\ Alive(n) /\ n \notin member
  /\ member' = member \cup {n}
  /\ UNCHANGED <<weoffer, manager, listed, conns, wire, aborted, counters>>

Dangling(n) == listed[n] # 0 /\ ~conns[n][listed[n]].alive

\* leaveRoomWS: PeersInRoom is emptied first, so the onClosed it calls for each
\* peer finds no room that lists it and returns before it removes the peer.
\* A peer that was deleted is asked for its id: undefined, it may crash.
Leave(n) ==
  /\ Alive(n) /\ n \in member
  /\ leaves < MaxLeaves /\ leaves' = leaves + 1
  /\ member' = member \ {n}
  /\ listed' = [listed EXCEPT ![n] = 0]
  /\ UNCHANGED aborted \/ (Dangling(n) /\ Abort(n, "dangling"))
  /\ UNCHANGED <<weoffer, manager, conns, wire, intros, fails>>

\* The signaler tells Other(n) of n.
Introduce(n) ==
  /\ member = Node
  /\ intros < MaxIntros /\ intros' = intros + 1
  /\ Send(n, "presence", 0)
  /\ UNCHANGED <<weoffer, member, manager, listed, conns, aborted, fails, leaves>>

----------------------------------------------------------------------------
(* Signaling messages, on the loop thread.                                 *)

Receive(n, kind) ==
  /\ Alive(n) /\ wire[n] # << >> /\ Head(wire[n]).kind = kind
Taken(n) == wire' = [wire EXCEPT ![n] = Tail(@)]

\* addNode: an entry that is there is not replaced.
AddNodeCounts(n, g) == [listed EXCEPT ![n] = @ + 1]  \* slip: a count of peers
AddNodeForgets(n, g) == listed            \* slip: operator[] not assigned
AddNode(n, g) == [listed EXCEPT ![n] = IF @ = 0 THEN g ELSE @]

\* The end of both createPC: roomManager->get throws if the room was left.
AddToRoom(n, g) ==
  IF n \in member
  THEN /\ listed' = AddNode(n, g)
       /\ UNCHANGED aborted
  ELSE /\ Abort(n, "room")
       /\ UNCHANGED listed

\* createPC(peer, roomId): offer, or ask for an offer by one's own presence.
StayQuiet(n) == Taken(n)                  \* slip: "i.e. do nothing"
AskForOffer(n) ==
  wire' = [wire EXCEPT ![n] = Tail(@),
                       ![Other(n)] = Append(@, [kind |-> "presence", id |-> 0])]

OnPresence(n) ==
  /\ Receive(n, "presence")
  /\ IF manager[n] # 0
     THEN Taken(n) /\ UNCHANGED <<manager, listed, conns, aborted>>
     ELSE IF n \notin weoffer
     THEN AskForOffer(n) /\ UNCHANGED <<manager, listed, conns, aborted>>
     ELSE LET g == Len(conns[n]) + 1 IN
          /\ Taken(n)
          /\ conns' = [conns EXCEPT ![n] = Append(@, NewPeer("Offer"))]
          /\ manager' = [manager EXCEPT ![n] = g]
          /\ AddToRoom(n, g)
  /\ UNCHANGED <<weoffer, member, counters>>

\* createPC gives up an offer that meets a connection made to offer.
RefusesNobody(c) == FALSE                 \* slip: the modes are not compared
Refuses(c) == c.mode # "Answer"

Described(c, id) == [c EXCEPT !.remote = id, !.observing = TRUE]

\* onSDPOffer: createPC(Answer), then recvSDP, which asserts the mode.
OnOffer(n) ==
  /\ Receive(n, "offer")
  /\ Taken(n)
  /\ LET new == manager[n] = 0
         g == IF new THEN Len(conns[n]) + 1 ELSE manager[n]
         c == IF new THEN NewPeer("Answer") ELSE Session(n)
         answering == [Described(c, Head(wire[n]).id) EXCEPT !.local = "creating"] IN
     IF Refuses(c)
     THEN UNCHANGED <<manager, listed, conns, aborted>>
     ELSE /\ manager' = [manager EXCEPT ![n] = g]
          /\ conns' = [conns EXCEPT ![n] =
                         IF new THEN Append(@, answering) ELSE [@ EXCEPT ![g] = answering]]
          /\ IF c.mode = "Answer" THEN AddToRoom(n, g)
                                  ELSE Abort(n, "mode") /\ UNCHANGED listed
  /\ UNCHANGED <<weoffer, member, counters>>

\* onSDPAnswer: recvSDP asserts that the peer is there and was made to offer,
\* and the observer that the description could be set.
AnswerError(n) ==
  IF manager[n] = 0 THEN "peer"
  ELSE IF Session(n).mode # "Offer" THEN "mode"
  ELSE IF Session(n).local # "set" \/ Session(n).remote # 0 THEN "sdp"
  ELSE "no"

OnAnswer(n) ==
  /\ Receive(n, "answer")
  /\ Taken(n)
  /\ Abort(n, AnswerError(n))
  /\ IF AnswerError(n) = "no"
     THEN Set(n, manager[n], Described(Session(n), Head(wire[n]).id))
     ELSE UNCHANGED conns
  /\ UNCHANGED <<weoffer, member, manager, listed, counters>>

\* recvCandidate: current_remote_description() is there once both sides'
\* descriptions are set.
Current(c) == c.remote # 0 /\ c.local = "set"
KeepCandidate(c) == [c EXCEPT !.waiting = @ + 1]  \* slip: always pending
AddCandidate(c) == IF Current(c) THEN c ELSE [c EXCEPT !.waiting = @ + 1]

OnCandidate(n) ==
  /\ Receive(n, "candidate")
  /\ Taken(n)
  /\ IF manager[n] = 0
     THEN Abort(n, "peer") /\ UNCHANGED conns
     ELSE Set(n, manager[n], AddCandidate(Session(n))) /\ UNCHANGED aborted
  /\ UNCHANGED <<weoffer, member, manager, listed, counters>>

----------------------------------------------------------------------------
(* Callbacks of connection g of node n, on WebRTC's thread.                *)

\* OnSuccess of the dummy observer: a remote description is set.  The pending
\* candidates are handed over and deleted, and stay in the vector: the next
\* time they are used and deleted again, which may crash.
OnRemoteSet(n, g) ==
  LET c == conns[n][g] IN
  /\ Alive(n) /\ c.alive /\ c.observing
  /\ Set(n, g, [c EXCEPT !.observing = FALSE, !.waiting = 0,
                         !.freed = @ \/ c.waiting > 0])
  /\ UNCHANGED aborted \/ (c.freed /\ Abort(n, "freed"))
  /\ UNCHANGED <<weoffer, member, manager, listed, wire, counters>>

\* OnSuccess: the local description is ready, is set, and is sent.
OnSuccess(n, g) ==
  LET c == conns[n][g] IN
  /\ Alive(n) /\ c.alive /\ c.local = "creating" /\ ~c.observing
  /\ Set(n, g, [c EXCEPT !.local = "set"])
  /\ Send(n, IF c.mode = "Offer" THEN "offer" ELSE "answer", g)
  /\ UNCHANGED <<weoffer, member, manager, listed, aborted, counters>>

OnIceCandidate(n, g) ==
  LET c == conns[n][g] IN
  /\ Alive(n) /\ c.alive /\ c.local = "set" /\ c.sent < MaxCands
  /\ Set(n, g, [c EXCEPT !.sent = @ + 1])
  /\ Send(n, "candidate", g)
  /\ UNCHANGED <<weoffer, member, manager, listed, aborted, counters>>

Paired(n, g) ==
  LET c == conns[n][g] IN
  /\ c.remote # 0
  /\ conns[Other(n)][c.remote].remote = g

\* OnStateChange("open") of the channel, once WebRTC has connected both ends.
OnOpen(n, g) ==
  LET c == conns[n][g] IN
  /\ Alive(n) /\ c.alive /\ ~c.open /\ ~c.destroying /\ Current(c)
  /\ Paired(n, g) /\ conns[Other(n)][c.remote].alive /\ Current(conns[Other(n)][c.remote])
  /\ Set(n, g, [c EXCEPT !.open = TRUE])
  /\ UNCHANGED <<weoffer, member, manager, listed, wire, aborted, counters>>

\* OnIceConnectionChange(failed) and onClosed: if some room lists the peer's id,
\* the connection is removed from PeerManager and deleted, but stays listed.
Closed(n, g) == IF manager[n] = g THEN [manager EXCEPT ![n] = 0] ELSE manager

OnIceFailed(n, g) ==
  LET c == conns[n][g] IN
  /\ Alive(n) /\ c.alive /\ ~c.destroying /\ c.remote # 0
  /\ fails < MaxFail /\ fails' = fails + 1
  /\ IF n \in member /\ listed[n] # 0
     THEN /\ manager' = Closed(n, g)
          /\ Set(n, g, [c EXCEPT !.destroying = TRUE, !.open = FALSE,
                                 !.alive = manager[n] # g])
     ELSE /\ Set(n, g, [c EXCEPT !.destroying = TRUE, !.open = FALSE])
          /\ UNCHANGED manager
  /\ UNCHANGED <<weoffer, member, listed, wire, aborted, intros, leaves>>

----------------------------------------------------------------------------
Signaling(n) == OnPresence(n) \/ OnOffer(n) \/ OnAnswer(n) \/ OnCandidate(n)
WebRTC(n) ==
  \E g \in DOMAIN conns[n] : 
    \/ OnRemoteSet(n, g) \/ OnSuccess(n, g)
    \/ OnIceCandidate(n, g) \/ OnOpen(n, g)

Next ==
  \E n \in Node :
    \/ Join(n) \/ Leave(n) \/ Introduce(n)
    \/ OnPresence(n) \/ OnOffer(n) \/ OnAnswer(n) \/ OnCandidate(n)
    \/ \E g \in DOMAIN conns[n] :
         \/ OnRemoteSet(n, g) \/ OnSuccess(n, g) \/ OnIceCandidate(n, g)
         \/ OnOpen(n, g) \/ OnIceFailed(n, g)

Spec == Init /\ [][Next]_vars

\* Messages arrive and are handled; WebRTC calls back, and connects two ends
\* that can be connected.
Fairness ==
  \A n \in Node :
    /\ WF_vars(Signaling(n))
    /\ WF_vars(WebRTC(n))

FairSpec == Spec /\ Fairness
----------------------------------------------------------------------------
(* Properties.                                                             *)

Conns(n) == {conns[n][g] : g \in DOMAIN conns[n]}

\* The kinds and ranges of the state; both registries of a node name
\* connections the node made.
TypeOK ==
  /\ member \subseteq Node /\ weoffer \subseteq Node
  /\ \A n \in Node :
       /\ {manager[n], listed[n]} \subseteq {0} \cup DOMAIN conns[n]
       /\ \A c \in Conns(n) :
            /\ c.mode \in {"Offer", "Answer"} /\ c.local \in {"creating", "set"}
            /\ c.remote \in {0} \cup DOMAIN conns[Other(n)]
            /\ c.sent \in 0 .. MaxCands
            /\ {c.open, c.observing, c.freed, c.destroying, c.alive} \subseteq BOOLEAN
       /\ \A i \in DOMAIN wire[n] : wire[n][i].kind \in Kinds
  /\ intros \in 0 .. MaxIntros /\ fails \in 0 .. MaxFail /\ leaves \in 0 .. MaxLeaves

\* The two registries of a running member agree, except in the two ways the
\* code lets them part: a connection that failed is never taken from
\* PeersInRoom, and one that outlived a departure is not put back.
RegistriesAgree ==
  \A n \in member : Alive(n) /\ listed[n] # manager[n] =>
     IF listed[n] = 0 THEN leaves > 0 ELSE conns[n][listed[n]].destroying

\* Without a failure or a departure no order of presences, offers, answers and
\* candidates trips an assertion ("peer mismath", the modes, the observer's),
\* whoever is taken to make the offer, both nodes at once included.
AbortNeedsFailureOrLeave ==
  (\E n \in Node : ~Alive(n)) => fails + leaves > 0

\* A node that made the offer passes every candidate to WebRTC once it has the
\* answer.  (A node that answers does not: the candidates that come between
\* the offer's observer and its own answer stay in _pendingCandidates.)
OffererAddsCandidates ==
  \A n \in Node : \A c \in Conns(n) :
     c.mode = "Offer" /\ Current(c) /\ ~c.observing => c.waiting = 0

\* Both ends have a session with an open channel.
Linked ==
  \A n \in Node : manager[n] # 0 /\ Session(n).open

\* Two members of which one makes the offer, once introduced to each other,
\* get a connection open at both ends, unless something fails or one leaves.
\* (With two that both make offers the property is false: each drops the
\* other's, and later presences are ignored.)
Connects ==
  (intros > 0 /\ weoffer # Node) ~> (Linked \/ fails + leaves > 0)
=============================================================================
