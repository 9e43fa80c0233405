------------------------------- MODULE Flood -------------------------------
(***************************************************************************)
(* How an application message (MessageType::Logic) travels through a room: *)
(* yamb/src/WebrtcNode.cpp.  A node has two threads here: the loop thread  *)
(* runs Receive, the message_sender thread runs Take, SendNext and         *)
(* SendDirect; they share the queue _sMq and the room's window of hashes.  *)
(* The application's threads run Broadcast2Room and Send2Client.           *)
(*                                                                         *)
(* The set of links is fixed: every node has already met its peers, and    *)
(* only the moment at which each of its data channels opens is left open.  *)
(* A data channel is reliable and ordered.  Waiting for work and being     *)
(* woken is not modelled here: a sender with work may sleep for any time.  *)
(***************************************************************************)
EXTENDS Integers, Sequences, FiniteSets

CONSTANTS Node,     \* the members of the room
          Links,    \* pairs <<n, m>>: m is in PeersInRoom of n
          Slow,     \* the links whose channel is not open at the start
          Hash,     \* message hashes, each the hash of one message
          NoOne,    \* the absent "to" of a message
          N,        \* capacity of the hash window, 500 in the code
          MaxPuts   \* bound: hashes a node puts into its window

ASSUME LinksAssumption ==
  /\ Links \subseteq Node \X Node
  /\ \A n, m \in Node : <<n, m>> \in Links => n # m /\ <<m, n>> \in Links
  /\ Slow \subseteq Links
  /\ NoOne \notin Node

ASSUME WindowAssumption == N \in Nat \ {0}

VARIABLES
  open,      \* the links <<n, m>> on which n's data channel is open
  smq,       \* _sMq of each node: the tasks of its sender thread
  job,       \* the broadcast task each sender is busy with, and for whom
  wire,      \* the messages on each link's data channel
  seen,      \* the hashes put into LogicMsgHashesBuffer, the i-th of them
             \* into slot (i - 1) % N; only the last N are still there
  origin,    \* history: who first sent a hash
  dest,      \* history: whom it was addressed to by the application
  handled,   \* history: how often the callbacks of a node saw a hash
  passed,    \* history: how often a node took in a hash and passed it on
  redirected \* history: <<m, h>> when a copy was re-addressed to m

history == <<origin, dest, handled, passed, redirected>>
vars == <<open, smq, job, wire, seen, history>>

To == Node \cup {NoOne}
Message == [hash : Hash, to : To]
Direct(h, to) == [type |-> "direct", hash |-> h, to |-> to]
Broadcast(h, to) == [type |-> "broadcast", hash |-> h, to |-> to]
Task == [type : {"direct", "broadcast"}, hash : Hash, to : To]

NoJob == [task |-> NoOne, left |-> {}]
Peers(n) == {m \in Node : <<n, m>> \in Links}

\* CircularBuffer::isExists on a ring that only put() was called on: slot 0 is
\* not looked at (WindowIsRing).
Slot0(i) == (i - 1) % N = 0
Forgotten(n, i) == i <= Len(seen[n]) - N
Puts(n, h) == {i \in DOMAIN seen[n] : seen[n][i] = h}

IsExistsSkipsTwo(n, h) ==                         \* slip: starts too high
  \E i \in Puts(n, h) : ~Forgotten(n, i) /\ (i - 1) % N > 1
IsExists(n, h) == \E i \in Puts(n, h) : ~Forgotten(n, i) /\ ~Slot0(i)

PutHash(n, h) ==
  /\ Len(seen[n]) < MaxPuts
  /\ seen' = [seen EXCEPT ![n] = Append(@, h)]

Push(n, task) == smq' = [smq EXCEPT ![n] = Append(@, task)]

----------------------------------------------------------------------------
Init ==
  /\ open = Links \ Slow
  /\ smq = [n \in Node |-> << >>]
  /\ job = [n \in Node |-> NoJob]
  /\ wire = [l \in Links |-> << >>]
  /\ seen = [n \in Node |-> << >>]
  /\ origin = [h \in Hash |-> NoOne]
  /\ dest = [h \in Hash |-> NoOne]
  /\ handled = [n \in Node |-> [h \in Hash |-> 0]]
  /\ passed = [n \in Node |-> [h \in Hash |-> 0]]
  /\ redirected = {}

\* The data channel of n to m reaches the state "open".
OpenChannel(n, m) ==
  /\ <<n, m>> \in Links \ open
  /\ open' = open \cup {<<n, m>>}
  /\ UNCHANGED <<smq, job, wire, seen, history>>

\* formMessage makes the hash of a new message.
Originate(n, h, to) ==
  /\ origin[h] = NoOne
  /\ origin' = [origin EXCEPT ![h] = n]
  /\ dest' = [dest EXCEPT ![h] = to]
  /\ UNCHANGED <<handled, passed, redirected>>

Broadcast2Room(n, h) ==
  /\ Originate(n, h, NoOne)
  /\ PutHash(n, h)
  /\ Push(n, Broadcast(h, NoOne))
  /\ UNCHANGED <<open, job, wire>>

\* A message for a peer goes straight to it, any other to everyone.
FirstTaskDirect(n, h, to) == Direct(h, to)        \* slip: never to everyone
FirstTask(n, h, to) == IF to \in Peers(n) THEN Direct(h, to) ELSE Broadcast(h, to)

Send2Client(n, h, to) ==
  /\ Originate(n, h, to)
  /\ PutHash(n, h)
  /\ Push(n, FirstTask(n, h, to))
  /\ UNCHANGED <<open, job, wire>>

----------------------------------------------------------------------------
(* The sender thread.  Take begins a broadcast task; SendNext serves one   *)
(* more peer of it; SendDirect is a whole direct task.                     *)

Take(n) ==
  /\ job[n] = NoJob
  /\ smq[n] # << >>
  /\ Head(smq[n]).type = "broadcast"
  /\ smq' = [smq EXCEPT ![n] = Tail(@)]
  /\ job' = [job EXCEPT ![n] = IF Peers(n) = {} THEN NoJob
                               ELSE [task |-> Head(smq[n]), left |-> Peers(n)]]
  /\ UNCHANGED <<open, wire, seen, history>>

SendAddressed(n, m, h, to) ==                     \* slip: "to" overwritten
  wire' = [wire EXCEPT ![<<n, m>>] = Append(@, [hash |-> h, to |-> m])]
Send(n, m, h, to) ==
  wire' = [wire EXCEPT ![<<n, m>>] = Append(@, [hash |-> h, to |-> to])]

\* No open channel: a copy addressed to the peer itself goes to the end of the
\* queue, whoever the message was for.
SkipClosed(n, m, h) == UNCHANGED <<smq, redirected>> \* slip: peer forgotten
Redirect(n, m, h) ==
  /\ Push(n, Direct(h, m))
  /\ redirected' = redirected \cup {<<m, h>>}

SendNext(n, m) ==
  /\ job[n] # NoJob
  /\ m \in job[n].left
  /\ LET t == job[n].task
         left == job[n].left \ {m} IN
     /\ IF <<n, m>> \in open
        THEN /\ Send(n, m, t.hash, t.to)
             /\ UNCHANGED <<smq, redirected>>
        ELSE /\ Redirect(n, m, t.hash)
             /\ UNCHANGED wire
     /\ job' = [job EXCEPT ![n] = IF left = {} THEN NoJob
                                  ELSE [task |-> t, left |-> left]]
  /\ UNCHANGED <<open, seen, origin, dest, handled, passed>>

SendDirect(n) ==
  /\ job[n] = NoJob
  /\ smq[n] # << >>
  /\ LET t == Head(smq[n])
         rest == Tail(smq[n]) IN
     /\ t.type = "direct"
     /\ IF t.to \notin Peers(n)
        THEN /\ smq' = [smq EXCEPT ![n] = rest]               \* dropped
             /\ UNCHANGED wire
        ELSE IF <<n, t.to>> \in open
        THEN /\ smq' = [smq EXCEPT ![n] = rest]
             /\ Send(n, t.to, t.hash, t.to)
        ELSE /\ smq' = [smq EXCEPT ![n] = Append(rest, t)]    \* tried again
             /\ UNCHANGED wire
  /\ UNCHANGED <<open, job, seen, history>>

----------------------------------------------------------------------------
(* The loop thread: processWebRTCMessage and                               *)
(* handleWebrtcNodeMessageLogic for the next message of the link <<m, n>>. *)

\* A message for someone else is relayed to that one peer only.
RelayToAll(n, x) == Push(n, Broadcast(x.hash, x.to))  \* slip: floods it
RelayForgetsTo(n, x) == Push(n, Broadcast(x.hash, NoOne)) \* slip: no "to"
RelayDirected(n, x) == Push(n, Direct(x.hash, x.to))
RelayToRoom(n, x) == Push(n, Broadcast(x.hash, x.to))

Count(f, n, h) == [f EXCEPT ![n][h] = @ + 1]

DropDuplicate == UNCHANGED <<smq, seen, handled, passed>>

Accept(n, x) ==
  /\ PutHash(n, x.hash)
  /\ \/ /\ x.to \notin {NoOne, n}
        /\ RelayDirected(n, x)
        /\ passed' = Count(passed, n, x.hash)
        /\ UNCHANGED handled
     \/ /\ x.to = NoOne
        /\ RelayToRoom(n, x)
        /\ passed' = Count(passed, n, x.hash)
        /\ handled' = Count(handled, n, x.hash)
     \/ /\ x.to = n
        /\ handled' = Count(handled, n, x.hash)
        /\ UNCHANGED <<smq, passed>>

Receive(n, m) ==
  /\ <<m, n>> \in Links
  /\ wire[<<m, n>>] # << >>
  /\ wire' = [wire EXCEPT ![<<m, n>>] = Tail(@)]
  /\ LET x == Head(wire[<<m, n>>]) IN
     IF IsExists(n, x.hash) THEN DropDuplicate ELSE Accept(n, x)
  /\ UNCHANGED <<open, job, origin, dest, redirected>>

----------------------------------------------------------------------------
Next ==
  \/ \E n, m \in Node : OpenChannel(n, m)
  \/ \E n \in Node, h \in Hash : Broadcast2Room(n, h)
  \/ \E n, to \in Node, h \in Hash : Send2Client(n, h, to)
  \/ \E n \in Node : Take(n)
  \/ \E n, m \in Node : SendNext(n, m)
  \/ \E n \in Node : SendDirect(n)
  \/ \E n, m \in Node : Receive(n, m)

Spec == Init /\ [][Next]_vars

----------------------------------------------------------------------------
TypeOK ==
  /\ open \subseteq Links
  /\ smq \in [Node -> Seq(Task)]
  /\ job \in [Node -> [task : Task \cup {NoOne}, left : SUBSET Node]]
  /\ \A n \in Node : job[n] # NoJob => /\ job[n].task \in Task
                                      /\ job[n].left \subseteq Peers(n)
  /\ wire \in [Links -> Seq(Message)]
  /\ seen \in [Node -> Seq(Hash)]
  /\ origin \in [Hash -> To]
  /\ dest \in [Hash -> To]
  /\ handled \in [Node -> [Hash -> Nat]]
  /\ passed \in [Node -> [Hash -> Nat]]
  /\ redirected \subseteq Node \X Hash

(* Around whatever cycles the room has, a node passes a message on and     *)
(* hands it to the callbacks once, and its originator never does, except   *)
(* once more for each time it had put the hash where isExists does not     *)
(* find it later: into slot 0, or before N others.                         *)
Unseen(n, h) ==
  {i \in Puts(n, h) : \E j \in Puts(n, h) : j > i /\ (Slot0(i) \/ j - i > N)}

OnceSaveUnseen ==
  \A n \in Node, h \in Hash :
    LET limit == (IF origin[h] = n THEN 0 ELSE 1) + Cardinality(Unseen(n, h))
    IN handled[n][h] <= limit /\ passed[n][h] <= limit

(* A message sent to one member reaches the callbacks of another only if   *)
(* the sender thread re-addressed a copy to that other member, because its *)
(* channel was not open yet.                                               *)
MisdeliveredOnlyByRedirect ==
  \A n \in Node, h \in Hash :
    handled[n][h] > 0 /\ dest[h] \notin {NoOne, n} => <<n, h>> \in redirected

(* A message sent to one member is not flooded: besides that member only   *)
(* the peers of its originator ever take it in.                            *)
DirectedStaysNear ==
  \A n \in Node, h \in Hash :
    dest[h] # NoOne /\ handled[n][h] + passed[n][h] > 0
      => n = dest[h] \/ n \in Peers(origin[h])

(* The flood of a message stops at a node only because the copy it took in *)
(* was re-addressed to it.                                                 *)
StoppedOnlyByRedirect ==
  \A n \in Node, h \in Hash :
    dest[h] = NoOne /\ handled[n][h] > passed[n][h] => <<n, h>> \in redirected

Quiet ==
  /\ \A n \in Node : smq[n] = << >> /\ job[n] = NoJob
  /\ \A l \in Links : wire[l] = << >>

(* Once nothing is queued or on the way, every peer of every node that     *)
(* flooded a message has handled it, whenever the channels opened.         *)
(* Together with StoppedOnlyByRedirect: a flood that met no closed channel *)
(* reached everybody its originator is connected to.                       *)
FloodReachesPeers ==
  Quiet =>
    \A n, m \in Node, h \in Hash :
      /\ dest[h] = NoOne
      /\ origin[h] = n \/ passed[n][h] > 0
      /\ m \in Peers(n)
      => handled[m][h] > 0 \/ origin[h] = m

(* Once nothing is queued or on the way, a message for a peer, or for a    *)
(* peer of a peer to whom the originator's channel was open, was handled   *)
(* by its addressee.                                                       *)
DirectedArrives ==
  Quiet =>
    \A h \in Hash, d \in Node :
      /\ dest[h] = d
      /\ d # origin[h]
      /\ \/ d \in Peers(origin[h])
         \/ \E m \in Peers(origin[h]) \cap Peers(d) : <<m, h>> \notin redirected
      => handled[d][h] > 0

----------------------------------------------------------------------------
(* LogicMsgHashesBuffer of n as the array it is: a slot holds the last of  *)
(* the hashes that went into it.                                           *)
Latest(n, k) == {i \in DOMAIN seen[n] : ~Forgotten(n, i) /\ (i - 1) % N = k}
BufferOf(n) ==
  [k \in 0 .. N - 1 |-> IF Latest(n, k) = {} THEN NoOne
                        ELSE seen[n][CHOOSE i \in Latest(n, k) : TRUE]]
IsFull(n) == Len(seen[n]) >= N
HeadOf(n) == Len(seen[n]) % N

Ring(n) == INSTANCE CircularBuffer WITH
  Item <- Hash, Default <- 0, Garbage <- NoOne, got <- 0, buf <- BufferOf(n),
  head <- HeadOf(n), tail <- IF IsFull(n) THEN HeadOf(n) ELSE 0, full <- IsFull(n)

(* Each node handles its hashes as a ring of CircularBuffer would that only*)
(* put() and isExists() are called on, and isExists() answers the same:    *)
(* what is said here of forgotten and overlooked hashes is true of the     *)
(* array with its indices.                                                 *)
WindowIsRing ==
  /\ \A n \in Node : Ring(n)!Init
  /\ [][\A n \in Node : UNCHANGED seen[n] \/ \E h \in Hash : Ring(n)!Put(h)]_vars
  /\ [](\A n \in Node, h \in Hash : IsExists(n, h) <=> Ring(n)!IsExists(h))
=============================================================================
