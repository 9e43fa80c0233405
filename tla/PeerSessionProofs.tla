------------------------- MODULE PeerSessionProofs -------------------------
(***************************************************************************)
(* Proofs about the sessions of two members: their types, that the two     *)
(* registries agree, that the offering side passes on every candidate, and *)
(* that no order of messages trips an assertion while nothing fails and    *)
(* nobody leaves, for any number of introductions and candidates.          *)
(***************************************************************************)
EXTENDS PeerSession, SequenceTheorems, TLAPS

----------------------------------------------------------------------------
(* The inductive invariant: types                                          *)

Connection ==
  [mode : {"Offer", "Answer"}, local : {"creating", "set"}, remote : Nat,
   sent : 0 .. MaxCands, observing : BOOLEAN, waiting : Nat, freed : BOOLEAN,
   open : BOOLEAN, destroying : BOOLEAN, alive : BOOLEAN]
Message == [kind : Kinds, id : Nat]
Errors == {"no", "dangling", "room", "mode", "peer", "sdp", "freed"}

Typed ==
  /\ weoffer \subseteq Node /\ member \subseteq Node
  /\ manager \in [Node -> Nat] /\ listed \in [Node -> Nat]
  /\ conns \in [Node -> Seq(Connection)]
  /\ wire \in [Node -> Seq(Message)]
  /\ aborted \in [Node -> Errors]
  /\ intros \in 0 .. MaxIntros /\ fails \in 0 .. MaxFail /\ leaves \in 0 .. MaxLeaves

\* Whatever names a connection names one that was made.
Named ==
  \A n \in Node :
    /\ manager[n] <= Len(conns[n]) /\ listed[n] <= Len(conns[n])
    /\ \A g \in 1 .. Len(conns[n]) : conns[n][g].remote <= Len(conns[Other(n)])
    /\ \A i \in 1 .. Len(wire[n]) :
         /\ wire[n][i].id <= Len(conns[Other(n)])
         /\ wire[n][i].kind # "presence" => wire[n][i].id # 0

TypeInv == Typed /\ Named

(* The registries                                                          *)

\* The registries of a member agree as far as they can; who is no member lists
\* nobody, and keeps a session only from before it left.
Agree(n) == Alive(n) =>
  IF n \in member
  THEN listed[n] # manager[n] =>
         IF listed[n] = 0 THEN leaves > 0 ELSE conns[n][listed[n]].destroying
  ELSE listed[n] = 0 /\ (manager[n] # 0 => leaves > 0)
AgreeInv == \A n \in Node : Agree(n)

(* Candidates                                                              *)

\* An offering side has sent its offer before it gets an answer.
Offerer(c) ==
  c.mode = "Offer" /\ c.remote # 0 => c.local = "set" /\ (c.observing \/ c.waiting = 0)
OffererInv == \A n \in Node : \A g \in 1 .. Len(conns[n]) : Offerer(conns[n][g])

(* Without failures and departures                                         *)

Calm == fails = 0 /\ leaves = 0

\* What is seen of a node that never loses a session: its only connection.
First(n) == conns[n][1]
Made(n) == Len(conns[n]) = 1
Calls(n) == Made(n) /\ First(n).mode = "Offer"
Replies(n) == Made(n) /\ First(n).mode = "Answer"
Ready(n) == Made(n) /\ First(n).local = "set"
Told(n) == Made(n) /\ First(n).remote # 0
Observes(n) == Made(n) /\ First(n).observing
Freed(n) == Made(n) /\ First(n).freed

\* The messages under way to it.
Coming(n, kind) == \E i \in 1 .. Len(wire[n]) : wire[n][i].kind = kind
Once(n, kind) ==
  \A i, j \in 1 .. Len(wire[n]) : wire[n][i].kind = kind /\ wire[n][j].kind = kind => i = j
OfferFirst(n) ==
  \A i \in 1 .. Len(wire[n]) : wire[n][i].kind = "candidate" =>
    \E j \in 1 .. Len(wire[n]) : j < i /\ wire[n][j].kind = "offer"

OneInv(n) ==
  /\ Len(conns[n]) <= 1 /\ manager[n] = Len(conns[n])
  /\ Alive(n)
  /\ Made(n) \/ wire[n] # << >> => member = Node
  /\ Once(n, "offer") /\ Once(n, "answer")
  /\ Observes(n) \/ Freed(n) => Told(n)
  /\ ~(Observes(n) /\ Freed(n))

\* An offer comes from a node that calls, to one that does not reply already,
\* before anything else of the connection.
OfferInv(n, m) ==
  /\ Coming(n, "offer") => Calls(m) /\ Ready(m) /\ ~Replies(n)
  /\ Calls(m) /\ Ready(m) /\ ~Made(n) => Coming(n, "offer")
  /\ ~Made(n) => OfferFirst(n)

\* A node that replies has a caller; it answers once, and the caller that was
\* told of a description has that answer.
AnswerInv(n, m) ==
  /\ Replies(m) => Calls(n) /\ Ready(n) /\ Told(m)
  /\ Replies(m) /\ ~Ready(m) => ~Told(n) /\ ~Coming(n, "answer")
  /\ Coming(n, "answer") => Replies(m) /\ ~Told(n)
  /\ Calls(n) /\ Told(n) => Replies(m) /\ Ready(m) /\ ~Coming(n, "answer")

PairInv == \A n, m \in Node : n # m => OfferInv(n, m) /\ AnswerInv(n, m)

CalmInv == Calm => PairInv /\ \A n \in Node : OneInv(n)


----------------------------------------------------------------------------
(* What the helpers of the model do                                        *)

\* There are two nodes.
LEMMA TheOther ==
  ASSUME NEW n \in Node
  PROVE  /\ Other(n) \in Node /\ Other(n) # n /\ Other(Other(n)) = n
         /\ \A m \in Node : m = n \/ m = Other(n)
<1>1. PICK a \in Node, b \in Node : a # b /\ Node = {a, b}
  BY TwoNodes
<1>2. ASSUME NEW m \in Node
      PROVE  Other(m) \in Node /\ Other(m) # m
  <2>1. \E k \in Node : k # m
    BY <1>1
  <2>2. QED
    BY <2>1 DEF Other
<1>3. QED
  BY <1>1, <1>2

\* Connection g of node n changes, and no other.
OthersKept(n, g) ==
  \A m \in Node :
    /\ Len(conns'[m]) = Len(conns[m])
    /\ \A h \in 1 .. Len(conns[m]) : (m = n /\ h = g) \/ conns'[m][h] = conns[m][h]

\* Set changes one connection of one node.
LEMMA SetDoes ==
  ASSUME Typed, NEW n \in Node, NEW g \in 1 .. Len(conns[n]), NEW c \in Connection,
         Set(n, g, c)
  PROVE  /\ conns' \in [Node -> Seq(Connection)] /\ OthersKept(n, g)
         /\ conns'[n][g] = c
<1>1. conns \in [Node -> Seq(Connection)] /\ conns[n] \in Seq(Connection)
  BY DEF Typed
<1>2. /\ [conns[n] EXCEPT ![g] = c] \in Seq(Connection)
      /\ Len([conns[n] EXCEPT ![g] = c]) = Len(conns[n])
      /\ \A h \in 1 .. Len(conns[n]) :
           [conns[n] EXCEPT ![g] = c][h] = IF h = g THEN c ELSE conns[n][h]
  BY <1>1, ExceptSeq
<1>3. conns' = [conns EXCEPT ![n] = [conns[n] EXCEPT ![g] = c]]
  BY DEF Set
<1>4. conns' \in [Node -> Seq(Connection)] /\ conns'[n] = [conns[n] EXCEPT ![g] = c]
      /\ \A m \in Node \ {n} : conns'[m] = conns[m]
  BY <1>1, <1>2, <1>3
<1>5. QED
  BY <1>2, <1>4 DEF OthersKept

\* A new connection comes last; the other node keeps its own.
LEMMA AddDoes ==
  ASSUME Typed, NEW n \in Node, NEW c \in Connection,
         conns' = [conns EXCEPT ![n] = Append(@, c)]
  PROVE  /\ conns' \in [Node -> Seq(Connection)]
         /\ Len(conns'[n]) = Len(conns[n]) + 1 /\ conns'[n][Len(conns[n]) + 1] = c
         /\ \A h \in 1 .. Len(conns[n]) : conns'[n][h] = conns[n][h]
         /\ conns'[Other(n)] = conns[Other(n)]
<1>1. conns \in [Node -> Seq(Connection)] /\ conns[n] \in Seq(Connection)
  BY DEF Typed
<1>2. /\ Append(conns[n], c) \in Seq(Connection)
      /\ Len(Append(conns[n], c)) = Len(conns[n]) + 1
      /\ Append(conns[n], c)[Len(conns[n]) + 1] = c
      /\ \A h \in 1 .. Len(conns[n]) : Append(conns[n], c)[h] = conns[n][h]
  BY <1>1
<1>3. conns'[n] = Append(conns[n], c) /\ conns' \in [Node -> Seq(Connection)]
      /\ conns'[Other(n)] = conns[Other(n)]
  BY <1>1, <1>2, TheOther
<1>4. QED
  BY <1>2, <1>3

\* A message goes to the end of what is under way to the other node.
LEMMA SendDoes ==
  ASSUME Typed, NEW n \in Node, NEW kind \in Kinds, NEW id \in Nat, Send(n, kind, id)
  PROVE  LET m == Other(n) IN
         /\ wire' \in [Node -> Seq(Message)] /\ wire'[n] = wire[n]
         /\ Len(wire'[m]) = Len(wire[m]) + 1
         /\ wire'[m][Len(wire[m]) + 1] = [kind |-> kind, id |-> id]
         /\ \A i \in 1 .. Len(wire[m]) : wire'[m][i] = wire[m][i]
<1> DEFINE m == Other(n)
           e == [kind |-> kind, id |-> id]
<1>1. /\ wire \in [Node -> Seq(Message)] /\ wire[m] \in Seq(Message) /\ e \in Message
      /\ m \in Node /\ m # n
  BY TheOther DEF Typed, Message
<1>2. wire' = [wire EXCEPT ![m] = Append(wire[m], e)]
  BY DEF Send
<1> HIDE DEF m, e
<1>3. /\ Append(wire[m], e) \in Seq(Message) /\ Len(Append(wire[m], e)) = Len(wire[m]) + 1
      /\ Append(wire[m], e)[Len(wire[m]) + 1] = e
      /\ \A i \in 1 .. Len(wire[m]) : Append(wire[m], e)[i] = wire[m][i]
  BY <1>1
<1>4. wire'[m] = Append(wire[m], e) /\ wire'[n] = wire[n] /\ wire' \in [Node -> Seq(Message)]
  BY <1>1, <1>2, <1>3
<1>5. QED
  BY <1>3, <1>4 DEF m, e

\* The first message of node n is taken.
Shifted(n) ==
  /\ Len(wire'[n]) = Len(wire[n]) - 1
  /\ \A i \in 1 .. Len(wire[n]) - 1 : wire'[n][i] = wire[n][i + 1]

\* Taking a message removes the first one of this node.
LEMMA TakenDoes ==
  ASSUME Typed, NEW n \in Node, wire[n] # << >>, Taken(n)
  PROVE  /\ wire' \in [Node -> Seq(Message)] /\ Shifted(n)
         /\ wire'[Other(n)] = wire[Other(n)]
<1>1. wire \in [Node -> Seq(Message)] /\ wire[n] \in Seq(Message)
      /\ Other(n) \in Node /\ Other(n) # n
  BY TheOther DEF Typed
<1>2. /\ Tail(wire[n]) \in Seq(Message) /\ Len(Tail(wire[n])) = Len(wire[n]) - 1
      /\ \A i \in 1 .. Len(wire[n]) - 1 : Tail(wire[n])[i] = wire[n][i + 1]
  BY <1>1
<1>3. wire'[n] = Tail(wire[n]) /\ wire'[Other(n)] = wire[Other(n)]
      /\ wire' \in [Node -> Seq(Message)]
  BY <1>1, <1>2 DEF Taken
<1>4. QED
  BY <1>2, <1>3 DEF Shifted

\* Asking for an offer takes a message and sends a presence.
LEMMA AskDoes ==
  ASSUME Typed, NEW n \in Node, wire[n] # << >>, AskForOffer(n)
  PROVE  LET m == Other(n) IN
         /\ wire' \in [Node -> Seq(Message)] /\ Shifted(n)
         /\ Len(wire'[m]) = Len(wire[m]) + 1
         /\ wire'[m][Len(wire[m]) + 1] = [kind |-> "presence", id |-> 0]
         /\ \A i \in 1 .. Len(wire[m]) : wire'[m][i] = wire[m][i]
<1> DEFINE m == Other(n)
           e == [kind |-> "presence", id |-> 0]
<1>1. /\ wire \in [Node -> Seq(Message)] /\ wire[m] \in Seq(Message) /\ e \in Message
      /\ wire[n] \in Seq(Message) /\ m \in Node /\ m # n
  BY TheOther DEF Typed, Message, Kinds
<1>2. wire' = [wire EXCEPT ![n] = Tail(wire[n]), ![m] = Append(wire[m], e)]
  BY <1>1 DEF AskForOffer
<1> HIDE DEF m, e
<1>3. /\ Append(wire[m], e) \in Seq(Message) /\ Len(Append(wire[m], e)) = Len(wire[m]) + 1
      /\ Append(wire[m], e)[Len(wire[m]) + 1] = e
      /\ \A i \in 1 .. Len(wire[m]) : Append(wire[m], e)[i] = wire[m][i]
  BY <1>1
<1>4. /\ Tail(wire[n]) \in Seq(Message) /\ Len(Tail(wire[n])) = Len(wire[n]) - 1
      /\ \A i \in 1 .. Len(wire[n]) - 1 : Tail(wire[n])[i] = wire[n][i + 1]
  BY <1>1
<1>5. wire'[m] = Append(wire[m], e) /\ wire'[n] = Tail(wire[n]) /\ wire' \in [Node -> Seq(Message)]
  BY <1>1, <1>2, <1>3, <1>4
<1>6. QED
  BY <1>3, <1>4, <1>5 DEF m, e, Shifted

\* What is known of the first message.
LEMMA HeadIs ==
  ASSUME TypeInv, NEW n \in Node, NEW kind, Receive(n, kind)
  PROVE  /\ Alive(n) /\ wire[n] # << >> /\ Len(wire[n]) \in Nat /\ Len(wire[n]) > 0
         /\ Head(wire[n]) = wire[n][1] /\ 1 \in 1 .. Len(wire[n])
         /\ wire[n][1].kind = kind /\ wire[n][1].id \in Nat
         /\ wire[n][1].id <= Len(conns[Other(n)])
         /\ kind # "presence" => wire[n][1].id # 0
<1>1. wire[n] \in Seq(Message) /\ wire[n] # << >> /\ Head(wire[n]).kind = kind /\ Alive(n)
  BY DEF TypeInv, Typed, Receive
<1>2. /\ Len(wire[n]) \in Nat /\ Len(wire[n]) > 0 /\ Head(wire[n]) = wire[n][1]
      /\ wire[n][1] \in Message /\ 1 \in 1 .. Len(wire[n])
  BY <1>1
<1>3. QED
  BY <1>1, <1>2 DEF TypeInv, Named, Message

----------------------------------------------------------------------------
(* Types                                                                   *)

\* Nothing is named at the start.
LEMMA TypeInit == Init => TypeInv
<1> SUFFICES ASSUME Init PROVE TypeInv
  OBVIOUS
<1>1. /\ manager = [n \in Node |-> 0] /\ listed = [n \in Node |-> 0]
      /\ conns = [n \in Node |-> << >>] /\ wire = [n \in Node |-> << >>]
      /\ aborted = [n \in Node |-> "no"] /\ member = {} /\ weoffer \subseteq Node
      /\ intros = 0 /\ fails = 0 /\ leaves = 0
  BY DEF Init
<1>2. << >> \in Seq(Connection) /\ << >> \in Seq(Message)
  OBVIOUS
<1>3. Typed
  BY <1>1, <1>2, BoundsAssumption DEF Typed, Errors
<1>4. ASSUME NEW n \in Node
      PROVE  /\ manager[n] = 0 /\ listed[n] = 0 /\ Len(conns[n]) = 0 /\ Len(wire[n]) = 0
             /\ 1 .. Len(conns[n]) = {} /\ 1 .. Len(wire[n]) = {}
  BY <1>1
<1>5. QED
  BY <1>3, <1>4 DEF TypeInv, Named

\* A message on the wire was there or names a connection.
Carried(m) ==
  \A i \in 1 .. Len(wire'[m]) :
    \/ \E j \in 1 .. Len(wire[m]) : wire'[m][i] = wire[m][j]
    \/ /\ wire'[m][i].id <= Len(conns[Other(m)])
       /\ wire'[m][i].kind # "presence" => wire'[m][i].id # 0
WireFrom == \A m \in Node : Carried(m)

\* A connection was there, or has a peer that was.
ConnsFrom ==
  \A m \in Node :
    /\ Len(conns[m]) <= Len(conns'[m])
    /\ \A h \in 1 .. Len(conns'[m]) :
         \/ h \in 1 .. Len(conns[m]) /\ conns'[m][h].remote = conns[m][h].remote
         \/ conns'[m][h].remote <= Len(conns[Other(m)])

\* Names stay good when messages and connections come from known ones.
LEMMA NamedFrom ==
  ASSUME TypeInv, Typed', WireFrom, ConnsFrom,
         \A m \in Node : manager'[m] <= Len(conns'[m]) /\ listed'[m] <= Len(conns'[m])
  PROVE  TypeInv'
<1>1. \A m \in Node : /\ Other(m) \in Node /\ Len(conns[Other(m)]) \in Nat
                      /\ Len(conns'[Other(m)]) \in Nat
                      /\ Len(conns[Other(m)]) <= Len(conns'[Other(m)])
  BY TheOther DEF TypeInv, Typed, ConnsFrom
<1>2. ASSUME NEW m \in Node, NEW h \in 1 .. Len(conns'[m])
      PROVE  conns'[m][h].remote <= Len(conns'[Other(m)])
  <2>1. conns'[m][h].remote \in Nat
    <3>1. conns'[m] \in Seq(Connection)
      BY DEF Typed
    <3>2. conns'[m][h] \in Connection
      BY <3>1
    <3>3. QED
      BY <3>2 DEF Connection
  <2>2. conns'[m][h].remote <= Len(conns[Other(m)])
    BY DEF ConnsFrom, TypeInv, Named
  <2>3. QED
    BY <1>1, <2>1, <2>2
<1>3. ASSUME NEW m \in Node, NEW i \in 1 .. Len(wire'[m])
      PROVE  /\ wire'[m][i].id <= Len(conns'[Other(m)])
             /\ wire'[m][i].kind # "presence" => wire'[m][i].id # 0
  <2>1. wire'[m][i].id \in Nat
    <3>1. wire'[m] \in Seq(Message)
      BY DEF Typed
    <3>2. wire'[m][i] \in Message
      BY <3>1
    <3>3. QED
      BY <3>2 DEF Message
  <2>2. /\ wire'[m][i].id <= Len(conns[Other(m)])
        /\ wire'[m][i].kind # "presence" => wire'[m][i].id # 0
    BY DEF WireFrom, Carried, TypeInv, Named
  <2>3. QED
    BY <1>1, <2>1, <2>2
<1>4. QED
  BY <1>2, <1>3 DEF TypeInv, Named

\* Messages of a step that leaves them, takes one, sends one, or asks.
LEMMA WireKept ==
  ASSUME wire' = wire
  PROVE  WireFrom
<1>1. \A m \in Node : wire'[m] = wire[m]
  OBVIOUS
<1>2. QED
  BY <1>1 DEF WireFrom, Carried

LEMMA WireTaken ==
  ASSUME TypeInv, NEW n \in Node, wire[n] # << >>, Taken(n)
  PROVE  WireFrom /\ wire' \in [Node -> Seq(Message)]
<1>1. /\ Shifted(n) /\ wire'[Other(n)] = wire[Other(n)] /\ Len(wire[n]) \in Nat
      /\ wire' \in [Node -> Seq(Message)]
  BY TakenDoes DEF TypeInv, Typed
<1>2. \A i \in 1 .. Len(wire'[n]) : i + 1 \in 1 .. Len(wire[n]) /\ wire'[n][i] = wire[n][i + 1]
  BY <1>1 DEF Shifted
<1>3. Carried(n) /\ Carried(Other(n))
  BY <1>1, <1>2 DEF Carried
<1>4. QED
  BY <1>1, <1>3, TheOther DEF WireFrom

LEMMA WireSent ==
  ASSUME TypeInv, NEW n \in Node, NEW kind \in Kinds, NEW id \in Nat, Send(n, kind, id),
         id <= Len(conns[n]), kind # "presence" => id # 0
  PROVE  WireFrom /\ wire' \in [Node -> Seq(Message)]
<1>1. /\ wire'[n] = wire[n] /\ Len(wire'[Other(n)]) = Len(wire[Other(n)]) + 1
      /\ wire'[Other(n)][Len(wire[Other(n)]) + 1] = [kind |-> kind, id |-> id]
      /\ \A i \in 1 .. Len(wire[Other(n)]) : wire'[Other(n)][i] = wire[Other(n)][i]
      /\ wire' \in [Node -> Seq(Message)]
  BY SendDoes DEF TypeInv
<1>2. Len(wire[Other(n)]) \in Nat /\ Other(Other(n)) = n
  BY TheOther DEF TypeInv, Typed
<1>3. \A i \in 1 .. Len(wire[Other(n)]) + 1 :
        i \in 1 .. Len(wire[Other(n)]) \/ i = Len(wire[Other(n)]) + 1
  BY <1>2
<1>4. ASSUME NEW i \in 1 .. Len(wire'[Other(n)])
      PROVE  \/ \E j \in 1 .. Len(wire[Other(n)]) : wire'[Other(n)][i] = wire[Other(n)][j]
             \/ /\ wire'[Other(n)][i].id <= Len(conns[Other(Other(n))])
                /\ wire'[Other(n)][i].kind # "presence" => wire'[Other(n)][i].id # 0
  <2>1. CASE i \in 1 .. Len(wire[Other(n)])
    BY <1>1, <2>1
  <2>2. CASE i = Len(wire[Other(n)]) + 1
    BY <1>1, <1>2, <2>2
  <2>3. QED
    BY <1>1, <1>3, <2>1, <2>2
<1>5. Carried(n) /\ Carried(Other(n))
  BY <1>1, <1>4 DEF Carried
<1>6. QED
  BY <1>1, <1>5, TheOther DEF WireFrom

LEMMA WireAsked ==
  ASSUME TypeInv, NEW n \in Node, wire[n] # << >>, AskForOffer(n)
  PROVE  WireFrom /\ wire' \in [Node -> Seq(Message)]
<1>1. /\ Shifted(n) /\ Len(wire'[Other(n)]) = Len(wire[Other(n)]) + 1
      /\ wire'[Other(n)][Len(wire[Other(n)]) + 1] = [kind |-> "presence", id |-> 0]
      /\ \A i \in 1 .. Len(wire[Other(n)]) : wire'[Other(n)][i] = wire[Other(n)][i]
      /\ wire' \in [Node -> Seq(Message)]
  BY AskDoes DEF TypeInv
<1>2. /\ Len(wire[Other(n)]) \in Nat /\ Other(Other(n)) = n /\ Len(wire[n]) \in Nat
      /\ 0 <= Len(conns[n])
  BY TheOther DEF TypeInv, Typed
<1>3. \A i \in 1 .. Len(wire'[n]) : i + 1 \in 1 .. Len(wire[n]) /\ wire'[n][i] = wire[n][i + 1]
  BY <1>1, <1>2 DEF Shifted
<1>4. \A i \in 1 .. Len(wire[Other(n)]) + 1 :
        i \in 1 .. Len(wire[Other(n)]) \/ i = Len(wire[Other(n)]) + 1
  BY <1>2
<1>5. ASSUME NEW i \in 1 .. Len(wire'[Other(n)])
      PROVE  \/ \E j \in 1 .. Len(wire[Other(n)]) : wire'[Other(n)][i] = wire[Other(n)][j]
             \/ /\ wire'[Other(n)][i].id <= Len(conns[Other(Other(n))])
                /\ wire'[Other(n)][i].kind # "presence" => wire'[Other(n)][i].id # 0
  <2>1. CASE i \in 1 .. Len(wire[Other(n)])
    BY <1>1, <2>1
  <2>2. CASE i = Len(wire[Other(n)]) + 1
    BY <1>1, <1>2, <2>2
  <2>3. QED
    BY <1>1, <1>4, <2>1, <2>2
<1>6. Carried(n) /\ Carried(Other(n))
  BY <1>3, <1>5 DEF Carried
<1>7. QED
  BY <1>1, <1>6, TheOther DEF WireFrom

\* Connections of a step that leaves them, changes one, or adds one.
LEMMA ConnsSame ==
  ASSUME TypeInv, conns' = conns
  PROVE  ConnsFrom
<1>1. \A m \in Node : conns'[m] = conns[m] /\ Len(conns[m]) \in Nat
  BY DEF TypeInv, Typed
<1>2. QED
  BY <1>1 DEF ConnsFrom

LEMMA ConnsSet ==
  ASSUME TypeInv, NEW n \in Node, NEW g \in 1 .. Len(conns[n]), NEW c \in Connection,
         Set(n, g, c), c.remote = conns[n][g].remote \/ c.remote <= Len(conns[Other(n)])
  PROVE  /\ ConnsFrom /\ conns' \in [Node -> Seq(Connection)]
         /\ \A m \in Node : Len(conns'[m]) = Len(conns[m])
<1>1. /\ conns' \in [Node -> Seq(Connection)] /\ OthersKept(n, g) /\ conns'[n][g] = c
  BY SetDoes DEF TypeInv
<1>2. \A m \in Node : Len(conns'[m]) = Len(conns[m]) /\ Len(conns[m]) \in Nat
  BY <1>1 DEF OthersKept, TypeInv, Typed
<1>3. QED
  BY <1>1, <1>2 DEF OthersKept, ConnsFrom

LEMMA ConnsAdded ==
  ASSUME TypeInv, NEW n \in Node, NEW c \in Connection,
         conns' = [conns EXCEPT ![n] = Append(@, c)], c.remote <= Len(conns[Other(n)])
  PROVE  /\ ConnsFrom /\ conns' \in [Node -> Seq(Connection)]
         /\ Len(conns'[n]) = Len(conns[n]) + 1
<1>1. /\ conns' \in [Node -> Seq(Connection)]
      /\ Len(conns'[n]) = Len(conns[n]) + 1 /\ conns'[n][Len(conns[n]) + 1] = c
      /\ \A h \in 1 .. Len(conns[n]) : conns'[n][h] = conns[n][h]
      /\ conns'[Other(n)] = conns[Other(n)]
  BY AddDoes DEF TypeInv
<1>2. \A m \in Node : Len(conns[m]) \in Nat
  BY DEF TypeInv, Typed
<1>3. \A h \in 1 .. Len(conns[n]) + 1 : h \in 1 .. Len(conns[n]) \/ h = Len(conns[n]) + 1
  BY <1>2
<1>4. Len(conns[n]) <= Len(conns'[n])
  BY <1>1, <1>2
<1>5. ASSUME NEW m \in Node
      PROVE  /\ Len(conns[m]) <= Len(conns'[m])
             /\ \A h \in 1 .. Len(conns'[m]) :
                  \/ h \in 1 .. Len(conns[m]) /\ conns'[m][h].remote = conns[m][h].remote
                  \/ conns'[m][h].remote <= Len(conns[Other(m)])
  <2>1. CASE m = n
    BY <1>1, <1>3, <1>4, <2>1
  <2>2. CASE m = Other(n)
    BY <1>1, <1>2, <2>2
  <2>3. QED
    BY <2>1, <2>2, TheOther
<1>6. QED
  BY <1>1, <1>5 DEF ConnsFrom

\* The order of the numbers.
LEMMA NotMore ==
  /\ \A a, b, c \in Nat : a <= b /\ b <= c => a <= c
  /\ \A a \in Nat : a <= a
  OBVIOUS

\* A session of the manager is a connection the node made.
LEMMA Session1 ==
  ASSUME TypeInv, NEW n \in Node, manager[n] # 0
  PROVE  manager[n] \in 1 .. Len(conns[n]) /\ Session(n) \in Connection
<1>1. manager[n] \in Nat /\ manager[n] <= Len(conns[n]) /\ conns[n] \in Seq(Connection)
  BY DEF TypeInv, Typed, Named
<1>2. manager[n] \in 1 .. Len(conns[n])
  BY <1>1
<1>3. QED
  BY <1>1, <1>2 DEF Session

\* A connection has its type and a number.
LEMMA ConnectionIs ==
  ASSUME TypeInv, NEW n \in Node, NEW g \in DOMAIN conns[n]
  PROVE  /\ g \in 1 .. Len(conns[n]) /\ conns[n][g] \in Connection
         /\ g \in Nat /\ g <= Len(conns[n]) /\ g # 0
<1>1. conns[n] \in Seq(Connection)
  BY DEF TypeInv, Typed
<1>2. QED
  BY <1>1

\* A connection that was just told to answer offer id.
Answering(c, id) ==
  /\ c.mode = "Answer" /\ c.local = "creating" /\ c.remote = id /\ c.observing

\* Described keeps the rest of a connection.
LEMMA AnswerOf ==
  ASSUME NEW c \in Connection, NEW id \in Nat, c.mode = "Answer"
  PROVE  LET d == [Described(c, id) EXCEPT !.local = "creating"] IN
         /\ d \in Connection /\ Answering(d, id)
         /\ d.destroying = c.destroying /\ d.freed = c.freed
  BY DEF Described, Connection, Answering

\* An offer is refused, makes a new connection, or is taken by an answering one.
LEMMA OfferDoes ==
  ASSUME TypeInv, NEW n \in Node, OnOffer(n)
  PROVE  \/ /\ manager[n] # 0 /\ Session(n).mode = "Offer"
            /\ UNCHANGED <<manager, listed, conns, aborted>>
         \/ /\ manager[n] = 0 /\ manager' = [manager EXCEPT ![n] = Len(conns[n]) + 1]
            /\ AddToRoom(n, Len(conns[n]) + 1)
            /\ \E c \in Connection : /\ Answering(c, wire[n][1].id) /\ ~c.freed
                                     /\ conns' = [conns EXCEPT ![n] = Append(@, c)]
         \/ /\ manager[n] # 0 /\ manager' = manager /\ AddToRoom(n, manager[n])
            /\ Session(n).mode = "Answer"
            /\ \E c \in Connection : /\ Answering(c, wire[n][1].id)
                                     /\ c.destroying = Session(n).destroying
                                     /\ Set(n, manager[n], c)
<1>1. /\ Head(wire[n]) = wire[n][1] /\ wire[n][1].id \in Nat
      /\ manager \in [Node -> Nat] /\ conns \in [Node -> Seq(Connection)]
  BY HeadIs DEF OnOffer, TypeInv, Typed
<1>2. CASE manager[n] = 0
  <2> DEFINE d == [Described(NewPeer("Answer"), wire[n][1].id) EXCEPT !.local = "creating"]
  <2>1. /\ d \in Connection /\ Answering(d, wire[n][1].id) /\ ~d.freed
    <3>1. /\ NewPeer("Answer") \in Connection /\ NewPeer("Answer").mode = "Answer"
          /\ NewPeer("Answer").freed = FALSE
      BY BoundsAssumption DEF NewPeer, Connection
    <3>2. QED
      BY <1>1, <3>1, AnswerOf
  <2>2. /\ ~Refuses(NewPeer("Answer")) /\ NewPeer("Answer").mode = "Answer"
    BY DEF Refuses, NewPeer
  <2>3. /\ manager' = [manager EXCEPT ![n] = Len(conns[n]) + 1]
        /\ conns' = [conns EXCEPT ![n] = Append(@, d)]
        /\ AddToRoom(n, Len(conns[n]) + 1)
    BY <1>1, <1>2, <2>2 DEF OnOffer
  <2>4. QED
    BY <1>2, <2>1, <2>3
<1>3. CASE manager[n] # 0
  <2> DEFINE g == manager[n]
             d == [Described(Session(n), wire[n][1].id) EXCEPT !.local = "creating"]
  <2>1. g \in 1 .. Len(conns[n]) /\ Session(n) \in Connection
    BY <1>3, Session1
  <2>2. CASE Refuses(Session(n))
    <3>1. Session(n).mode = "Offer"
      BY <2>1, <2>2 DEF Refuses, Connection
    <3>2. UNCHANGED <<manager, listed, conns, aborted>>
      BY <1>3, <2>2 DEF OnOffer
    <3>3. QED
      BY <1>3, <3>1, <3>2
  <2>3. CASE ~Refuses(Session(n))
    <3>1. Session(n).mode = "Answer"
      BY <2>3 DEF Refuses
    <3>2. /\ d \in Connection /\ Answering(d, wire[n][1].id)
          /\ d.destroying = Session(n).destroying
      BY <1>1, <2>1, <3>1 DEF Described, Connection, Answering
    <3>3. /\ manager' = [manager EXCEPT ![n] = g]
          /\ conns' = [conns EXCEPT ![n] = [@ EXCEPT ![g] = d]]
          /\ AddToRoom(n, g)
      BY <1>1, <1>3, <2>3, <3>1 DEF OnOffer
    <3>4. manager' = manager /\ Set(n, g, d)
      BY <1>1, <3>3 DEF Set
    <3>5. QED
      BY <1>3, <3>1, <3>2, <3>3, <3>4
  <2>4. QED
    BY <2>2, <2>3
<1>4. QED
  BY <1>2, <1>3

\* A presence is ignored, asks for an offer, or makes an offering connection.
LEMMA PresenceDoes ==
  ASSUME TypeInv, NEW n \in Node, OnPresence(n)
  PROVE  \/ /\ Taken(n) \/ AskForOffer(n)
            /\ UNCHANGED <<manager, listed, conns, aborted>>
         \/ /\ manager[n] = 0 /\ manager' = [manager EXCEPT ![n] = Len(conns[n]) + 1]
            /\ Taken(n) /\ AddToRoom(n, Len(conns[n]) + 1)
            /\ conns' = [conns EXCEPT ![n] = Append(@, NewPeer("Offer"))]
  BY DEF OnPresence

\* A new offering connection.
LEMMA NewOffer ==
  /\ NewPeer("Offer") \in Connection /\ NewPeer("Offer").remote = 0
  /\ NewPeer("Offer").mode = "Offer" /\ NewPeer("Offer").local = "creating"
  /\ NewPeer("Offer").waiting = 0
  /\ NewPeer("Offer").observing = FALSE /\ NewPeer("Offer").freed = FALSE
  BY BoundsAssumption DEF NewPeer, Connection

\* The end of createPC lists the connection, or ends the process.
LEMMA AddToRoomDoes ==
  ASSUME TypeInv, NEW n \in Node, NEW g \in Nat, AddToRoom(n, g)
  PROVE  /\ listed' \in [Node -> Nat] /\ aborted' \in [Node -> Errors]
         /\ \A m \in Node \ {n} : listed'[m] = listed[m] /\ aborted'[m] = aborted[m]
         /\ \/ /\ n \in member /\ aborted' = aborted
               /\ listed'[n] = IF listed[n] = 0 THEN g ELSE listed[n]
            \/ n \notin member /\ listed' = listed /\ aborted'[n] = "room"
<1>1. listed \in [Node -> Nat] /\ aborted \in [Node -> Errors] /\ "room" \in Errors
  BY DEF TypeInv, Typed, Errors
<1>2. CASE n \in member
  <2>1. listed' = [listed EXCEPT ![n] = IF @ = 0 THEN g ELSE @] /\ aborted' = aborted
    BY <1>2 DEF AddToRoom, AddNode
  <2>2. QED
    BY <1>1, <1>2, <2>1
<1>3. CASE n \notin member
  <2>1. aborted' = [aborted EXCEPT ![n] = "room"] /\ listed' = listed
    BY <1>3 DEF AddToRoom, Abort
  <2>2. QED
    BY <1>1, <1>3, <2>1
<1>4. QED
  BY <1>2, <1>3

\* Presences and offers keep the types.
LEMMA TypeOffer ==
  ASSUME TypeInv, NEW n \in Node, OnPresence(n) \/ OnOffer(n)
  PROVE  TypeInv'
<1>1. /\ UNCHANGED <<weoffer, member, intros, fails, leaves>> /\ wire[n] # << >>
      /\ wire[n][1].id \in Nat /\ wire[n][1].id <= Len(conns[Other(n)])
  BY HeadIs DEF OnPresence, OnOffer, Receive, counters
<1>2. WireFrom /\ wire' \in [Node -> Seq(Message)]
  BY <1>1, PresenceDoes, WireTaken, WireAsked DEF OnOffer
<1>3. /\ Len(conns[n]) \in Nat /\ Len(conns[n]) + 1 \in Nat
      /\ \A m \in Node : /\ Len(conns[m]) \in Nat /\ manager[m] <= Len(conns[m])
                         /\ listed[m] <= Len(conns[m]) /\ manager[m] \in Nat
                         /\ listed[m] \in Nat
      /\ manager \in [Node -> Nat]
  BY DEF TypeInv, Typed, Named
<1>4. CASE UNCHANGED <<manager, listed, conns, aborted>>
  <2>1. Typed'
    BY <1>1, <1>2, <1>4 DEF TypeInv, Typed
  <2>2. ConnsFrom
    BY <1>4, ConnsSame
  <2>3. \A m \in Node : manager'[m] <= Len(conns'[m]) /\ listed'[m] <= Len(conns'[m])
    BY <1>3, <1>4
  <2>4. QED
    BY <1>2, <2>1, <2>2, <2>3, NamedFrom
<1>5. ASSUME NEW c \in Connection, c.remote <= Len(conns[Other(n)]),
             manager' = [manager EXCEPT ![n] = Len(conns[n]) + 1],
             conns' = [conns EXCEPT ![n] = Append(@, c)], AddToRoom(n, Len(conns[n]) + 1)
      PROVE  TypeInv'
  <2>1. /\ ConnsFrom /\ conns' \in [Node -> Seq(Connection)]
        /\ Len(conns'[n]) = Len(conns[n]) + 1
    BY <1>5, ConnsAdded
  <2>2. /\ listed' \in [Node -> Nat] /\ aborted' \in [Node -> Errors]
        /\ \A m \in Node : listed'[m] = listed[m] \/ (m = n /\ listed'[n] = Len(conns[n]) + 1)
    BY <1>3, <1>5, AddToRoomDoes
  <2>3. manager' \in [Node -> Nat] /\ manager'[n] = Len(conns[n]) + 1
        /\ \A m \in Node \ {n} : manager'[m] = manager[m]
    BY <1>3, <1>5
  <2>4. Typed'
    BY <1>1, <1>2, <2>1, <2>2, <2>3 DEF TypeInv, Typed
  <2>5. ASSUME NEW m \in Node
        PROVE  manager'[m] <= Len(conns'[m]) /\ listed'[m] <= Len(conns'[m])
    <3>1. Len(conns[m]) <= Len(conns'[m]) /\ Len(conns'[m]) \in Nat
      BY <2>1 DEF ConnsFrom
    <3>2. CASE m = n
      <4>1. /\ manager'[m] = Len(conns'[m]) /\ manager'[m] \in Nat
            /\ listed'[m] = Len(conns'[m]) \/ listed'[m] = listed[m]
        BY <2>1, <2>2, <2>3, <3>2
      <4>2. listed[m] \in Nat /\ listed[m] <= Len(conns[m]) /\ Len(conns[m]) \in Nat
        BY <1>3
      <4>3. QED
        BY <3>1, <4>1, <4>2, NotMore
    <3>3. CASE m # n
      <4>1. manager'[m] = manager[m] /\ listed'[m] = listed[m]
        BY <2>2, <2>3, <3>3
      <4>2. QED
        BY <1>3, <3>1, <4>1, NotMore
    <3>4. QED
      BY <3>2, <3>3
  <2>6. QED
    BY <1>2, <2>1, <2>4, <2>5, NamedFrom
<1>6. ASSUME NEW c \in Connection, manager[n] # 0, c.remote <= Len(conns[Other(n)]),
             manager' = manager, Set(n, manager[n], c), AddToRoom(n, manager[n])
      PROVE  TypeInv'
  <2>1. manager[n] \in 1 .. Len(conns[n])
    BY <1>6, Session1
  <2>2. /\ ConnsFrom /\ conns' \in [Node -> Seq(Connection)]
        /\ \A m \in Node : Len(conns'[m]) = Len(conns[m])
    BY <1>6, <2>1, ConnsSet
  <2>3. /\ listed' \in [Node -> Nat] /\ aborted' \in [Node -> Errors]
        /\ \A m \in Node : listed'[m] = listed[m] \/ (m = n /\ listed'[n] = manager[n])
    BY <1>3, <1>6, AddToRoomDoes
  <2>4. Typed'
    BY <1>1, <1>2, <1>6, <2>2, <2>3 DEF TypeInv, Typed
  <2>5. ASSUME NEW m \in Node
        PROVE  manager'[m] <= Len(conns'[m]) /\ listed'[m] <= Len(conns'[m])
    <3>1. Len(conns'[m]) = Len(conns[m]) /\ manager'[m] = manager[m]
      BY <1>6, <2>2
    <3>2. listed'[m] = listed[m] \/ listed'[m] = manager[m]
      BY <2>3
    <3>3. manager[m] <= Len(conns[m]) /\ listed[m] <= Len(conns[m])
      BY <1>3
    <3>4. QED
      BY <3>1, <3>2, <3>3
  <2>6. QED
    BY <1>2, <2>2, <2>4, <2>5, NamedFrom
<1>7. CASE OnPresence(n)
  <2>1. 0 <= Len(conns[Other(n)])
    BY <1>3, TheOther
  <2>2. QED
    BY <1>4, <1>5, <1>7, <2>1, PresenceDoes, NewOffer
<1>8. CASE OnOffer(n)
  BY <1>1, <1>4, <1>5, <1>6, <1>8, OfferDoes DEF Answering
<1>9. QED
  BY <1>7, <1>8

\* A step that changes one connection, and perhaps forgets a session.
LEMMA TypeSet ==
  ASSUME TypeInv, NEW n \in Node, NEW g \in 1 .. Len(conns[n]), NEW c \in Connection,
         Set(n, g, c), c.remote = conns[n][g].remote \/ c.remote <= Len(conns[Other(n)]),
         WireFrom, wire' \in [Node -> Seq(Message)], aborted' \in [Node -> Errors],
         weoffer' = weoffer, member' = member, listed' = listed, intros' = intros,
         leaves' = leaves, fails' \in 0 .. MaxFail, manager' \in [Node -> Nat],
         \A m \in Node : manager'[m] = manager[m] \/ manager'[m] = 0
  PROVE  TypeInv'
<1>1. /\ ConnsFrom /\ conns' \in [Node -> Seq(Connection)]
      /\ \A m \in Node : Len(conns'[m]) = Len(conns[m])
  BY ConnsSet
<1>2. Typed'
  BY <1>1 DEF TypeInv, Typed
<1>3. ASSUME NEW m \in Node
      PROVE  manager'[m] <= Len(conns'[m]) /\ listed'[m] <= Len(conns'[m])
  <2>1. /\ Len(conns'[m]) = Len(conns[m]) /\ listed'[m] = listed[m]
        /\ manager'[m] = manager[m] \/ manager'[m] = 0
    BY <1>1
  <2>2. /\ manager[m] <= Len(conns[m]) /\ listed[m] <= Len(conns[m]) /\ 0 <= Len(conns[m])
    BY DEF TypeInv, Typed, Named
  <2>3. QED
    BY <2>1, <2>2
<1>4. QED
  BY <1>1, <1>2, <1>3, NamedFrom

\* Only the node that aborts has an error.
LEMMA AbortTyped ==
  ASSUME TypeInv, NEW n \in Node, NEW why \in Errors, Abort(n, why)
  PROVE  /\ aborted' \in [Node -> Errors] /\ aborted'[n] = why
         /\ \A m \in Node \ {n} : aborted'[m] = aborted[m]
  BY DEF TypeInv, Typed, Abort

\* A message that is taken while the registries keep their entries.
LEMMA AnswerDoes ==
  ASSUME TypeInv, NEW n \in Node, OnAnswer(n)
  PROVE  /\ AnswerError(n) \in Errors
         /\ \/ AnswerError(n) # "no" /\ conns' = conns
            \/ /\ AnswerError(n) = "no" /\ manager[n] \in 1 .. Len(conns[n])
               /\ Session(n) \in Connection /\ Session(n).mode = "Offer"
               /\ Session(n).local = "set" /\ Session(n).remote = 0
               /\ Described(Session(n), wire[n][1].id) \in Connection
               /\ Set(n, manager[n], Described(Session(n), wire[n][1].id))
<1>1. Head(wire[n]) = wire[n][1] /\ wire[n][1].id \in Nat
  BY HeadIs DEF OnAnswer
<1>2. AnswerError(n) \in Errors
  BY DEF AnswerError, Errors
<1>3. CASE AnswerError(n) = "no"
  <2>1. /\ manager[n] # 0 /\ Session(n).mode = "Offer" /\ Session(n).local = "set"
        /\ Session(n).remote = 0
    BY <1>3 DEF AnswerError
  <2>2. manager[n] \in 1 .. Len(conns[n]) /\ Session(n) \in Connection
    BY <2>1, Session1
  <2>3. Described(Session(n), wire[n][1].id) \in Connection
    BY <1>1, <2>2 DEF Described, Connection
  <2>4. Set(n, manager[n], Described(Session(n), wire[n][1].id))
    BY <1>1, <1>3 DEF OnAnswer
  <2>5. QED
    BY <1>2, <1>3, <2>1, <2>2, <2>3, <2>4
<1>4. CASE AnswerError(n) # "no"
  BY <1>2, <1>4 DEF OnAnswer
<1>5. QED
  BY <1>3, <1>4

\* A candidate without a session ends the process.
LEMMA CandidateDoes ==
  ASSUME TypeInv, NEW n \in Node, OnCandidate(n)
  PROVE  \/ manager[n] = 0 /\ Abort(n, "peer") /\ conns' = conns
         \/ /\ manager[n] \in 1 .. Len(conns[n]) /\ Session(n) \in Connection
            /\ aborted' = aborted
            /\ AddCandidate(Session(n)) \in Connection
            /\ Set(n, manager[n], AddCandidate(Session(n)))
<1>1. CASE manager[n] = 0
  BY <1>1 DEF OnCandidate
<1>2. CASE manager[n] # 0
  <2>1. manager[n] \in 1 .. Len(conns[n]) /\ Session(n) \in Connection
    BY <1>2, Session1
  <2>2. AddCandidate(Session(n)) \in Connection
    BY <2>1 DEF AddCandidate, Connection
  <2>3. QED
    BY <1>2, <2>1, <2>2 DEF OnCandidate
<1>3. QED
  BY <1>1, <1>2

\* Answers and candidates keep the types.
LEMMA TypeTaken ==
  ASSUME TypeInv, NEW n \in Node, OnAnswer(n) \/ OnCandidate(n)
  PROVE  TypeInv'
<1>1. /\ wire[n] # << >> /\ wire[n][1].id <= Len(conns[Other(n)]) /\ Taken(n)
      /\ UNCHANGED <<weoffer, member, manager, listed, intros, fails, leaves>>
  BY HeadIs DEF OnAnswer, OnCandidate, Receive, counters
<1>2. WireFrom /\ wire' \in [Node -> Seq(Message)]
  BY <1>1, WireTaken
<1>3. "peer" \in Errors
  BY DEF Errors
<1>4. aborted' \in [Node -> Errors]
  <2>1. aborted \in [Node -> Errors]
    BY DEF TypeInv, Typed
  <2>2. CASE OnAnswer(n)
    BY <2>2, AnswerDoes, AbortTyped DEF OnAnswer
  <2>3. CASE OnCandidate(n)
    BY <1>3, <2>1, <2>3, CandidateDoes, AbortTyped
  <2>4. QED
    BY <2>2, <2>3
<1>5. /\ fails' \in 0 .. MaxFail /\ manager' \in [Node -> Nat]
      /\ \A m \in Node : manager'[m] = manager[m]
  BY <1>1 DEF TypeInv, Typed
<1>6. ASSUME conns' = conns PROVE TypeInv'
  <2>1. Typed'
    BY <1>1, <1>2, <1>4, <1>6 DEF TypeInv, Typed
  <2>2. ConnsFrom
    BY <1>6, ConnsSame
  <2>3. \A m \in Node : manager[m] <= Len(conns[m]) /\ listed[m] <= Len(conns[m])
    BY DEF TypeInv, Named
  <2>4. \A m \in Node : manager'[m] <= Len(conns'[m]) /\ listed'[m] <= Len(conns'[m])
    BY <1>1, <1>6, <2>3
  <2>5. QED
    BY <1>2, <2>1, <2>2, <2>4, NamedFrom
<1>7. ASSUME NEW c \in Connection, manager[n] \in 1 .. Len(conns[n]), Set(n, manager[n], c),
             c.remote = Session(n).remote \/ c.remote = wire[n][1].id
      PROVE  TypeInv'
  BY <1>1, <1>2, <1>4, <1>5, <1>7, TypeSet DEF Session
<1>8. CASE OnAnswer(n)
  <2>1. ASSUME Session(n) \in Connection
        PROVE  Described(Session(n), wire[n][1].id).remote = wire[n][1].id
    BY <2>1 DEF Described, Connection
  <2>2. QED
    BY <1>6, <1>7, <1>8, <2>1, AnswerDoes
<1>9. CASE OnCandidate(n)
  <2>1. ASSUME Session(n) \in Connection
        PROVE  AddCandidate(Session(n)).remote = Session(n).remote
    BY <2>1 DEF AddCandidate, Connection
  <2>2. QED
    BY <1>6, <1>7, <1>9, <2>1, CandidateDoes
<1>10. QED
  BY <1>8, <1>9

\* What a callback keeps of a connection.
Keeps(c, d) ==
  /\ d \in Connection /\ d.mode = c.mode /\ d.remote = c.remote
  /\ c.destroying => d.destroying
  /\ Offerer(c) => Offerer(d)

\* The observer of the remote description.
LEMMA RemoteSetDoes ==
  ASSUME TypeInv, NEW n \in Node, NEW g \in DOMAIN conns[n], OnRemoteSet(n, g)
  PROVE  \E d \in Connection :
           /\ Set(n, g, d) /\ Keeps(conns[n][g], d) /\ conns[n][g].observing
           /\ ~d.observing /\ d.local = conns[n][g].local
<1> DEFINE c == conns[n][g]
           f == c.freed \/ c.waiting > 0
           d == [c EXCEPT !.observing = FALSE, !.waiting = 0, !.freed = f]
<1>1. c \in Connection /\ f \in BOOLEAN
  BY ConnectionIs
<1>2. \A b \in BOOLEAN :
        LET e == [c EXCEPT !.observing = FALSE, !.waiting = 0, !.freed = b] IN
        Keeps(c, e) /\ ~e.observing /\ e.local = c.local
  BY <1>1 DEF Connection, Keeps, Offerer
<1>3. d = [c EXCEPT !.observing = FALSE, !.waiting = 0, !.freed = @ \/ c.waiting > 0]
  BY <1>1 DEF Connection
<1>4. Set(n, g, d) /\ c.observing
  BY <1>3 DEF OnRemoteSet
<1>5. Keeps(c, d) /\ ~d.observing /\ d.local = c.local
  BY <1>1, <1>2
<1> HIDE DEF d
<1>6. d \in Connection
  BY <1>5 DEF Keeps
<1>7. QED
  BY <1>4, <1>5, <1>6

\* The local description is set.
LEMMA LocalSetDoes ==
  ASSUME TypeInv, NEW n \in Node, NEW g \in DOMAIN conns[n], OnSuccess(n, g)
  PROVE  \E d \in Connection :
           /\ Set(n, g, d) /\ Keeps(conns[n][g], d) /\ conns[n][g].local = "creating"
           /\ d.local = "set" /\ d.observing = conns[n][g].observing
           /\ d.freed = conns[n][g].freed
<1> DEFINE c == conns[n][g]
           d == [c EXCEPT !.local = "set"]
<1>1. c \in Connection
  BY ConnectionIs
<1>2. Set(n, g, d) /\ c.local = "creating"
  BY DEF OnSuccess
<1>3. /\ Keeps(c, d) /\ d.local = "set" /\ d.observing = c.observing /\ d.freed = c.freed
  BY <1>1, <1>2 DEF Keeps, Offerer, Connection
<1> HIDE DEF d
<1>4. d \in Connection
  BY <1>3 DEF Keeps
<1>5. QED
  BY <1>2, <1>3, <1>4

\* The other callbacks keep what the signaling messages look at.
LEMMA OtherDoes ==
  ASSUME TypeInv, NEW n \in Node, NEW g \in DOMAIN conns[n],
         OnIceCandidate(n, g) \/ OnOpen(n, g)
  PROVE  \E d \in Connection :
           /\ Set(n, g, d) /\ Keeps(conns[n][g], d) /\ d.local = conns[n][g].local
           /\ d.observing = conns[n][g].observing /\ d.freed = conns[n][g].freed
<1> DEFINE c == conns[n][g]
           same(d) == /\ Keeps(c, d) /\ d.local = c.local
                      /\ d.observing = c.observing /\ d.freed = c.freed
<1>1. c \in Connection /\ MaxCands \in Nat
  BY ConnectionIs, BoundsAssumption
<1>2. CASE OnIceCandidate(n, g)
  <2> DEFINE d == [c EXCEPT !.sent = @ + 1]
  <2>1. Set(n, g, d) /\ c.sent < MaxCands
    BY <1>2 DEF OnIceCandidate
  <2>2. c.sent + 1 \in 0 .. MaxCands
    BY <1>1, <2>1 DEF Connection
  <2>3. same(d)
    BY <1>1, <2>2 DEF Connection, Keeps, Offerer
  <2> HIDE DEF d
  <2>4. d \in Connection
    BY <2>3 DEF Keeps
  <2>5. QED
    BY <2>1, <2>3, <2>4
<1>3. CASE OnOpen(n, g)
  <2> DEFINE d == [c EXCEPT !.open = TRUE]
  <2>1. Set(n, g, d)
    BY <1>3 DEF OnOpen
  <2>2. same(d)
    BY <1>1 DEF Connection, Keeps, Offerer
  <2> HIDE DEF d
  <2>3. d \in Connection
    BY <2>2 DEF Keeps
  <2>4. QED
    BY <2>1, <2>2, <2>3
<1>4. QED
  BY <1>2, <1>3

\* A failed connection leaves the manager only if some room lists the peer.
LEMMA FailedDoes ==
  ASSUME TypeInv, NEW n \in Node, NEW g \in DOMAIN conns[n], OnIceFailed(n, g)
  PROVE  /\ \E d \in Connection : Set(n, g, d) /\ Keeps(conns[n][g], d) /\ d.destroying
         /\ \/ manager' = manager
            \/ n \in member /\ listed[n] # 0 /\ manager[n] = g
               /\ manager' = [manager EXCEPT ![n] = 0]
<1> DEFINE c == conns[n][g]
<1>1. c \in Connection /\ (manager[n] # g) \in BOOLEAN
  BY ConnectionIs
<1>2. \A b \in BOOLEAN :
        LET d == [c EXCEPT !.destroying = TRUE, !.open = FALSE, !.alive = b] IN
        d \in Connection /\ Keeps(c, d) /\ d.destroying
  BY <1>1 DEF Connection, Keeps, Offerer
<1>3. LET d == [c EXCEPT !.destroying = TRUE, !.open = FALSE] IN
      d \in Connection /\ Keeps(c, d) /\ d.destroying
  BY <1>1 DEF Connection, Keeps, Offerer
<1>4. \/ Set(n, g, [c EXCEPT !.destroying = TRUE, !.open = FALSE, !.alive = manager[n] # g])
      \/ Set(n, g, [c EXCEPT !.destroying = TRUE, !.open = FALSE])
  BY DEF OnIceFailed
<1>5. \E d \in Connection : Set(n, g, d) /\ Keeps(c, d) /\ d.destroying
  BY <1>1, <1>2, <1>3, <1>4
<1>6. \/ manager' = manager
      \/ n \in member /\ listed[n] # 0 /\ manager' = Closed(n, g)
  BY DEF OnIceFailed
<1>7. QED
  BY <1>5, <1>6 DEF Closed

\* Callbacks of connections keep the types.
LEMMA TypeCallback ==
  ASSUME TypeInv, NEW n \in Node, NEW g \in DOMAIN conns[n],
         OnRemoteSet(n, g) \/ OnSuccess(n, g) \/ OnIceCandidate(n, g) \/ OnOpen(n, g)
         \/ OnIceFailed(n, g)
  PROVE  TypeInv'
<1>1. /\ g \in 1 .. Len(conns[n]) /\ g \in Nat /\ g <= Len(conns[n]) /\ g # 0
  BY ConnectionIs
<1>2. /\ manager \in [Node -> Nat] /\ aborted \in [Node -> Errors]
      /\ wire \in [Node -> Seq(Message)] /\ fails \in 0 .. MaxFail /\ MaxFail \in Nat
  BY BoundsAssumption DEF TypeInv, Typed
<1>3. PICK d \in Connection : Set(n, g, d) /\ d.remote = conns[n][g].remote
  BY RemoteSetDoes, LocalSetDoes, OtherDoes, FailedDoes DEF Keeps
<1>4. UNCHANGED <<weoffer, member, listed, intros, leaves>>
  BY DEF OnRemoteSet, OnSuccess, OnIceCandidate, OnOpen, OnIceFailed, counters
<1>5. WireFrom /\ wire' \in [Node -> Seq(Message)]
  <2>1. \A k \in Kinds : Send(n, k, g) => WireFrom /\ wire' \in [Node -> Seq(Message)]
    BY <1>1, WireSent
  <2>2. {"offer", "answer", "candidate"} \subseteq Kinds
    BY DEF Kinds
  <2>3. wire' = wire \/ \E k \in {"offer", "answer", "candidate"} : Send(n, k, g)
    BY DEF OnRemoteSet, OnSuccess, OnIceCandidate, OnOpen, OnIceFailed
  <2>4. QED
    BY <1>2, <2>1, <2>2, <2>3, WireKept
<1>6. aborted' \in [Node -> Errors]
  <2>1. "freed" \in Errors
    BY DEF Errors
  <2>2. aborted' = aborted \/ Abort(n, "freed")
    BY DEF OnRemoteSet, OnSuccess, OnIceCandidate, OnOpen, OnIceFailed
  <2>3. QED
    BY <1>2, <2>1, <2>2, AbortTyped
<1>7. fails' \in 0 .. MaxFail
  <2>1. fails' = fails \/ (fails < MaxFail /\ fails' = fails + 1)
    BY DEF OnRemoteSet, OnSuccess, OnIceCandidate, OnOpen, OnIceFailed, counters
  <2>2. QED
    BY <1>2, <2>1
<1>8. /\ manager' \in [Node -> Nat]
      /\ \A m \in Node : manager'[m] = manager[m] \/ manager'[m] = 0
  <2>1. CASE manager' = manager
    BY <1>2, <2>1
  <2>2. CASE manager' = [manager EXCEPT ![n] = 0]
    BY <1>2, <2>2
  <2>3. QED
    BY <2>1, <2>2, FailedDoes DEF OnRemoteSet, OnSuccess, OnIceCandidate, OnOpen
<1>9. QED
  BY <1>1, <1>3, <1>4, <1>5, <1>6, <1>7, <1>8, TypeSet

\* Joins, departures and introductions keep the types.
LEMMA TypeRoom ==
  ASSUME TypeInv, NEW n \in Node,
         Join(n) \/ Leave(n) \/ Introduce(n) \/ UNCHANGED vars
  PROVE  TypeInv'
<1>1. /\ member \subseteq Node /\ conns \in [Node -> Seq(Connection)]
      /\ wire \in [Node -> Seq(Message)] /\ aborted \in [Node -> Errors]
      /\ listed \in [Node -> Nat] /\ manager \in [Node -> Nat]
      /\ intros \in Nat /\ leaves \in Nat /\ MaxIntros \in Nat /\ MaxLeaves \in Nat
      /\ intros \in 0 .. MaxIntros /\ leaves \in 0 .. MaxLeaves
  BY BoundsAssumption DEF TypeInv, Typed
<1>2. /\ conns' = conns /\ manager' = manager /\ weoffer' = weoffer /\ fails' = fails
  BY DEF Join, Leave, Introduce, vars, counters
<1>3. member' \subseteq Node
  BY <1>1 DEF Join, Leave, Introduce, vars
<1>4. /\ listed' \in [Node -> Nat]
      /\ \A m \in Node : listed'[m] = listed[m] \/ listed'[m] = 0
  <2>1. CASE listed' = listed
    BY <1>1, <2>1
  <2>2. CASE listed' = [listed EXCEPT ![n] = 0]
    BY <1>1, <2>2
  <2>3. QED
    BY <2>1, <2>2 DEF Join, Leave, Introduce, vars
<1>5. aborted' \in [Node -> Errors]
  <2>1. "dangling" \in Errors
    BY DEF Errors
  <2>2. aborted' = aborted \/ Abort(n, "dangling")
    BY DEF Join, Leave, Introduce, vars
  <2>3. QED
    BY <1>1, <2>1, <2>2, AbortTyped
<1>6. intros' \in 0 .. MaxIntros /\ leaves' \in 0 .. MaxLeaves
  <2>1. \/ intros' = intros \/ (intros < MaxIntros /\ intros' = intros + 1)
    BY DEF Join, Leave, Introduce, vars, counters
  <2>2. \/ leaves' = leaves \/ (leaves < MaxLeaves /\ leaves' = leaves + 1)
    BY DEF Join, Leave, Introduce, vars, counters
  <2>3. QED
    BY <1>1, <2>1, <2>2
<1>7. WireFrom /\ wire' \in [Node -> Seq(Message)]
  <2>1. "presence" \in Kinds /\ 0 \in Nat /\ 0 <= Len(conns[n])
    BY <1>1 DEF Kinds
  <2>2. CASE Introduce(n)
    BY <2>1, <2>2, WireSent DEF Introduce
  <2>3. CASE wire' = wire
    BY <1>1, <2>3, WireKept
  <2>4. QED
    BY <2>2, <2>3 DEF Join, Leave, vars
<1>8. Typed'
  BY <1>1, <1>2, <1>3, <1>4, <1>5, <1>6, <1>7 DEF TypeInv, Typed
<1>9. \A m \in Node : manager'[m] <= Len(conns'[m]) /\ listed'[m] <= Len(conns'[m])
  <2>1. \A m \in Node : /\ manager[m] <= Len(conns[m]) /\ listed[m] <= Len(conns[m])
                        /\ 0 <= Len(conns[m])
    BY <1>1 DEF TypeInv, Named
  <2>2. QED
    BY <1>2, <1>4, <2>1
<1>10. QED
  BY <1>2, <1>7, <1>8, <1>9, ConnsSame, NamedFrom

\* Every step keeps the types.
LEMMA TypeNext == TypeInv /\ [Next]_vars => TypeInv'
<1>1. ASSUME TypeInv, Next PROVE TypeInv'
  <2>1. PICK n \in Node :
          \/ Join(n) \/ Leave(n) \/ Introduce(n)
          \/ OnPresence(n) \/ OnOffer(n) \/ OnAnswer(n) \/ OnCandidate(n)
          \/ \E g \in DOMAIN conns[n] :
               \/ OnRemoteSet(n, g) \/ OnSuccess(n, g) \/ OnIceCandidate(n, g)
               \/ OnOpen(n, g) \/ OnIceFailed(n, g)
    BY <1>1 DEF Next
  <2>2. QED
    BY <1>1, <2>1, TypeRoom, TypeOffer, TypeTaken, TypeCallback
<1>2. ASSUME TypeInv, UNCHANGED vars PROVE TypeInv'
  <2>1. PICK n \in Node : TRUE
    BY TwoNodes
  <2>2. QED
    BY <1>2, TypeRoom
<1>3. QED
  BY <1>1, <1>2

\* The types the runs check follow.
LEMMA TypeInvTypeOK == TypeInv => TypeOK
<1> SUFFICES ASSUME TypeInv PROVE TypeOK
  OBVIOUS
<1>1. ASSUME NEW n \in Node
      PROVE  /\ {manager[n], listed[n]} \subseteq {0} \cup DOMAIN conns[n]
             /\ \A c \in Conns(n) :
                  /\ c.mode \in {"Offer", "Answer"} /\ c.local \in {"creating", "set"}
                  /\ c.remote \in {0} \cup DOMAIN conns[Other(n)]
                  /\ c.sent \in 0 .. MaxCands
                  /\ {c.open, c.observing, c.freed, c.destroying, c.alive} \subseteq BOOLEAN
             /\ \A i \in DOMAIN wire[n] : wire[n][i].kind \in Kinds
  <2>1. /\ conns[n] \in Seq(Connection) /\ conns[Other(n)] \in Seq(Connection)
        /\ wire[n] \in Seq(Message) /\ manager[n] \in Nat /\ listed[n] \in Nat
        /\ manager[n] <= Len(conns[n]) /\ listed[n] <= Len(conns[n])
    BY TheOther DEF TypeInv, Typed, Named
  <2>2. {manager[n], listed[n]} \subseteq {0} \cup DOMAIN conns[n]
    BY <2>1
  <2>3. ASSUME NEW g \in DOMAIN conns[n]
        PROVE  /\ conns[n][g] \in Connection
               /\ conns[n][g].remote \in {0} \cup DOMAIN conns[Other(n)]
    <3>1. /\ g \in 1 .. Len(conns[n]) /\ conns[n][g] \in Connection
      BY ConnectionIs
    <3>2. conns[n][g].remote \in Nat /\ conns[n][g].remote <= Len(conns[Other(n)])
      BY <3>1 DEF TypeInv, Named, Connection
    <3>3. QED
      BY <2>1, <3>1, <3>2
  <2>4. ASSUME NEW i \in DOMAIN wire[n] PROVE wire[n][i].kind \in Kinds
    <3>1. wire[n][i] \in Message
      BY <2>1
    <3>2. QED
      BY <3>1 DEF Message
  <2>5. QED
    BY <2>2, <2>3, <2>4 DEF Conns, Connection
<1>2. QED
  BY <1>1 DEF TypeInv, Typed, TypeOK

\* Connections, registries, messages and counters keep their types, and no
\* registry, message or remote description names a connection never made.
THEOREM TypeCorrect == Spec => []TypeOK
<1>1. Spec => []TypeInv
  BY TypeInit, TypeNext, PTL DEF Spec
<1>2. QED
  BY <1>1, TypeInvTypeOK, PTL

----------------------------------------------------------------------------
(* What every step keeps of the connections                                *)

ConnsStep ==
  \A m \in Node :
    /\ \A h \in 1 .. Len(conns[m]) : conns[m][h].destroying => conns'[m][h].destroying
    /\ \A h \in 1 .. Len(conns'[m]) :
         \/ Offerer(conns'[m][h])
         \/ h \in 1 .. Len(conns[m]) /\ ~Offerer(conns[m][h])

\* Steps that leave the connections, change one, or add one.
LEMMA StepSame ==
  ASSUME TypeInv, conns' = conns
  PROVE  ConnsStep
<1>1. \A m \in Node : conns'[m] = conns[m]
  OBVIOUS
<1>2. QED
  BY <1>1 DEF ConnsStep

LEMMA StepSet ==
  ASSUME TypeInv, NEW n \in Node, NEW g \in 1 .. Len(conns[n]), NEW d \in Connection,
         Set(n, g, d), conns[n][g].destroying => d.destroying,
         Offerer(conns[n][g]) => Offerer(d)
  PROVE  ConnsStep
<1>1. OthersKept(n, g) /\ conns'[n][g] = d
  BY SetDoes DEF TypeInv
<1>2. QED
  BY <1>1 DEF ConnsStep, OthersKept

LEMMA StepAdd ==
  ASSUME TypeInv, NEW n \in Node, NEW d \in Connection,
         conns' = [conns EXCEPT ![n] = Append(@, d)], Offerer(d)
  PROVE  ConnsStep
<1>1. /\ Len(conns'[n]) = Len(conns[n]) + 1 /\ conns'[n][Len(conns[n]) + 1] = d
      /\ \A h \in 1 .. Len(conns[n]) : conns'[n][h] = conns[n][h]
      /\ conns'[Other(n)] = conns[Other(n)]
  BY AddDoes DEF TypeInv
<1>2. \A m \in Node : Len(conns[m]) \in Nat
  BY DEF TypeInv, Typed
<1>3. \A h \in 1 .. Len(conns[n]) + 1 : h \in 1 .. Len(conns[n]) \/ h = Len(conns[n]) + 1
  BY <1>2
<1>4. ASSUME NEW m \in Node
      PROVE  /\ \A h \in 1 .. Len(conns[m]) : conns'[m][h] = conns[m][h]
             /\ \A h \in 1 .. Len(conns'[m]) :
                  Offerer(conns'[m][h])
                  \/ (h \in 1 .. Len(conns[m]) /\ ~Offerer(conns[m][h]))
  <2>1. CASE m = n
    BY <1>1, <1>3, <2>1
  <2>2. CASE m = Other(n)
    BY <1>1, <2>2
  <2>3. QED
    BY <2>1, <2>2, TheOther
<1>5. QED
  BY <1>4 DEF ConnsStep

\* Signaling messages and callbacks keep what ConnsStep says.
LEMMA StepSession ==
  ASSUME TypeInv, NEW n \in Node, OnAnswer(n) \/ OnCandidate(n)
  PROVE  ConnsStep
<1>1. CASE conns' = conns
  BY <1>1, StepSame
<1>2. ASSUME NEW d \in Connection, manager[n] \in 1 .. Len(conns[n]), Set(n, manager[n], d),
             Session(n).destroying => d.destroying, Offerer(Session(n)) => Offerer(d)
      PROVE  ConnsStep
  BY <1>2, StepSet DEF Session
<1>3. CASE OnAnswer(n)
  <2>1. ASSUME NEW c \in Connection, NEW id \in Nat, c.local = "set"
        PROVE  /\ c.destroying => Described(c, id).destroying
               /\ Offerer(Described(c, id))
    BY <2>1 DEF Described, Connection, Offerer
  <2>2. wire[n][1].id \in Nat
    BY <1>3, HeadIs DEF OnAnswer
  <2>3. QED
    BY <1>1, <1>2, <1>3, <2>1, <2>2, AnswerDoes
<1>4. CASE OnCandidate(n)
  <2>1. ASSUME NEW c \in Connection
        PROVE  /\ c.destroying => AddCandidate(c).destroying
               /\ Offerer(c) => Offerer(AddCandidate(c))
    BY DEF AddCandidate, Current, Connection, Offerer
  <2>2. QED
    BY <1>1, <1>2, <1>4, <2>1, CandidateDoes
<1>5. QED
  BY <1>3, <1>4

LEMMA StepOffer ==
  ASSUME TypeInv, NEW n \in Node, OnPresence(n) \/ OnOffer(n)
  PROVE  ConnsStep
<1>1. CASE OnPresence(n)
  BY <1>1, PresenceDoes, NewOffer, StepSame, StepAdd DEF Offerer
<1>2. CASE OnOffer(n)
  <2>1. \A d \in Connection, id \in Nat : Answering(d, id) => Offerer(d)
    BY DEF Answering, Offerer
  <2>2. wire[n][1].id \in Nat
    BY <1>2, HeadIs DEF OnOffer
  <2>3. CASE conns' = conns
    BY <2>3, StepSame
  <2>4. CASE \E d \in Connection : /\ Answering(d, wire[n][1].id)
                                   /\ conns' = [conns EXCEPT ![n] = Append(@, d)]
    BY <2>1, <2>2, <2>4, StepAdd
  <2>5. CASE /\ manager[n] # 0
             /\ \E d \in Connection : /\ Answering(d, wire[n][1].id)
                                      /\ d.destroying = Session(n).destroying
                                      /\ Set(n, manager[n], d)
    <3>1. manager[n] \in 1 .. Len(conns[n])
      BY <2>5, Session1
    <3>2. QED
      BY <2>1, <2>2, <2>5, <3>1, StepSet DEF Session
  <2>6. QED
    BY <1>2, <2>3, <2>4, <2>5, OfferDoes
<1>3. QED
  BY <1>1, <1>2

LEMMA StepCallback ==
  ASSUME TypeInv, NEW n \in Node, NEW g \in DOMAIN conns[n],
         OnRemoteSet(n, g) \/ OnSuccess(n, g) \/ OnIceCandidate(n, g) \/ OnOpen(n, g)
         \/ OnIceFailed(n, g)
  PROVE  ConnsStep
<1>1. PICK d \in Connection : Set(n, g, d) /\ Keeps(conns[n][g], d)
  BY RemoteSetDoes, LocalSetDoes, OtherDoes, FailedDoes
<1>2. g \in 1 .. Len(conns[n])
  BY ConnectionIs
<1>3. QED
  BY <1>1, <1>2, StepSet DEF Keeps

\* Every step does.
LEMMA StepNext ==
  ASSUME TypeInv, [Next]_vars
  PROVE  ConnsStep
<1>1. CASE conns' = conns
  BY <1>1, StepSame
<1>2. CASE Next
  <2>1. PICK n \in Node :
          \/ Join(n) \/ Leave(n) \/ Introduce(n)
          \/ OnPresence(n) \/ OnOffer(n) \/ OnAnswer(n) \/ OnCandidate(n)
          \/ \E g \in DOMAIN conns[n] :
               \/ OnRemoteSet(n, g) \/ OnSuccess(n, g) \/ OnIceCandidate(n, g)
               \/ OnOpen(n, g) \/ OnIceFailed(n, g)
    BY <1>2 DEF Next
  <2>2. CASE Join(n) \/ Leave(n) \/ Introduce(n)
    BY <1>1, <2>2 DEF Join, Leave, Introduce
  <2>3. QED
    BY <2>1, <2>2, StepSession, StepOffer, StepCallback
<1>3. QED
  BY <1>1, <1>2 DEF vars

----------------------------------------------------------------------------
(* Candidates of the offering side                                         *)

\* The invariant of the offering side starts, is kept, and suffices.
LEMMA OffererNext ==
  ASSUME TypeInv, OffererInv, ConnsStep
  PROVE  OffererInv'
  BY DEF OffererInv, ConnsStep

LEMMA OffererInit == Init => OffererInv
<1> SUFFICES ASSUME Init PROVE OffererInv
  OBVIOUS
<1>1. \A n \in Node : Len(conns[n]) = 0
  BY DEF Init
<1>2. QED
  BY <1>1 DEF OffererInv

LEMMA OffererSafe ==
  ASSUME TypeInv, OffererInv
  PROVE  OffererAddsCandidates
<1>1. ASSUME NEW n \in Node, NEW g \in DOMAIN conns[n], conns[n][g].mode = "Offer",
             Current(conns[n][g]), ~conns[n][g].observing
      PROVE  conns[n][g].waiting = 0
  BY <1>1, ConnectionIs DEF OffererInv, Offerer, Current
<1>2. QED
  BY <1>1 DEF OffererAddsCandidates, Conns

\* A node that made the offer hands every candidate to WebRTC: recvCandidate
\* and the observer that empties _pendingCandidates lose none between them.
THEOREM OffererAdds == Spec => []OffererAddsCandidates
<1>1. TypeInv /\ OffererInv /\ [Next]_vars => (TypeInv /\ OffererInv)'
  BY TypeNext, StepNext, OffererNext
<1>2. Spec => [](TypeInv /\ OffererInv)
  BY <1>1, TypeInit, OffererInit, PTL DEF Spec
<1>3. TypeInv /\ OffererInv => OffererAddsCandidates
  BY OffererSafe
<1>4. QED
  BY <1>2, <1>3, PTL

----------------------------------------------------------------------------
(* The two registries                                                      *)

\* A node whose registries a step leaves alone.
LEMMA AgreeSame ==
  ASSUME TypeInv, ConnsStep, NEW m \in Node, Agree(m),
         m \in member' <=> m \in member, aborted'[m] = "no" => aborted[m] = "no",
         listed'[m] = listed[m], manager'[m] = manager[m], leaves > 0 => leaves' > 0
  PROVE  Agree(m)'
<1>1. listed[m] \in Nat /\ listed[m] <= Len(conns[m]) /\ Len(conns[m]) \in Nat
  BY DEF TypeInv, Typed, Named
<1>2. listed[m] # 0 => listed[m] \in 1 .. Len(conns[m])
  BY <1>1
<1>3. QED
  BY <1>2 DEF Agree, Alive, ConnsStep

\* createPC's end, after a new connection g or one the manager has.
LEMMA AgreeAdded ==
  ASSUME TypeInv, ConnsStep, NEW n \in Node, NEW g \in Nat, Agree(n), Alive(n),
         AddToRoom(n, g), manager'[n] = g, g # 0, member' = member,
         leaves' = leaves, manager[n] = 0 \/ manager[n] = g
  PROVE  Agree(n)'
<1>1. /\ listed[n] \in Nat /\ listed[n] <= Len(conns[n]) /\ Len(conns[n]) \in Nat
      /\ listed[n] # 0 => listed[n] \in 1 .. Len(conns[n])
  BY DEF TypeInv, Typed, Named
<1>2. CASE n \in member
  <2>1. listed'[n] = IF listed[n] = 0 THEN g ELSE listed[n]
    BY <1>2, AddToRoomDoes
  <2>2. CASE listed[n] = 0 \/ listed[n] = g
    BY <1>2, <2>1, <2>2 DEF Agree
  <2>3. CASE listed[n] # 0 /\ listed[n] # g
    <3>1. listed[n] # manager[n] /\ conns[n][listed[n]].destroying
      BY <1>2, <2>3 DEF Agree
    <3>2. conns'[n][listed[n]].destroying /\ listed'[n] = listed[n]
      BY <1>1, <2>1, <2>3, <3>1 DEF ConnsStep
    <3>3. QED
      BY <1>2, <2>3, <3>2 DEF Agree
  <2>4. QED
    BY <2>2, <2>3
<1>3. CASE n \notin member
  <2>1. aborted'[n] = "room"
    BY <1>3, AddToRoomDoes
  <2>2. QED
    BY <2>1 DEF Agree, Alive
<1>4. QED
  BY <1>2, <1>3

\* Presences and offers keep the registries together.
LEMMA AgreeOffer ==
  ASSUME TypeInv, ConnsStep, AgreeInv, NEW n \in Node, OnPresence(n) \/ OnOffer(n)
  PROVE  AgreeInv'
<1>1. member' = member /\ leaves' = leaves /\ Alive(n)
  BY DEF OnPresence, OnOffer, Receive, counters
<1>2. /\ manager \in [Node -> Nat] /\ Len(conns[n]) + 1 \in Nat /\ Len(conns[n]) + 1 # 0
  BY DEF TypeInv, Typed
<1>3. CASE UNCHANGED <<manager, listed, conns, aborted>>
  <2>1. \A m \in Node : listed'[m] = listed[m] /\ manager'[m] = manager[m]
    BY <1>3
  <2>2. aborted' = aborted
    BY <1>3
  <2>3. QED
    BY <1>1, <2>1, <2>2, AgreeSame DEF AgreeInv
<1>4. ASSUME NEW g \in Nat, g # 0, AddToRoom(n, g), manager'[n] = g,
             \A m \in Node \ {n} : manager'[m] = manager[m],
             manager[n] = 0 \/ manager[n] = g
      PROVE  AgreeInv'
  <2>1. Agree(n)'
    BY <1>1, <1>4, AgreeAdded DEF AgreeInv
  <2>2. ASSUME NEW m \in Node \ {n} PROVE Agree(m)'
    <3>1. listed'[m] = listed[m] /\ aborted'[m] = aborted[m] /\ manager'[m] = manager[m]
      BY <1>4, AddToRoomDoes
    <3>2. QED
      BY <1>1, <3>1, AgreeSame DEF AgreeInv
  <2>3. QED
    BY <2>1, <2>2 DEF AgreeInv
<1>5. CASE /\ manager[n] = 0 /\ manager' = [manager EXCEPT ![n] = Len(conns[n]) + 1]
           /\ AddToRoom(n, Len(conns[n]) + 1)
  BY <1>2, <1>4, <1>5
<1>6. CASE manager[n] # 0 /\ manager' = manager /\ AddToRoom(n, manager[n])
  BY <1>2, <1>4, <1>6
<1>7. QED
  BY <1>3, <1>5, <1>6, PresenceDoes, OfferDoes

\* A failure parts them only over the connection that failed.
LEMMA AgreeFailed ==
  ASSUME TypeInv, ConnsStep, AgreeInv, NEW n \in Node, NEW g \in DOMAIN conns[n],
         OnIceFailed(n, g)
  PROVE  AgreeInv'
<1>1. /\ member' = member /\ leaves' = leaves /\ aborted' = aborted /\ listed' = listed
  BY DEF OnIceFailed
<1>2. CASE manager' = manager
  BY <1>1, <1>2, AgreeSame DEF AgreeInv
<1>3. CASE /\ n \in member /\ listed[n] # 0 /\ manager[n] = g
           /\ manager' = [manager EXCEPT ![n] = 0]
  <2>1. PICK d \in Connection : Set(n, g, d) /\ d.destroying
    BY FailedDoes
  <2>2. /\ g \in 1 .. Len(conns[n]) /\ listed[n] \in 1 .. Len(conns[n])
        /\ manager \in [Node -> Nat]
    BY <1>3, ConnectionIs DEF TypeInv, Typed, Named
  <2>3. conns'[n][g].destroying
    BY <2>1, <2>2, SetDoes DEF TypeInv
  <2>4. manager'[n] = 0 /\ \A m \in Node \ {n} : manager'[m] = manager[m]
    BY <1>3, <2>2
  <2>5. ASSUME Alive(n) PROVE conns'[n][listed[n]].destroying
    BY <1>3, <2>2, <2>3, <2>5 DEF AgreeInv, Agree, ConnsStep
  <2>6. Agree(n)'
    <3>1. Alive(n)' => Alive(n)
      BY <1>1 DEF Alive
    <3>2. n \in member' /\ listed'[n] # 0 /\ listed'[n] = listed[n]
      BY <1>1, <1>3
    <3>3. QED
      BY <2>5, <3>1, <3>2 DEF Agree
  <2>7. \A m \in Node \ {n} : Agree(m)'
    BY <1>1, <2>4, AgreeSame DEF AgreeInv
  <2>8. QED
    BY <2>6, <2>7 DEF AgreeInv
<1>4. QED
  BY <1>2, <1>3, FailedDoes

\* Every step keeps them together.
LEMMA AgreeNext ==
  ASSUME TypeInv, ConnsStep, AgreeInv, [Next]_vars
  PROVE  AgreeInv'
<1>1. ASSUME \A m \in Node : (m \in member' <=> m \in member)
                             /\ (aborted'[m] = "no" => aborted[m] = "no"),
             listed' = listed, manager' = manager, leaves' = leaves
      PROVE  AgreeInv'
  BY <1>1, AgreeSame DEF AgreeInv
<1>2. CASE UNCHANGED vars
  BY <1>1, <1>2 DEF vars, counters
<1>3. CASE Next
  <2>1. PICK n \in Node :
          \/ Join(n) \/ Leave(n) \/ Introduce(n)
          \/ OnPresence(n) \/ OnOffer(n) \/ OnAnswer(n) \/ OnCandidate(n)
          \/ \E g \in DOMAIN conns[n] :
               \/ OnRemoteSet(n, g) \/ OnSuccess(n, g) \/ OnIceCandidate(n, g)
               \/ OnOpen(n, g) \/ OnIceFailed(n, g)
    BY <1>3 DEF Next
  <2>2. CASE Join(n)
    <3>1. /\ listed' = listed /\ manager' = manager /\ leaves' = leaves
          /\ aborted' = aborted /\ n \notin member /\ member' = member \cup {n} /\ Alive(n)
      BY <2>2 DEF Join, counters
    <3>2. Agree(n)'
      BY <3>1 DEF AgreeInv, Agree
    <3>3. \A m \in Node \ {n} : Agree(m)'
      BY <3>1, AgreeSame DEF AgreeInv
    <3>4. QED
      BY <3>2, <3>3 DEF AgreeInv
  <2>3. CASE Leave(n)
    <3>1. /\ listed' = [listed EXCEPT ![n] = 0] /\ manager' = manager
          /\ leaves' = leaves + 1 /\ leaves \in Nat /\ member' = member \ {n}
          /\ listed \in [Node -> Nat] /\ aborted \in [Node -> Errors] /\ Alive(n)
          /\ aborted' = aborted \/ Abort(n, "dangling")
      BY <2>3, BoundsAssumption DEF Leave, TypeInv, Typed
    <3>2. leaves' > 0
      BY <3>1
    <3>3. listed'[n] = 0 /\ \A m \in Node \ {n} : listed'[m] = listed[m]
      BY <3>1
    <3>4. Agree(n)'
      BY <3>1, <3>2, <3>3 DEF Agree
    <3>5. \A m \in Node \ {n} : aborted'[m] = aborted[m]
      BY <3>1 DEF Abort
    <3>6. \A m \in Node \ {n} : Agree(m)'
      BY <3>1, <3>2, <3>3, <3>5, AgreeSame DEF AgreeInv
    <3>7. QED
      BY <3>4, <3>6 DEF AgreeInv
  <2>4. CASE Introduce(n)
    BY <1>1, <2>4 DEF Introduce
  <2>5. CASE OnPresence(n) \/ OnOffer(n)
    BY <2>5, AgreeOffer
  <2>6. CASE OnAnswer(n) \/ OnCandidate(n)
    <3>1. /\ member' = member /\ listed' = listed /\ manager' = manager /\ leaves' = leaves
          /\ Alive(n) /\ aborted \in [Node -> Errors]
      BY <2>6 DEF OnAnswer, OnCandidate, Receive, counters, TypeInv, Typed
    <3>2. aborted' = aborted \/ \E why : Abort(n, why)
      BY <2>6 DEF OnAnswer, OnCandidate
    <3>3. \A m \in Node : aborted'[m] = "no" => aborted[m] = "no"
      BY <3>1, <3>2 DEF Abort, Alive
    <3>4. QED
      BY <1>1, <3>1, <3>3
  <2>7. ASSUME NEW g \in DOMAIN conns[n],
               OnRemoteSet(n, g) \/ OnSuccess(n, g) \/ OnIceCandidate(n, g) \/ OnOpen(n, g)
        PROVE  AgreeInv'
    <3>1. /\ member' = member /\ listed' = listed /\ manager' = manager /\ leaves' = leaves
          /\ Alive(n) /\ aborted \in [Node -> Errors]
      BY <2>7 DEF OnRemoteSet, OnSuccess, OnIceCandidate, OnOpen, counters, TypeInv, Typed
    <3>2. aborted' = aborted \/ Abort(n, "freed")
      BY <2>7 DEF OnRemoteSet, OnSuccess, OnIceCandidate, OnOpen
    <3>3. \A m \in Node : aborted'[m] = "no" => aborted[m] = "no"
      BY <3>1, <3>2 DEF Abort, Alive
    <3>4. QED
      BY <1>1, <3>1, <3>3
  <2>8. QED
    BY <2>1, <2>2, <2>3, <2>4, <2>5, <2>6, <2>7, AgreeFailed
<1>4. QED
  BY <1>2, <1>3

\* Both are empty at the start.
LEMMA AgreeInit == Init => AgreeInv
  BY DEF Init, AgreeInv, Agree, Alive

\* The room's list and PeerManager part only over a connection that failed or
\* a departure: nothing else createPC, addNode, remove or onClosed do, in any
\* order, makes the sender thread and the signaling disagree about the peer.
THEOREM RegistriesFollow == Spec => []RegistriesAgree
<1>1. TypeInv /\ AgreeInv /\ [Next]_vars => (TypeInv /\ AgreeInv)'
  BY TypeNext, StepNext, AgreeNext
<1>2. Spec => [](TypeInv /\ AgreeInv)
  BY <1>1, TypeInit, AgreeInit, PTL DEF Spec
<1>3. TypeInv /\ AgreeInv => RegistriesAgree
  BY DEF TypeInv, Typed, AgreeInv, Agree, RegistriesAgree
<1>4. QED
  BY <1>2, <1>3, PTL

----------------------------------------------------------------------------
(* Messages under way, by their kinds                                      *)

\* Taking the first message, by kinds.
LEMMA Popped ==
  ASSUME TypeInv, NEW n \in Node, wire[n] # << >>, Shifted(n)
  PROVE  /\ \A k : /\ Coming(n, k)' => Coming(n, k)
                   /\ Once(n, k) => Once(n, k)'
                   /\ wire[n][1].kind # k /\ Coming(n, k) => Coming(n, k)'
                   /\ wire[n][1].kind = k /\ Once(n, k) => ~Coming(n, k)'
         /\ wire[n][1].kind # "offer" /\ OfferFirst(n) => OfferFirst(n)'
<1>1. wire[n] \in Seq(Message)
  BY DEF TypeInv, Typed
<1>2. PICK L \in Nat : L = Len(wire[n]) /\ L > 0
  BY <1>1
<1>3. PICK l \in Nat : l = L - 1
  <2>1. L - 1 \in Nat
    BY <1>2
  <2>2. QED
    BY <2>1
<1>4. Len(wire'[n]) = l /\ \A i \in 1 .. l : wire'[n][i] = wire[n][i + 1]
  BY <1>2, <1>3 DEF Shifted
<1>5. /\ \A i \in 1 .. l : i + 1 \in 1 .. L /\ i + 1 # 1
      /\ \A i \in 1 .. L : i = 1 \/ (i - 1 \in 1 .. l /\ (i - 1) + 1 = i)
      /\ \A i, j \in 1 .. l : i + 1 = j + 1 => i = j
      /\ 1 \in 1 .. L
  BY <1>2, <1>3
<1>6. ASSUME NEW k
      PROVE  /\ Coming(n, k)' => Coming(n, k)
             /\ Once(n, k) => Once(n, k)'
             /\ wire[n][1].kind # k /\ Coming(n, k) => Coming(n, k)'
             /\ wire[n][1].kind = k /\ Once(n, k) => ~Coming(n, k)'
  <2>1. Coming(n, k)' <=> \E i \in 1 .. l : wire[n][i + 1].kind = k
    BY <1>4 DEF Coming
  <2>2. Coming(n, k)' => Coming(n, k)
    BY <1>2, <1>5, <2>1 DEF Coming
  <2>3. Once(n, k) => Once(n, k)'
    <3>1. SUFFICES ASSUME Once(n, k), NEW i \in 1 .. l, NEW j \in 1 .. l,
                          wire'[n][i].kind = k, wire'[n][j].kind = k
                   PROVE  i = j
      BY <1>4 DEF Once
    <3>2. wire[n][i + 1].kind = k /\ wire[n][j + 1].kind = k
      BY <1>4, <3>1
    <3>3. i + 1 = j + 1
      BY <1>2, <1>5, <3>1, <3>2 DEF Once
    <3>4. QED
      BY <1>5, <3>3
  <2>4. wire[n][1].kind # k /\ Coming(n, k) => Coming(n, k)'
    <3>1. SUFFICES ASSUME wire[n][1].kind # k, Coming(n, k) PROVE Coming(n, k)'
      OBVIOUS
    <3>2. PICK i \in 1 .. L : wire[n][i].kind = k
      BY <1>2, <3>1 DEF Coming
    <3>3. i - 1 \in 1 .. l /\ (i - 1) + 1 = i
      BY <1>5, <3>1, <3>2
    <3>4. QED
      BY <2>1, <3>2, <3>3
  <2>5. wire[n][1].kind = k /\ Once(n, k) => ~Coming(n, k)'
    BY <1>2, <1>5, <2>1 DEF Once
  <2>6. QED
    BY <2>2, <2>3, <2>4, <2>5
<1>7. ASSUME wire[n][1].kind # "offer", OfferFirst(n)
      PROVE  OfferFirst(n)'
  <2>1. ASSUME NEW i \in 1 .. l, wire'[n][i].kind = "candidate"
        PROVE  \E j \in 1 .. l : j < i /\ wire'[n][j].kind = "offer"
    <3>1. PICK j \in 1 .. L : j < i + 1 /\ wire[n][j].kind = "offer"
      BY <1>2, <1>4, <1>5, <1>7, <2>1 DEF OfferFirst
    <3>2. j - 1 \in 1 .. l /\ (j - 1) + 1 = j
      BY <1>5, <1>7, <3>1
    <3>3. j - 1 < i
      BY <1>3, <3>1
    <3>4. wire'[n][j - 1].kind = "offer"
      BY <1>4, <3>1, <3>2
    <3>5. QED
      BY <3>2, <3>3, <3>4
  <2>2. QED
    BY <1>4, <2>1 DEF OfferFirst
<1>8. QED
  BY <1>6, <1>7

\* A message at the end, by kinds.
LEMMA Pushed ==
  ASSUME TypeInv, NEW m \in Node, NEW kind,
         Len(wire'[m]) = Len(wire[m]) + 1, wire'[m][Len(wire[m]) + 1].kind = kind,
         \A i \in 1 .. Len(wire[m]) : wire'[m][i] = wire[m][i]
  PROVE  /\ \A k : /\ Coming(m, k)' <=> Coming(m, k) \/ k = kind
                   /\ Once(m, k) /\ (k # kind \/ ~Coming(m, k)) => Once(m, k)'
         /\ OfferFirst(m) /\ (kind # "candidate" \/ Coming(m, "offer")) => OfferFirst(m)'
<1>1. wire[m] \in Seq(Message)
  BY DEF TypeInv, Typed
<1>2. PICK l \in Nat : l = Len(wire[m])
  BY <1>1
<1>3. PICK L \in Nat : L = l + 1
  BY <1>2
<1>4. /\ Len(wire'[m]) = L /\ wire'[m][L].kind = kind
      /\ \A i \in 1 .. l : wire'[m][i] = wire[m][i]
  BY <1>2, <1>3
<1>5. /\ \A i \in 1 .. l : i \in 1 .. L /\ i < L
      /\ \A i \in 1 .. L : i = L \/ i \in 1 .. l
      /\ L \in 1 .. L
  BY <1>2, <1>3
<1>6. ASSUME NEW k
      PROVE  /\ Coming(m, k)' <=> Coming(m, k) \/ k = kind
             /\ Once(m, k) /\ (k # kind \/ ~Coming(m, k)) => Once(m, k)'
  <2>1. Coming(m, k)' <=> Coming(m, k) \/ k = kind
    BY <1>2, <1>4, <1>5 DEF Coming
  <2>2. Once(m, k) /\ (k # kind \/ ~Coming(m, k)) => Once(m, k)'
    BY <1>2, <1>4, <1>5 DEF Coming, Once
  <2>3. QED
    BY <2>1, <2>2
<1>7. ASSUME OfferFirst(m), kind # "candidate" \/ Coming(m, "offer")
      PROVE  OfferFirst(m)'
  <2>1. ASSUME NEW i \in 1 .. L, wire'[m][i].kind = "candidate"
        PROVE  \E j \in 1 .. L : j < i /\ wire'[m][j].kind = "offer"
    <3>1. PICK j \in 1 .. l : j < i /\ wire[m][j].kind = "offer"
      <4>1. CASE i = L
        BY <1>2, <1>4, <1>5, <1>7, <2>1, <4>1 DEF Coming
      <4>2. CASE i \in 1 .. l
        BY <1>2, <1>4, <1>7, <2>1, <4>2 DEF OfferFirst
      <4>3. QED
        BY <1>5, <4>1, <4>2
    <3>2. QED
      BY <1>4, <1>5, <3>1
  <2>2. QED
    BY <1>4, <2>1 DEF OfferFirst
<1>8. QED
  BY <1>6, <1>7

\* What a step may do to the messages under way to a node.
Same(m) ==
  /\ \A k \in {"offer", "answer"} : /\ Coming(m, k)' <=> Coming(m, k)
                                    /\ Once(m, k) => Once(m, k)'
  /\ OfferFirst(m) => OfferFirst(m)'
Less(n, kind) ==
  /\ \A k \in {"offer", "answer"} : /\ Once(n, k) => Once(n, k)'
                                    /\ k # kind => (Coming(n, k)' <=> Coming(n, k))
                                    /\ k = kind => Coming(n, k) /\ (Once(n, k) => ~Coming(n, k)')
  /\ kind # "offer" /\ OfferFirst(n) => OfferFirst(n)'
More(m, kind) ==
  /\ \A k \in {"offer", "answer"} :
       /\ Coming(m, k)' <=> Coming(m, k) \/ k = kind
       /\ Once(m, k) /\ (k # kind \/ ~Coming(m, k)) => Once(m, k)'
  /\ OfferFirst(m) /\ (kind # "candidate" \/ Coming(m, "offer")) => OfferFirst(m)'

\* Which of these a step does.
LEMMA SameWire ==
  ASSUME NEW m \in Node, wire'[m] = wire[m]
  PROVE  Same(m)
  BY DEF Same, Coming, Once, OfferFirst

LEMMA LessWire ==
  ASSUME TypeInv, NEW n \in Node, NEW kind, Receive(n, kind), Taken(n)
  PROVE  Less(n, kind) /\ Same(Other(n))
<1>1. wire[n] # << >> /\ wire[n][1].kind = kind /\ 1 \in 1 .. Len(wire[n])
  BY HeadIs
<1>2. Shifted(n) /\ wire'[Other(n)] = wire[Other(n)]
  BY <1>1, TakenDoes DEF TypeInv
<1>3. Coming(n, kind)
  BY <1>1 DEF Coming
<1>4. Less(n, kind)
  BY <1>1, <1>2, <1>3, Popped DEF Less
<1>5. QED
  BY <1>2, <1>4, SameWire, TheOther

LEMMA AskedWire ==
  ASSUME TypeInv, NEW n \in Node, Receive(n, "presence"), AskForOffer(n)
  PROVE  Same(n) /\ Same(Other(n))
<1>1. wire[n] # << >> /\ wire[n][1].kind = "presence"
  BY HeadIs
<1>2. /\ Shifted(n) /\ Len(wire'[Other(n)]) = Len(wire[Other(n)]) + 1
      /\ wire'[Other(n)][Len(wire[Other(n)]) + 1] = [kind |-> "presence", id |-> 0]
      /\ \A i \in 1 .. Len(wire[Other(n)]) : wire'[Other(n)][i] = wire[Other(n)][i]
  BY <1>1, AskDoes DEF TypeInv
<1>3. Same(n)
  BY <1>1, <1>2, Popped DEF Same
<1>4. wire'[Other(n)][Len(wire[Other(n)]) + 1].kind = "presence"
  BY <1>2
<1>5. Same(Other(n))
  BY <1>2, <1>4, Pushed, TheOther DEF Same
<1>6. QED
  BY <1>3, <1>5

LEMMA MoreWire ==
  ASSUME TypeInv, NEW n \in Node, NEW kind \in Kinds, NEW id \in Nat, Send(n, kind, id)
  PROVE  More(Other(n), kind) /\ Same(n)
<1>1. /\ wire'[n] = wire[n] /\ Len(wire'[Other(n)]) = Len(wire[Other(n)]) + 1
      /\ wire'[Other(n)][Len(wire[Other(n)]) + 1] = [kind |-> kind, id |-> id]
      /\ \A i \in 1 .. Len(wire[Other(n)]) : wire'[Other(n)][i] = wire[Other(n)][i]
  BY SendDoes DEF TypeInv
<1>2. wire'[Other(n)][Len(wire[Other(n)]) + 1].kind = kind
  BY <1>1
<1>3. QED
  BY <1>1, <1>2, Pushed, SameWire, TheOther DEF More

----------------------------------------------------------------------------
(* The only connection of a node                                           *)

SameView(m) ==
  /\ Len(conns'[m]) = Len(conns[m])
  /\ Made(m)' <=> Made(m)
  /\ Calls(m)' <=> Calls(m)
  /\ Replies(m)' <=> Replies(m)
  /\ Ready(m)' <=> Ready(m)
  /\ Told(m)' <=> Told(m)
  /\ Observes(m)' <=> Observes(m)
  /\ Freed(m)' <=> Freed(m)

\* A node whose connections a step leaves alone.
LEMMA ViewKept ==
  ASSUME NEW m \in Node, conns'[m] = conns[m]
  PROVE  SameView(m)
  BY DEF SameView, Made, Calls, Replies, Ready, Told, Observes, Freed, First

\* The only connection is the session of the manager.
LEMMA Only ==
  ASSUME TypeInv, NEW n \in Node, OneInv(n)
  PROVE  /\ manager[n] = 0 <=> ~Made(n)
         /\ Made(n) => /\ manager[n] = 1 /\ 1 \in 1 .. Len(conns[n])
                       /\ Session(n) = First(n) /\ First(n) \in Connection
         /\ \A g \in DOMAIN conns[n] : g = 1 /\ Made(n)
         /\ Made(n) => (Calls(n) <=> ~Replies(n))
         /\ Calls(n) \/ Replies(n) => Made(n)
<1>1. conns[n] \in Seq(Connection) /\ Len(conns[n]) \in Nat
  BY DEF TypeInv, Typed
<1>2. manager[n] = Len(conns[n]) /\ (Len(conns[n]) = 0 \/ Len(conns[n]) = 1)
  <2>1. manager[n] = Len(conns[n]) /\ Len(conns[n]) <= 1
    BY DEF OneInv
  <2>2. \A L \in Nat : L <= 1 => L = 0 \/ L = 1
    OBVIOUS
  <2>3. QED
    BY <1>1, <2>1, <2>2
<1>3. Made(n) => manager[n] = 1 /\ 1 \in 1 .. Len(conns[n])
  BY <1>1, <1>2 DEF Made
<1>4. Made(n) => First(n) \in Connection
  BY <1>1, <1>3 DEF First
<1>5. \A g \in DOMAIN conns[n] : g = 1 /\ Made(n)
  <2>1. \A g \in DOMAIN conns[n] : g \in 1 .. Len(conns[n])
    BY <1>1
  <2>2. QED
    BY <1>2, <2>1 DEF Made
<1>6. QED
  BY <1>2, <1>3, <1>4, <1>5 DEF Made, Calls, Replies, Session, First, Connection

\* It is changed, or made; the other node keeps its own.
LEMMA FirstSet ==
  ASSUME TypeInv, NEW n \in Node, OneInv(n), Made(n), NEW d \in Connection, Set(n, 1, d)
  PROVE  /\ Made(n)' /\ First(n)' = d /\ Len(conns'[n]) = Len(conns[n])
         /\ SameView(Other(n))
<1>1. 1 \in 1 .. Len(conns[n]) /\ Len(conns[n]) = 1
  BY Only DEF Made
<1>2. conns'[n][1] = d /\ Len(conns'[n]) = Len(conns[n])
  BY <1>1, SetDoes DEF TypeInv, OthersKept
<1>3. conns'[Other(n)] = conns[Other(n)]
  BY TheOther DEF Set, TypeInv, Typed
<1>4. QED
  BY <1>1, <1>2, <1>3, ViewKept, TheOther DEF Made, First

LEMMA FirstAdded ==
  ASSUME TypeInv, NEW n \in Node, OneInv(n), ~Made(n), NEW d \in Connection,
         conns' = [conns EXCEPT ![n] = Append(@, d)]
  PROVE  /\ Made(n)' /\ First(n)' = d /\ Len(conns[n]) + 1 = 1 /\ Len(conns'[n]) = 1
         /\ SameView(Other(n))
<1>1. Len(conns[n]) = 0
  BY DEF OneInv, Made, TypeInv, Typed
<1>2. 0 + 1 = 1
  OBVIOUS
<1>3. /\ Len(conns'[n]) = 1 /\ conns'[n][1] = d
      /\ conns'[Other(n)] = conns[Other(n)]
  <2>1. /\ Len(conns'[n]) = Len(conns[n]) + 1 /\ conns'[n][Len(conns[n]) + 1] = d
        /\ conns'[Other(n)] = conns[Other(n)]
    BY AddDoes DEF TypeInv
  <2>2. Len(conns[n]) + 1 = 1
    BY <1>1, <1>2
  <2>3. QED
    BY <2>1, <2>2
<1>4. QED
  BY <1>1, <1>2, <1>3, ViewKept, TheOther DEF Made, First

----------------------------------------------------------------------------
(* Without failures and departures                                         *)

\* All that is known of a node and the other one.
BothInv(n, m) ==
  /\ OneInv(n) /\ OneInv(m)
  /\ OfferInv(n, m) /\ AnswerInv(n, m) /\ OfferInv(m, n) /\ AnswerInv(m, n)

\* Two nodes are all there are.
LEMMA CalmBoth ==
  ASSUME NEW n \in Node
  PROVE  /\ (PairInv /\ \A k \in Node : OneInv(k)) => BothInv(n, Other(n))
         /\ BothInv(n, Other(n)) => (PairInv /\ \A k \in Node : OneInv(k))
<1>1. /\ Other(n) \in Node /\ Other(n) # n
      /\ \A k \in Node : k = n \/ k = Other(n)
  BY TheOther
<1>2. QED
  BY <1>1 DEF BothInv, PairInv

\* The other node of a step.
LEMMA OneKept ==
  ASSUME NEW m \in Node, OneInv(m), member = Node, member' = member,
         manager'[m] = manager[m], aborted'[m] = aborted[m], SameView(m),
         \A k \in {"offer", "answer"} : Once(m, k) => Once(m, k)'
  PROVE  OneInv(m)'
  BY DEF OneInv, SameView, Alive

\* A node that has a message or a connection is in the room, as the other one.
LEMMA InRoom ==
  ASSUME TypeInv, NEW n \in Node, OneInv(n), wire[n] # << >> \/ DOMAIN conns[n] # {}
  PROVE  member = Node
  BY Only DEF OneInv

\* A step that changes at most the messages.
LEMMA CalmSame ==
  ASSUME NEW n \in Node, NEW m \in Node, BothInv(n, m), member = Node,
         UNCHANGED <<member, manager, aborted>>, SameView(n), SameView(m),
         Same(n) \/ Less(n, "presence") \/ (Less(n, "offer") /\ Made(n)) \/ Less(n, "candidate"),
         Same(m) \/ More(m, "presence") \/ (More(m, "candidate") /\ (Made(m) \/ Coming(m, "offer")))
  PROVE  BothInv(n, m)'
<1>1. /\ \A k \in {"offer", "answer"} : Once(n, k) => Once(n, k)'
      /\ Coming(n, "answer")' <=> Coming(n, "answer")
      /\ Coming(n, "offer")' => Coming(n, "offer")
      /\ ~Made(n) => (Coming(n, "offer")' <=> Coming(n, "offer"))
      /\ ~Made(n) /\ OfferFirst(n) => OfferFirst(n)'
  BY DEF Same, Less, BothInv, OneInv
<1>2. /\ \A k \in {"offer", "answer"} : Once(m, k) => Once(m, k)'
      /\ Coming(m, "answer")' <=> Coming(m, "answer")
      /\ Coming(m, "offer")' <=> Coming(m, "offer")
      /\ ~Made(m) /\ OfferFirst(m) => OfferFirst(m)'
  BY DEF Same, More
<1>3. OneInv(n)' /\ OneInv(m)'
  BY <1>1, <1>2, OneKept DEF BothInv
<1>4. OfferInv(n, m)' /\ AnswerInv(n, m)'
  BY <1>1, <1>2 DEF BothInv, OfferInv, AnswerInv, SameView
<1>5. OfferInv(m, n)' /\ AnswerInv(m, n)'
  BY <1>1, <1>2 DEF BothInv, OfferInv, AnswerInv, SameView
<1>6. QED
  BY <1>3, <1>4, <1>5 DEF BothInv

\* A presence: a node that has no connection may call.
LEMMA CalmPresence ==
  ASSUME TypeInv, NEW n \in Node, NEW m \in Node, m = Other(n), BothInv(n, m), OnPresence(n)
  PROVE  BothInv(n, m)'
<1>1. /\ Receive(n, "presence") /\ wire[n] # << >> /\ member' = member /\ OneInv(n)
  BY DEF OnPresence, Receive, BothInv
<1>2. member = Node
  BY <1>1, InRoom
<1>3. CASE UNCHANGED <<manager, listed, conns, aborted>> /\ (Taken(n) \/ AskForOffer(n))
  <2>1. SameView(n) /\ SameView(m)
    BY <1>3, ViewKept
  <2>2. (Same(n) \/ Less(n, "presence")) /\ Same(m)
    BY <1>1, <1>3, LessWire, AskedWire
  <2>3. QED
    BY <1>1, <1>2, <1>3, <2>1, <2>2, CalmSame
<1>4. CASE /\ manager[n] = 0 /\ manager' = [manager EXCEPT ![n] = Len(conns[n]) + 1]
           /\ Taken(n) /\ AddToRoom(n, Len(conns[n]) + 1)
           /\ conns' = [conns EXCEPT ![n] = Append(@, NewPeer("Offer"))]
  <2>1. ~Made(n) /\ (Made(m) => (Calls(m) <=> ~Replies(m))) /\ (Calls(m) \/ Replies(m) => Made(m))
        /\ (Calls(n) \/ Replies(n) => Made(n))
    BY <1>4, Only DEF BothInv
  <2>2. /\ Made(n)' /\ First(n)' = NewPeer("Offer") /\ Len(conns[n]) + 1 = 1
        /\ Len(conns'[n]) = 1 /\ SameView(m)
    BY <1>1, <1>4, <2>1, FirstAdded, NewOffer
  <2>3. Calls(n)' /\ ~Replies(n)' /\ ~Ready(n)' /\ ~Told(n)' /\ ~Observes(n)' /\ ~Freed(n)'
    BY <2>2, NewOffer DEF Calls, Replies, Ready, Told, Observes, Freed
  <2>4. manager'[n] = 1 /\ manager'[m] = manager[m]
    BY <1>4, <2>2, TheOther DEF TypeInv, Typed
  <2>5. aborted' = aborted
    BY <1>2, <1>4 DEF AddToRoom
  <2>6. Less(n, "presence") /\ Same(m)
    BY <1>1, <1>4, LessWire
  <2>7. /\ \A k \in {"offer", "answer"} : /\ Once(n, k) => Once(n, k)'
                                          /\ Coming(n, k)' <=> Coming(n, k)
    BY <2>6 DEF Less
  <2>8. OneInv(n)'
    <3>1. Len(conns'[n]) <= 1 /\ manager'[n] = Len(conns'[n])
      BY <2>2, <2>4
    <3>2. QED
      BY <1>1, <1>2, <2>3, <2>5, <2>7, <3>1 DEF BothInv, OneInv, Alive
  <2>9. OneInv(m)'
    BY <1>1, <1>2, <2>2, <2>4, <2>5, <2>6, OneKept DEF BothInv, Same
  <2>10. OfferInv(n, m)' /\ AnswerInv(n, m)'
    BY <2>1, <2>2, <2>3, <2>7 DEF BothInv, OfferInv, AnswerInv, SameView
  <2>11. OfferInv(m, n)' /\ AnswerInv(m, n)'
    BY <2>1, <2>2, <2>3, <2>6 DEF BothInv, OfferInv, AnswerInv, SameView, Same
  <2>12. QED
    BY <2>8, <2>9, <2>10, <2>11 DEF BothInv
<1>5. QED
  BY <1>3, <1>4, PresenceDoes

\* An offer: the caller refuses it, who has no connection replies.
LEMMA CalmOffer ==
  ASSUME TypeInv, NEW n \in Node, NEW m \in Node, m = Other(n), BothInv(n, m), OnOffer(n)
  PROVE  BothInv(n, m)'
<1>1. /\ Receive(n, "offer") /\ Taken(n) /\ wire[n] # << >> /\ member' = member
      /\ OneInv(n) /\ OneInv(m)
  BY DEF OnOffer, Receive, BothInv
<1>2. member = Node
  BY <1>1, InRoom
<1>3. Less(n, "offer") /\ Same(m)
  BY <1>1, LessWire
<1>4. /\ Coming(n, "offer") /\ Calls(m) /\ Ready(m) /\ ~Replies(n)
      /\ ~Coming(n, "offer")'
  BY <1>1, <1>3 DEF Less, BothInv, OfferInv, OneInv
<1>5. CASE Made(n)
  <2>1. Session(n).mode # "Answer"
    BY <1>1, <1>4, <1>5, Only DEF Replies
  <2>2. manager[n] # 0 /\ UNCHANGED <<manager, listed, conns, aborted>>
    BY <1>1, <1>5, <2>1, Only, OfferDoes
  <2>3. SameView(n) /\ SameView(m)
    BY <2>2, ViewKept
  <2>4. QED
    BY <1>1, <1>2, <1>3, <1>5, <2>2, <2>3, CalmSame
<1>6. CASE ~Made(n)
  <2>1. /\ manager[n] = 0 /\ manager' = [manager EXCEPT ![n] = Len(conns[n]) + 1]
        /\ AddToRoom(n, Len(conns[n]) + 1)
        /\ \E c \in Connection : /\ Answering(c, wire[n][1].id) /\ ~c.freed
                                 /\ conns' = [conns EXCEPT ![n] = Append(@, c)]
    BY <1>1, <1>6, Only, OfferDoes
  <2>2. PICK c \in Connection : /\ Answering(c, wire[n][1].id) /\ ~c.freed
                                /\ conns' = [conns EXCEPT ![n] = Append(@, c)]
    BY <2>1
  <2>3. wire[n][1].id # 0
    BY <1>1, HeadIs
  <2>4. /\ Made(n)' /\ First(n)' = c /\ Len(conns[n]) + 1 = 1 /\ Len(conns'[n]) = 1
        /\ SameView(m)
    BY <1>1, <1>6, <2>2, FirstAdded
  <2>5. ~Calls(n)' /\ Replies(n)' /\ ~Ready(n)' /\ Told(n)' /\ ~Freed(n)'
    BY <2>2, <2>3, <2>4 DEF Answering, Calls, Replies, Ready, Told, Freed
  <2>6. manager'[n] = 1 /\ manager'[m] = manager[m]
    BY <2>1, <2>4, TheOther DEF TypeInv, Typed
  <2>7. aborted' = aborted
    BY <1>2, <2>1 DEF AddToRoom
  <2>8. /\ \A k \in {"offer", "answer"} : Once(n, k) => Once(n, k)'
        /\ Coming(n, "answer")' <=> Coming(n, "answer")
    BY <1>3 DEF Less
  <2>9. OneInv(n)'
    <3>1. Len(conns'[n]) <= 1 /\ manager'[n] = Len(conns'[n])
      BY <2>4, <2>6
    <3>2. QED
      BY <1>1, <1>2, <2>5, <2>7, <2>8, <3>1 DEF OneInv, Alive
  <2>10. OneInv(m)'
    BY <1>1, <1>2, <1>3, <2>4, <2>6, <2>7, OneKept DEF Same
  <2>11. ~Told(m) /\ ~Coming(n, "answer") /\ ~Coming(m, "answer") /\ ~Replies(m) /\ Made(m)
         /\ ~Coming(m, "offer")
    BY <1>1, <1>4, <1>6, Only DEF BothInv, AnswerInv, OfferInv
  <2>12. OfferInv(n, m)' /\ AnswerInv(n, m)'
    BY <1>4, <2>4, <2>5, <2>8, <2>11 DEF OfferInv, AnswerInv, SameView
  <2>13. OfferInv(m, n)' /\ AnswerInv(m, n)'
    BY <1>3, <1>4, <2>4, <2>5, <2>11 DEF OfferInv, AnswerInv, SameView, Same
  <2>14. QED
    BY <2>9, <2>10, <2>12, <2>13 DEF BothInv
<1>7. QED
  BY <1>5, <1>6

\* An answer reaches the caller that waits for it.
LEMMA CalmAnswer ==
  ASSUME TypeInv, NEW n \in Node, NEW m \in Node, m = Other(n), BothInv(n, m), OnAnswer(n)
  PROVE  BothInv(n, m)'
<1>1. /\ Receive(n, "answer") /\ Taken(n) /\ wire[n] # << >> /\ member' = member
      /\ manager' = manager /\ Abort(n, AnswerError(n)) /\ OneInv(n) /\ OneInv(m)
  BY DEF OnAnswer, Receive, BothInv
<1>2. member = Node /\ wire[n][1].id # 0 /\ wire[n][1].id \in Nat
  BY <1>1, InRoom, HeadIs
<1>3. Less(n, "answer") /\ Same(m)
  BY <1>1, LessWire
<1>4. /\ Coming(n, "answer") /\ Replies(m) /\ ~Told(n) /\ Calls(n) /\ Ready(n) /\ Told(m)
      /\ Ready(m) /\ ~Coming(n, "answer")' /\ Made(n) /\ Made(m) /\ ~Calls(m) /\ ~Replies(n)
  BY <1>1, <1>3, Only DEF Less, BothInv, AnswerInv, OneInv
<1>5. /\ manager[n] = 1 /\ Session(n) = First(n) /\ First(n) \in Connection
  BY <1>1, <1>4, Only
<1>6. AnswerError(n) = "no"
  BY <1>4, <1>5 DEF AnswerError, Calls, Ready, Told
<1>7. aborted' = aborted
  BY <1>1, <1>6 DEF Abort, OneInv, Alive, TypeInv, Typed
<1> DEFINE d == Described(First(n), wire[n][1].id)
<1>8. d \in Connection /\ Set(n, 1, d)
  BY <1>5, <1>6, AnswerDoes
<1>9. /\ d.mode = First(n).mode /\ d.local = First(n).local /\ d.remote # 0
      /\ d.freed = First(n).freed
  BY <1>2, <1>5 DEF Described, Connection
<1> HIDE DEF d
<1>10. Made(n)' /\ First(n)' = d /\ Len(conns'[n]) = Len(conns[n]) /\ SameView(m)
  BY <1>1, <1>4, <1>8, FirstSet
<1>11. Calls(n)' /\ ~Replies(n)' /\ Ready(n)' /\ Told(n)' /\ (Freed(n)' <=> Freed(n))
  BY <1>4, <1>9, <1>10 DEF Calls, Replies, Ready, Told, Freed
<1>12. /\ \A k \in {"offer", "answer"} : Once(n, k) => Once(n, k)'
       /\ Coming(n, "offer")' <=> Coming(n, "offer")
  BY <1>3 DEF Less
<1>13. OneInv(n)'
  BY <1>1, <1>2, <1>4, <1>7, <1>10, <1>11, <1>12 DEF OneInv, Alive
<1>14. OneInv(m)'
  BY <1>1, <1>2, <1>3, <1>7, <1>10, OneKept DEF Same
<1>15. OfferInv(n, m)' /\ AnswerInv(n, m)'
  BY <1>4, <1>10, <1>11, <1>12 DEF BothInv, OfferInv, AnswerInv, SameView
<1>16. OfferInv(m, n)' /\ AnswerInv(m, n)'
  BY <1>3, <1>4, <1>10, <1>11 DEF BothInv, OfferInv, AnswerInv, SameView, Same
<1>17. QED
  BY <1>13, <1>14, <1>15, <1>16 DEF BothInv

\* A step that keeps all that is seen of a connection.
LEMMA ViewSet ==
  ASSUME TypeInv, NEW n \in Node, OneInv(n), Made(n), NEW d \in Connection, Set(n, 1, d),
         d.mode = First(n).mode, d.local = First(n).local, d.remote = First(n).remote,
         d.observing = First(n).observing, d.freed = First(n).freed
  PROVE  SameView(n) /\ SameView(Other(n))
<1>1. Made(n)' /\ First(n)' = d /\ Len(conns'[n]) = Len(conns[n]) /\ SameView(Other(n))
  BY FirstSet
<1>2. QED
  BY <1>1 DEF SameView, Calls, Replies, Ready, Told, Observes, Freed

\* A candidate comes after the offer, so there is a session.
LEMMA CalmCandidate ==
  ASSUME TypeInv, NEW n \in Node, NEW m \in Node, m = Other(n), BothInv(n, m), OnCandidate(n)
  PROVE  BothInv(n, m)'
<1>1. /\ Receive(n, "candidate") /\ Taken(n) /\ wire[n] # << >> /\ member' = member
      /\ manager' = manager /\ OneInv(n)
  BY DEF OnCandidate, Receive, BothInv
<1>2. member = Node /\ wire[n][1].kind = "candidate" /\ 1 \in 1 .. Len(wire[n])
  BY <1>1, InRoom, HeadIs
<1>3. Less(n, "candidate") /\ Same(m)
  BY <1>1, LessWire
<1>4. Made(n)
  <2>1. SUFFICES ASSUME ~Made(n) PROVE FALSE
    OBVIOUS
  <2>2. OfferFirst(n)
    BY <2>1 DEF BothInv, OfferInv
  <2>3. PICK j \in 1 .. Len(wire[n]) : j < 1
    BY <1>2, <2>2 DEF OfferFirst
  <2>4. QED
    BY <2>3
<1>5. /\ manager[n] = 1 /\ Session(n) = First(n) /\ First(n) \in Connection
  BY <1>1, <1>4, Only
<1>6. /\ AddCandidate(First(n)) \in Connection /\ Set(n, 1, AddCandidate(First(n)))
      /\ aborted' = aborted
  BY <1>5, CandidateDoes
<1> DEFINE d == AddCandidate(First(n))
<1>7. /\ d.mode = First(n).mode /\ d.local = First(n).local /\ d.remote = First(n).remote
      /\ d.observing = First(n).observing /\ d.freed = First(n).freed
  BY <1>5 DEF AddCandidate, Connection
<1> HIDE DEF d
<1>8. d \in Connection /\ Set(n, 1, d)
  BY <1>6 DEF d
<1>9. SameView(n) /\ SameView(m)
  BY <1>1, <1>4, <1>7, <1>8, ViewSet
<1>10. QED
  BY <1>1, <1>2, <1>3, <1>6, <1>9, CalmSame

\* A remote description is set once, so nothing was freed.
LEMMA CalmRemoteSet ==
  ASSUME TypeInv, NEW n \in Node, NEW m \in Node, m = Other(n), BothInv(n, m),
         NEW g \in DOMAIN conns[n], OnRemoteSet(n, g)
  PROVE  BothInv(n, m)'
<1>1. /\ member' = member /\ manager' = manager /\ wire' = wire /\ OneInv(n) /\ OneInv(m)
  BY DEF OnRemoteSet, BothInv
<1>2. g = 1 /\ Made(n) /\ member = Node /\ (Calls(n) <=> ~Replies(n))
  BY <1>1, Only, InRoom
<1>3. PICK d \in Connection :
        /\ Set(n, 1, d) /\ Keeps(First(n), d) /\ First(n).observing
        /\ ~d.observing /\ d.local = First(n).local
  BY <1>2, RemoteSetDoes DEF First
<1>4. Made(n)' /\ First(n)' = d /\ Len(conns'[n]) = Len(conns[n]) /\ SameView(m)
  BY <1>1, <1>2, <1>3, FirstSet
<1>5. /\ (Calls(n)' <=> Calls(n)) /\ (Replies(n)' <=> Replies(n)) /\ (Ready(n)' <=> Ready(n))
      /\ (Told(n)' <=> Told(n)) /\ ~Observes(n)' /\ Observes(n)
  BY <1>2, <1>3, <1>4 DEF Keeps, Calls, Replies, Ready, Told, Observes
<1>6. ~Freed(n) /\ Told(n)
  BY <1>1, <1>5 DEF OneInv
<1>7. aborted' = aborted
  BY <1>2, <1>6 DEF OnRemoteSet, Freed, First
<1>8. Same(n) /\ Same(m)
  BY <1>1, SameWire
<1>9. OneInv(n)'
  BY <1>1, <1>2, <1>4, <1>5, <1>6, <1>7, <1>8 DEF OneInv, Alive, Same
<1>10. OneInv(m)'
  BY <1>1, <1>2, <1>4, <1>7, <1>8, OneKept DEF Same
<1>11. OfferInv(n, m)' /\ AnswerInv(n, m)'
  BY <1>2, <1>4, <1>5, <1>8 DEF BothInv, OfferInv, AnswerInv, SameView, Same
<1>12. OfferInv(m, n)' /\ AnswerInv(m, n)'
  BY <1>2, <1>4, <1>5, <1>8 DEF BothInv, OfferInv, AnswerInv, SameView, Same
<1>13. QED
  BY <1>9, <1>10, <1>11, <1>12 DEF BothInv

\* The local description is set, and the offer or answer sent.
LEMMA CalmLocalSet ==
  ASSUME TypeInv, NEW n \in Node, NEW m \in Node, m = Other(n), BothInv(n, m),
         NEW g \in DOMAIN conns[n], OnSuccess(n, g)
  PROVE  BothInv(n, m)'
<1>1. /\ member' = member /\ manager' = manager /\ aborted' = aborted
      /\ OneInv(n) /\ OneInv(m)
  BY DEF OnSuccess, BothInv
<1>2. /\ g = 1 /\ Made(n) /\ member = Node /\ (Calls(n) <=> ~Replies(n))
      /\ (Made(m) => (Calls(m) <=> ~Replies(m))) /\ (Calls(m) \/ Replies(m) => Made(m))
  BY <1>1, Only, InRoom
<1>3. PICK d \in Connection :
        /\ Set(n, 1, d) /\ Keeps(First(n), d) /\ First(n).local = "creating"
        /\ d.local = "set" /\ d.observing = First(n).observing /\ d.freed = First(n).freed
  BY <1>2, LocalSetDoes DEF First
<1>4. Made(n)' /\ First(n)' = d /\ Len(conns'[n]) = Len(conns[n]) /\ SameView(m)
  BY <1>1, <1>2, <1>3, FirstSet
<1>5. /\ (Calls(n)' <=> Calls(n)) /\ (Replies(n)' <=> Replies(n)) /\ Ready(n)' /\ ~Ready(n)
      /\ (Told(n)' <=> Told(n)) /\ (Observes(n)' <=> Observes(n)) /\ (Freed(n)' <=> Freed(n))
  BY <1>2, <1>3, <1>4 DEF Keeps, Calls, Replies, Ready, Told, Observes, Freed
<1>6. Send(n, IF Calls(n) THEN "offer" ELSE "answer", 1)
  BY <1>2 DEF OnSuccess, Calls, First
<1>7. Same(n) /\ More(m, IF Calls(n) THEN "offer" ELSE "answer")
  BY <1>6, MoreWire DEF Kinds
<1>8. OneInv(n)'
  BY <1>1, <1>2, <1>4, <1>5, <1>7 DEF OneInv, Alive, Same
<1>9. CASE Calls(n)
  <2>1. /\ ~Coming(m, "offer") /\ ~Replies(m) /\ ~Coming(m, "answer")
        /\ Coming(m, "offer")' /\ ~Coming(m, "answer")' /\ (OfferFirst(m) => OfferFirst(m)')
    BY <1>2, <1>5, <1>7, <1>9 DEF BothInv, OfferInv, AnswerInv, More
  <2>2. \A k \in {"offer", "answer"} : Once(m, k) => Once(m, k)'
    BY <1>7, <1>9, <2>1 DEF More
  <2>3. OneInv(m)'
    BY <1>1, <1>2, <1>4, <2>2, OneKept
  <2>4. OfferInv(n, m)' /\ AnswerInv(n, m)'
    BY <1>2, <1>4, <1>5, <1>7, <1>9, <2>1 DEF BothInv, OfferInv, AnswerInv, SameView, Same
  <2>5. OfferInv(m, n)' /\ AnswerInv(m, n)'
    BY <1>2, <1>4, <1>5, <1>9, <2>1 DEF BothInv, OfferInv, AnswerInv, SameView
  <2>6. QED
    BY <1>8, <2>3, <2>4, <2>5 DEF BothInv
<1>10. CASE ~Calls(n)
  <2>1. /\ Replies(n) /\ Calls(m) /\ Ready(m) /\ Told(n) /\ ~Told(m) /\ ~Coming(m, "answer")
        /\ ~Coming(m, "offer") /\ Made(m)
    BY <1>2, <1>5, <1>10 DEF BothInv, OfferInv, AnswerInv
  <2>2. /\ ~Coming(m, "offer")' /\ Coming(m, "answer")'
        /\ \A k \in {"offer", "answer"} : Once(m, k) => Once(m, k)'
    BY <1>7, <1>10, <2>1 DEF More
  <2>3. OneInv(m)'
    BY <1>1, <1>2, <1>4, <2>2, OneKept
  <2>4. OfferInv(n, m)' /\ AnswerInv(n, m)'
    BY <1>2, <1>4, <1>5, <1>7, <1>10, <2>1 DEF BothInv, OfferInv, AnswerInv, SameView, Same
  <2>5. OfferInv(m, n)' /\ AnswerInv(m, n)'
    BY <1>2, <1>4, <1>5, <1>10, <2>1, <2>2 DEF BothInv, OfferInv, AnswerInv, SameView
  <2>6. QED
    BY <1>8, <2>3, <2>4, <2>5 DEF BothInv
<1>11. QED
  BY <1>9, <1>10

\* Candidates and open channels.
LEMMA CalmOther ==
  ASSUME TypeInv, NEW n \in Node, NEW m \in Node, m = Other(n), BothInv(n, m),
         NEW g \in DOMAIN conns[n], OnIceCandidate(n, g) \/ OnOpen(n, g)
  PROVE  BothInv(n, m)'
<1>1. /\ member' = member /\ manager' = manager /\ aborted' = aborted
      /\ OneInv(n) /\ OneInv(m)
  BY DEF OnIceCandidate, OnOpen, BothInv
<1>2. /\ g = 1 /\ Made(n) /\ member = Node /\ (Calls(n) <=> ~Replies(n))
      /\ (Calls(m) => Made(m))
  BY <1>1, Only, InRoom
<1>3. PICK d \in Connection :
        /\ Set(n, 1, d) /\ Keeps(First(n), d) /\ d.local = First(n).local
        /\ d.observing = First(n).observing /\ d.freed = First(n).freed
  BY <1>2, OtherDoes DEF First
<1>4. SameView(n) /\ SameView(m)
  BY <1>1, <1>2, <1>3, ViewSet DEF Keeps
<1>5. CASE OnIceCandidate(n, g)
  <2>1. Ready(n) /\ Send(n, "candidate", 1)
    BY <1>2, <1>5 DEF OnIceCandidate, Ready, First
  <2>2. Same(n) /\ More(m, "candidate")
    BY <2>1, MoreWire DEF Kinds
  <2>3. Made(m) \/ Coming(m, "offer")
    BY <1>2, <2>1 DEF BothInv, OfferInv, AnswerInv
  <2>4. QED
    BY <1>1, <1>2, <1>4, <2>2, <2>3, CalmSame
<1>6. CASE OnOpen(n, g)
  <2>1. Same(n) /\ Same(m)
    BY <1>6, SameWire DEF OnOpen
  <2>2. QED
    BY <1>1, <1>2, <1>4, <2>1, CalmSame
<1>7. QED
  BY <1>5, <1>6

\* An introduction.
LEMMA CalmIntroduce ==
  ASSUME TypeInv, NEW n \in Node, NEW m \in Node, m = Other(n), BothInv(n, m), Introduce(n)
  PROVE  BothInv(n, m)'
<1>1. /\ member = Node /\ UNCHANGED <<member, manager, aborted>> /\ conns' = conns
      /\ Send(n, "presence", 0)
  BY DEF Introduce
<1>2. Same(n) /\ More(m, "presence")
  BY <1>1, MoreWire DEF Kinds
<1>3. SameView(n) /\ SameView(m)
  BY <1>1, ViewKept
<1>4. QED
  BY <1>1, <1>2, <1>3, CalmSame

\* A join.
LEMMA CalmJoin ==
  ASSUME TypeInv, NEW n \in Node, NEW m \in Node, m = Other(n), BothInv(n, m), Join(n)
  PROVE  BothInv(n, m)'
<1>1. /\ member' = member \cup {n} /\ manager' = manager /\ aborted' = aborted
      /\ conns' = conns /\ wire' = wire
  BY DEF Join
<1>2. member = Node => member' = Node
  BY <1>1
<1>3. SameView(n) /\ SameView(m) /\ Same(n) /\ Same(m)
  BY <1>1, ViewKept, SameWire
<1>4. OneInv(n)' /\ OneInv(m)'
  BY <1>1, <1>2, <1>3 DEF BothInv, OneInv, SameView, Same, Alive
<1>5. QED
  BY <1>3, <1>4 DEF BothInv, OfferInv, AnswerInv, SameView, Same

\* Every step without failure or departure keeps the invariant.
LEMMA CalmStep ==
  ASSUME TypeInv, NEW n \in Node, BothInv(n, Other(n)), Calm',
         \/ Join(n) \/ Leave(n) \/ Introduce(n)
         \/ OnPresence(n) \/ OnOffer(n) \/ OnAnswer(n) \/ OnCandidate(n)
         \/ \E g \in DOMAIN conns[n] :
              \/ OnRemoteSet(n, g) \/ OnSuccess(n, g) \/ OnIceCandidate(n, g)
              \/ OnOpen(n, g) \/ OnIceFailed(n, g)
  PROVE  BothInv(n, Other(n))'
<1>1. PICK m \in Node : m = Other(n)
  BY TheOther
<1>2. fails \in Nat /\ leaves \in Nat /\ \A i \in Nat : i + 1 # 0
  BY BoundsAssumption DEF TypeInv, Typed
<1>3. ~Leave(n) /\ \A g \in DOMAIN conns[n] : ~OnIceFailed(n, g)
  <2>1. ~(leaves' = leaves + 1) /\ ~(fails' = fails + 1)
    BY <1>2 DEF Calm
  <2>2. QED
    BY <2>1 DEF Leave, OnIceFailed
<1>4. BothInv(n, m)'
  BY <1>1, <1>3, CalmJoin, CalmIntroduce, CalmPresence, CalmOffer, CalmAnswer,
     CalmCandidate, CalmRemoteSet, CalmLocalSet, CalmOther
<1>5. QED
  BY <1>1, <1>4

LEMMA CalmNext ==
  ASSUME TypeInv, CalmInv, [Next]_vars
  PROVE  CalmInv'
<1>1. SUFFICES ASSUME Calm' PROVE (PairInv /\ \A k \in Node : OneInv(k))'
  BY DEF CalmInv
<1>2. CASE UNCHANGED vars
  <2>1. Calm
    BY <1>1, <1>2 DEF Calm, vars, counters
  <2>2. PairInv /\ \A k \in Node : OneInv(k)
    BY <2>1 DEF CalmInv
  <2>3. \A k \in Node : /\ SameView(k) /\ Same(k)
                        /\ manager'[k] = manager[k] /\ aborted'[k] = aborted[k]
                        /\ (wire'[k] # << >> => wire[k] # << >>)
    BY <1>2, ViewKept, SameWire DEF vars
  <2>4. member' = member
    BY <1>2 DEF vars
  <2>5. \A k \in Node : OneInv(k)'
    BY <2>2, <2>3, <2>4 DEF OneInv, SameView, Same, Alive
  <2>6. PairInv'
    BY <2>2, <2>3 DEF PairInv, OfferInv, AnswerInv, SameView, Same
  <2>7. QED
    BY <2>5, <2>6
<1>3. CASE Next
  <2>1. PICK n \in Node :
          \/ Join(n) \/ Leave(n) \/ Introduce(n)
          \/ OnPresence(n) \/ OnOffer(n) \/ OnAnswer(n) \/ OnCandidate(n)
          \/ \E g \in DOMAIN conns[n] :
               \/ OnRemoteSet(n, g) \/ OnSuccess(n, g) \/ OnIceCandidate(n, g)
               \/ OnOpen(n, g) \/ OnIceFailed(n, g)
    BY <1>3 DEF Next
  <2>2. fails \in Nat /\ leaves \in Nat
    BY BoundsAssumption DEF TypeInv, Typed
  <2>3. fails' = fails \/ fails' = fails + 1
    BY <2>1 DEF Join, Leave, Introduce, OnPresence, OnOffer, OnAnswer, OnCandidate,
                OnRemoteSet, OnSuccess, OnIceCandidate, OnOpen, OnIceFailed, counters
  <2>4. leaves' = leaves \/ leaves' = leaves + 1
    BY <2>1 DEF Join, Leave, Introduce, OnPresence, OnOffer, OnAnswer, OnCandidate,
                OnRemoteSet, OnSuccess, OnIceCandidate, OnOpen, OnIceFailed, counters
  <2>5. Calm
    BY <1>1, <2>2, <2>3, <2>4 DEF Calm
  <2>6. BothInv(n, Other(n))
    BY <2>5, CalmBoth DEF CalmInv
  <2>7. BothInv(n, Other(n))'
    BY <1>1, <2>1, <2>6, CalmStep
  <2>8. QED
    <3>1. /\ Other(n) \in Node /\ Other(n) # n
          /\ \A k \in Node : k = n \/ k = Other(n)
      BY TheOther
    <3>2. QED
      BY <2>7, <3>1 DEF BothInv, PairInv
<1>4. QED
  BY <1>2, <1>3

\* It holds at the start.
LEMMA CalmInit == Init => CalmInv
<1> SUFFICES ASSUME Init PROVE PairInv /\ \A k \in Node : OneInv(k)
  BY DEF CalmInv
<1>1. ASSUME NEW k \in Node
      PROVE  /\ ~Made(k) /\ ~Coming(k, "offer") /\ ~Coming(k, "answer") /\ OfferFirst(k)
             /\ OneInv(k) /\ ~Calls(k) /\ ~Replies(k) /\ ~Told(k)
  <2>1. /\ conns[k] = << >> /\ manager[k] = 0 /\ aborted[k] = "no" /\ wire[k] = << >>
    BY DEF Init
  <2>2. Len(conns[k]) = 0 /\ 1 .. Len(wire[k]) = {} /\ ~(0 = 1) /\ 0 <= 1
    BY <2>1
  <2>3. ~Made(k)
    BY <2>2 DEF Made
  <2>4. ~Coming(k, "offer") /\ ~Coming(k, "answer") /\ OfferFirst(k)
        /\ Once(k, "offer") /\ Once(k, "answer")
    BY <2>2 DEF Coming, OfferFirst, Once
  <2>5. OneInv(k)
    BY <2>1, <2>2, <2>3, <2>4 DEF OneInv, Alive, Observes, Freed
  <2>6. QED
    BY <2>3, <2>4, <2>5 DEF Calls, Replies, Told
<1>2. QED
  BY <1>1 DEF PairInv, OfferInv, AnswerInv

\* No node is aborted while it is calm.
LEMMA CalmSafe ==
  ASSUME TypeInv, CalmInv
  PROVE  AbortNeedsFailureOrLeave
<1>1. SUFFICES ASSUME NEW n \in Node, ~Alive(n) PROVE fails + leaves > 0
  BY DEF AbortNeedsFailureOrLeave
<1>2. ~Calm
  BY <1>1 DEF CalmInv, OneInv
<1>3. fails \in Nat /\ leaves \in Nat
  BY BoundsAssumption DEF TypeInv, Typed
<1>4. QED
  BY <1>2, <1>3 DEF Calm

\* While nothing fails and nobody leaves, createPC, recvSDP, recvCandidate and
\* their observers meet no assertion, exception or deleted candidate, in any
\* order of introductions and messages and whoever makes the offer, both at
\* once included.
THEOREM CalmNeverAborts == Spec => []AbortNeedsFailureOrLeave
<1>1. TypeInv /\ CalmInv /\ [Next]_vars => (TypeInv /\ CalmInv)'
  BY TypeNext, CalmNext
<1>2. Spec => [](TypeInv /\ CalmInv)
  BY <1>1, TypeInit, CalmInit, PTL DEF Spec
<1>3. TypeInv /\ CalmInv => AbortNeedsFailureOrLeave
  BY CalmSafe
<1>4. QED
  BY <1>2, <1>3, PTL
============================================================================
