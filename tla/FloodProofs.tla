---------------------------- MODULE FloodProofs ----------------------------
(***************************************************************************)
(* Every property of Flood, for every room, every set of late channels and *)
(* every window.                                                           *)
(*                                                                         *)
(* Where a message may be handled, where its flood may stop and how far it *)
(* spreads follows from what every copy, queued or on the wire, says of    *)
(* its history (FloodInv): it is addressed as its originator addressed it, *)
(* unless the sender re-addressed it to the peer it goes to; and a message *)
(* to one member is only broadcast by its originator.                      *)
(*                                                                         *)
(* How often it is handled follows from what the window says (WindowInv):  *)
(* of two puts of a hash the earlier one is out of sight.  That it arrives *)
(* follows from what is in flight (FlightInv): a node that owes a peer a   *)
(* message has it queued or on its way until the peer has heard of it.     *)
(*                                                                         *)
(* The last part shows that the window of hashes, which Flood keeps as the *)
(* sequence of all puts, is the ring of CircularBuffer.                    *)
(***************************************************************************)
EXTENDS Flood, FiniteSetTheorems, TLAPS

----------------------------------------------------------------------------
(* Types                                                                   *)

LEMMA TypeInit == Init => TypeOK
<1> SUFFICES ASSUME Init PROVE TypeOK
  OBVIOUS
<1>1. NoJob \in [task : Task \cup {NoOne}, left : SUBSET Node]
  BY DEF NoJob
<1>2. job \in [Node -> [task : Task \cup {NoOne}, left : SUBSET Node]]
  BY <1>1 DEF Init
<1>3. smq \in [Node -> Seq(Task)] /\ wire \in [Links -> Seq(Message)]
      /\ seen \in [Node -> Seq(Hash)]
  BY DEF Init
<1>4. QED
  BY <1>2, <1>3, LinksAssumption DEF Init, TypeOK, To

LEMMA PutType ==
  ASSUME TypeOK, NEW n \in Node, NEW h \in Hash, PutHash(n, h)
  PROVE  seen' \in [Node -> Seq(Hash)]
  BY DEF TypeOK, PutHash

LEMMA PushType ==
  ASSUME TypeOK, NEW n \in Node, NEW t \in Task, Push(n, t)
  PROVE  smq' \in [Node -> Seq(Task)]
  BY DEF TypeOK, Push

LEMMA TailType ==
  ASSUME TypeOK, NEW n \in Node, smq[n] # << >>
  PROVE  /\ Head(smq[n]) \in Task /\ Tail(smq[n]) \in Seq(Task)
         /\ [smq EXCEPT ![n] = Tail(smq[n])] \in [Node -> Seq(Task)]
<1>1. smq[n] \in Seq(Task)
  BY DEF TypeOK
<1>2. Head(smq[n]) \in Task /\ Tail(smq[n]) \in Seq(Task)
  BY <1>1
<1>3. QED
  BY <1>2 DEF TypeOK

LEMMA SendType ==
  ASSUME TypeOK, NEW n \in Node, NEW m \in Peers(n), NEW h \in Hash, NEW to \in To,
         Send(n, m, h, to)
  PROVE  wire' \in [Links -> Seq(Message)]
<1>1. [hash |-> h, to |-> to] \in Message /\ <<n, m>> \in Links
  BY DEF Message, Peers
<1>2. QED
  BY <1>1 DEF TypeOK, Send

LEMMA CountType ==
  ASSUME NEW f \in [Node -> [Hash -> Nat]], NEW n \in Node, NEW h \in Hash
  PROVE  /\ Count(f, n, h) \in [Node -> [Hash -> Nat]]
         /\ Count(f, n, h)[n][h] = f[n][h] + 1
         /\ \A k \in Node, g \in Hash :
              k # n \/ g # h => Count(f, n, h)[k][g] = f[k][g]
  BY DEF Count

LEMMA TaskTypes ==
  ASSUME NEW h \in Hash, NEW to \in To
  PROVE  Direct(h, to) \in Task /\ Broadcast(h, to) \in Task
  BY DEF Direct, Broadcast, Task

(* What Receive finds on the wire, and that it leaves the wire well typed. *)
LEMMA ReceiveType ==
  ASSUME TypeOK, NEW n \in Node, NEW m \in Node, Receive(n, m)
  PROVE  /\ Head(wire[<<m, n>>]) \in Message
         /\ wire' \in [Links -> Seq(Message)]
<1>1. wire[<<m, n>>] \in Seq(Message) /\ wire[<<m, n>>] # << >> /\ <<m, n>> \in Links
  BY DEF TypeOK, Receive
<1>2. Head(wire[<<m, n>>]) \in Message /\ Tail(wire[<<m, n>>]) \in Seq(Message)
  BY <1>1
<1>3. QED
  BY <1>1, <1>2 DEF TypeOK, Receive

LEMMA OriginateType ==
  ASSUME TypeOK, NEW n \in Node, NEW h \in Hash, NEW to \in To, Originate(n, h, to)
  PROVE  /\ origin' \in [Hash -> To] /\ dest' \in [Hash -> To]
         /\ handled' \in [Node -> [Hash -> Nat]] /\ passed' \in [Node -> [Hash -> Nat]]
         /\ redirected' \subseteq Node \X Hash
  BY DEF TypeOK, Originate, To

LEMMA TypeStep == TypeOK /\ [Next]_vars => TypeOK'
<1> SUFFICES ASSUME TypeOK, [Next]_vars PROVE TypeOK'
  OBVIOUS
<1>1. CASE UNCHANGED vars
  BY <1>1 DEF vars, history, TypeOK
<1>2. ASSUME NEW n \in Node, NEW m \in Node, OpenChannel(n, m)
      PROVE  TypeOK'
  BY <1>2 DEF OpenChannel, history, TypeOK
<1>3. ASSUME NEW n \in Node, NEW h \in Hash, Broadcast2Room(n, h)
      PROVE  TypeOK'
  <2>1. NoOne \in To /\ Broadcast(h, NoOne) \in Task
    BY TaskTypes DEF To
  <2>2. QED
    BY <1>3, <2>1, PutType, PushType, OriginateType DEF Broadcast2Room, TypeOK
<1>4. ASSUME NEW n \in Node, NEW to \in Node, NEW h \in Hash, Send2Client(n, h, to)
      PROVE  TypeOK'
  <2>1. to \in To /\ FirstTask(n, h, to) \in Task
    BY TaskTypes DEF To, FirstTask
  <2>2. QED
    BY <1>4, <2>1, PutType, PushType, OriginateType DEF Send2Client, TypeOK
<1>5. ASSUME NEW n \in Node, Take(n)
      PROVE  TypeOK'
  <2>1. Head(smq[n]) \in Task /\ smq' \in [Node -> Seq(Task)]
    BY <1>5, TailType DEF Take
  <2>2. Peers(n) \subseteq Node
    BY DEF Peers
  <2>3. /\ job' \in [Node -> [task : Task \cup {NoOne}, left : SUBSET Node]]
        /\ \A k \in Node \ {n} : job'[k] = job[k]
        /\ job'[n] \in {NoJob, [task |-> Head(smq[n]), left |-> Peers(n)]}
    BY <1>5, <2>1, <2>2 DEF Take, TypeOK, NoJob
  <2>4. \A k \in Node : job'[k] # NoJob => /\ job'[k].task \in Task
                                          /\ job'[k].left \subseteq Peers(k)
    <3> SUFFICES ASSUME NEW k \in Node, job'[k] # NoJob
                 PROVE  job'[k].task \in Task /\ job'[k].left \subseteq Peers(k)
      OBVIOUS
    <3>1. CASE k = n
      BY <2>1, <2>3, <3>1
    <3>2. CASE k # n
      BY <2>1, <2>3, <3>2 DEF TypeOK
    <3>3. QED
      BY <3>1, <3>2
  <2>5. QED
    BY <1>5, <2>1, <2>3, <2>4 DEF Take, history, TypeOK
<1>6. ASSUME NEW n \in Node, NEW m \in Node, SendNext(n, m)
      PROVE  TypeOK'
  <2> DEFINE t == job[n].task
             left == job[n].left \ {m}
  <2>1. t \in Task /\ left \subseteq Peers(n) /\ left \subseteq Node /\ m \in Peers(n)
    BY <1>6 DEF SendNext, TypeOK
  <2>2. t.hash \in Hash /\ t.to \in To
    BY <2>1 DEF Task
  <2>3. wire' \in [Links -> Seq(Message)]
    BY <1>6, <2>1, <2>2, SendType DEF SendNext, TypeOK
  <2>4. smq' \in [Node -> Seq(Task)] /\ redirected' \subseteq Node \X Hash
    <3>1. Direct(t.hash, m) \in Task
      BY <2>2, TaskTypes DEF To
    <3>2. \/ smq' = smq /\ redirected' = redirected
          \/ Push(n, Direct(t.hash, m)) /\ redirected' = redirected \cup {<<m, t.hash>>}
      BY <1>6 DEF SendNext, Redirect
    <3>3. smq' \in [Node -> Seq(Task)]
      BY <3>1, <3>2, PushType DEF TypeOK
    <3>4. redirected' \subseteq Node \X Hash
      BY <2>2, <3>2 DEF TypeOK
    <3>5. QED
      BY <3>3, <3>4
  <2>5. /\ job' \in [Node -> [task : Task \cup {NoOne}, left : SUBSET Node]]
        /\ \A k \in Node \ {n} : job'[k] = job[k]
        /\ job'[n] \in {NoJob, [task |-> t, left |-> left]}
    BY <1>6, <2>1 DEF SendNext, TypeOK, NoJob
  <2>6. \A k \in Node : job'[k] # NoJob => /\ job'[k].task \in Task
                                          /\ job'[k].left \subseteq Peers(k)
    <3> SUFFICES ASSUME NEW k \in Node, job'[k] # NoJob
                 PROVE  job'[k].task \in Task /\ job'[k].left \subseteq Peers(k)
      OBVIOUS
    <3>1. CASE k = n
      BY <2>1, <2>5, <3>1
    <3>2. CASE k # n
      BY <2>1, <2>5, <3>2 DEF TypeOK
    <3>3. QED
      BY <3>1, <3>2
  <2>7. QED
    BY <1>6, <2>3, <2>4, <2>5, <2>6 DEF SendNext, TypeOK
<1>7. ASSUME NEW n \in Node, SendDirect(n)
      PROVE  TypeOK'
  <2> DEFINE t == Head(smq[n])
             rest == Tail(smq[n])
  <2>1. t \in Task /\ rest \in Seq(Task) /\ t.hash \in Hash /\ t.to \in To
    BY <1>7, TailType DEF SendDirect, Task
  <2>2. smq' \in [Node -> Seq(Task)]
    <3>1. Append(rest, t) \in Seq(Task)
      BY <2>1
    <3>2. \E q \in Seq(Task) : smq' = [smq EXCEPT ![n] = q]
      BY <1>7, <2>1, <3>1 DEF SendDirect
    <3>3. QED
      BY <3>2 DEF TypeOK
  <2>3. wire' \in [Links -> Seq(Message)]
    BY <1>7, <2>1, SendType DEF SendDirect, TypeOK
  <2>4. QED
    BY <1>7, <2>2, <2>3 DEF SendDirect, history, TypeOK
<1>8. ASSUME NEW n \in Node, NEW m \in Node, Receive(n, m)
      PROVE  TypeOK'
  <2> DEFINE x == Head(wire[<<m, n>>])
  <2>1. x \in Message /\ x.hash \in Hash /\ x.to \in To /\ wire' \in [Links -> Seq(Message)]
    BY <1>8, ReceiveType DEF Message
  <2>2. /\ smq' \in [Node -> Seq(Task)] /\ seen' \in [Node -> Seq(Hash)]
        /\ handled' \in [Node -> [Hash -> Nat]] /\ passed' \in [Node -> [Hash -> Nat]]
    <3>1. CASE DropDuplicate
      BY <3>1 DEF DropDuplicate, TypeOK
    <3>2. CASE Accept(n, x)
      <4>1. seen' \in [Node -> Seq(Hash)]
        BY <2>1, <3>2, PutType DEF Accept
      <4>2. smq' \in [Node -> Seq(Task)]
        <5>1. Direct(x.hash, x.to) \in Task /\ Broadcast(x.hash, x.to) \in Task
          BY <2>1, TaskTypes
        <5>2. \/ smq' = smq
              \/ Push(n, Direct(x.hash, x.to))
              \/ Push(n, Broadcast(x.hash, x.to))
          BY <3>2 DEF Accept, RelayDirected, RelayToRoom
        <5>3. QED
          BY <5>1, <5>2, PushType DEF TypeOK
      <4>3. handled' \in [Node -> [Hash -> Nat]] /\ passed' \in [Node -> [Hash -> Nat]]
        <5>1. /\ handled' = handled \/ handled' = Count(handled, n, x.hash)
              /\ passed' = passed \/ passed' = Count(passed, n, x.hash)
          BY <3>2 DEF Accept
        <5>2. handled \in [Node -> [Hash -> Nat]] /\ passed \in [Node -> [Hash -> Nat]]
          BY DEF TypeOK
        <5>3. /\ Count(handled, n, x.hash) \in [Node -> [Hash -> Nat]]
              /\ Count(passed, n, x.hash) \in [Node -> [Hash -> Nat]]
          BY <2>1, <5>2, CountType
        <5>4. QED
          BY <5>1, <5>2, <5>3
      <4>4. QED
        BY <4>1, <4>2, <4>3
    <3>3. QED
      BY <1>8, <3>1, <3>2 DEF Receive
  <2>3. QED
    BY <1>8, <2>1, <2>2 DEF Receive, TypeOK
<1>9. QED
  BY <1>1, <1>2, <1>3, <1>4, <1>5, <1>6, <1>7, <1>8 DEF Next

(* The queues hold tasks, the channels messages, and a sender is busy with *)
(* peers of its node only.                                                 *)
THEOREM TypeCorrect == Spec => []TypeOK
  BY TypeInit, TypeStep, PTL DEF Spec

----------------------------------------------------------------------------
(* The inductive invariant                                                 *)

\* A message to one member may be handled or taken in at m.
Reaches(h, m) == dest[h] \in {NoOne, m} \/ m \in Peers(origin[h])

\* What a task of n, and a message x on its way to m, say of their history.
TaskInv(n, t) ==
  /\ origin[t.hash] # NoOne
  /\ t.type = "broadcast" => /\ t.to = dest[t.hash]
                             /\ dest[t.hash] = NoOne \/ origin[t.hash] = n
  /\ t.type = "direct" => /\ t.to = dest[t.hash] \/ <<t.to, t.hash>> \in redirected
                          /\ Reaches(t.hash, t.to)

CopyInv(m, x) ==
  /\ origin[x.hash] # NoOne
  /\ \/ x.to = dest[x.hash]
     \/ x.to = m /\ <<m, x.hash>> \in redirected
  /\ Reaches(x.hash, m)

QueueInv == \A n \in Node : \A i \in DOMAIN smq[n] : TaskInv(n, smq[n][i])
JobInv == \A n \in Node : job[n] # NoJob => /\ job[n].task.type = "broadcast"
                                            /\ TaskInv(n, job[n].task)
WireInv == \A n, m \in Node : <<n, m>> \in Links =>
             \A i \in DOMAIN wire[<<n, m>>] : CopyInv(m, wire[<<n, m>>][i])
TookInv == \A n \in Node, h \in Hash :
             handled[n][h] > 0 \/ passed[n][h] > 0 => origin[h] # NoOne

HistInv ==
  TookInv /\ MisdeliveredOnlyByRedirect /\ StoppedOnlyByRedirect /\ DirectedStaysNear

FloodInv == QueueInv /\ JobInv /\ WireInv /\ HistInv

LEMMA InvInit == Init => FloodInv
<1> SUFFICES ASSUME Init PROVE FloodInv
  OBVIOUS
<1>1. QueueInv /\ JobInv /\ WireInv
  BY DEF Init, QueueInv, JobInv, WireInv
<1>2. HistInv
  BY DEF Init, HistInv, TookInv, MisdeliveredOnlyByRedirect, StoppedOnlyByRedirect,
     DirectedStaysNear
<1>3. QED
  BY <1>1, <1>2 DEF FloodInv

(* The history of a message that was sent stays, and re-addressing is      *)
(* never forgotten.                                                        *)
Steady ==
  /\ \A h \in Hash : origin[h] # NoOne => origin'[h] = origin[h] /\ dest'[h] = dest[h]
  /\ redirected \subseteq redirected'

LEMMA UnchangedIsSteady ==
  ASSUME UNCHANGED <<origin, dest>>, redirected \subseteq redirected'
  PROVE  Steady
  BY DEF Steady

LEMMA OriginateIsSteady ==
  ASSUME TypeOK, NEW n \in Node, NEW h \in Hash, NEW to \in To, Originate(n, h, to)
  PROVE  /\ Steady
         /\ origin[h] = NoOne /\ origin'[h] = n /\ dest'[h] = to
         /\ \A g \in Hash \ {h} : origin'[g] = origin[g] /\ dest'[g] = dest[g]
  BY DEF TypeOK, Originate, Steady

LEMMA TaskSteady ==
  ASSUME Steady, NEW n \in Node, NEW t \in Task, TaskInv(n, t)
  PROVE  TaskInv(n, t)'
<1>1. t.hash \in Hash
  BY DEF Task
<1>2. origin'[t.hash] = origin[t.hash] /\ dest'[t.hash] = dest[t.hash]
  BY <1>1 DEF Steady, TaskInv
<1>3. QED
  BY <1>2 DEF Steady, TaskInv, Reaches

LEMMA CopySteady ==
  ASSUME Steady, NEW m \in Node, NEW x \in Message, CopyInv(m, x)
  PROVE  CopyInv(m, x)'
<1>1. x.hash \in Hash
  BY DEF Message
<1>2. origin'[x.hash] = origin[x.hash] /\ dest'[x.hash] = dest[x.hash]
  BY <1>1 DEF Steady, CopyInv
<1>3. QED
  BY <1>2 DEF Steady, CopyInv, Reaches

\* Every task of the queues after the step is one of before, or t at n.
LEMMA QueueStep ==
  ASSUME TypeOK, TypeOK', QueueInv, Steady,
         NEW n \in Node, NEW t \in Task, TaskInv(n, t)',
         \A k \in Node : \A i \in DOMAIN smq'[k] :
           \/ \E j \in DOMAIN smq[k] : smq'[k][i] = smq[k][j]
           \/ k = n /\ smq'[k][i] = t
  PROVE  QueueInv'
<1> SUFFICES ASSUME NEW k \in Node, NEW i \in DOMAIN smq'[k],
                    NEW u \in Task, u = smq'[k][i]
             PROVE  TaskInv(k, u)'
  <2>1. \A k \in Node : \A i \in DOMAIN smq'[k] : smq'[k][i] \in Task
    BY DEF TypeOK
  <2>2. QED
    BY <2>1 DEF QueueInv, TaskInv
<1>1. CASE k = n /\ u = t
  BY <1>1
<1>2. ASSUME NEW j \in DOMAIN smq[k], u = smq[k][j]
      PROVE  TaskInv(k, u)'
  <2>1. TaskInv(k, u)
    BY <1>2 DEF QueueInv
  <2>2. QED
    BY <2>1, TaskSteady
<1>3. QED
  BY <1>1, <1>2

LEMMA QueueStays ==
  ASSUME TypeOK, QueueInv, Steady, smq' = smq
  PROVE  QueueInv'
<1> SUFFICES ASSUME NEW k \in Node, NEW i \in DOMAIN smq[k],
                    NEW u \in Task, u = smq[k][i]
             PROVE  TaskInv(k, u)'
  <2>1. \A k \in Node : \A i \in DOMAIN smq[k] : smq[k][i] \in Task
    BY DEF TypeOK
  <2>2. QED
    BY <2>1 DEF QueueInv, TaskInv
<1>1. TaskInv(k, u)
  BY DEF QueueInv
<1>2. QED
  BY <1>1, TaskSteady

LEMMA QueuePushed ==
  ASSUME TypeOK, TypeOK', QueueInv, Steady,
         NEW n \in Node, NEW t \in Task, TaskInv(n, t)', Push(n, t)
  PROVE  QueueInv'
<1>1. smq \in [Node -> Seq(Task)]
  BY DEF TypeOK
<1>2. \A k \in Node : \A i \in DOMAIN smq'[k] :
        \/ \E j \in DOMAIN smq[k] : smq'[k][i] = smq[k][j]
        \/ k = n /\ smq'[k][i] = t
  <2> SUFFICES ASSUME NEW k \in Node, NEW i \in DOMAIN smq'[k]
               PROVE  \/ \E j \in DOMAIN smq[k] : smq'[k][i] = smq[k][j]
                      \/ k = n /\ smq'[k][i] = t
    OBVIOUS
  <2>1. CASE k = n
    BY <1>1, <2>1 DEF Push
  <2>2. CASE k # n
    BY <1>1, <2>2 DEF Push
  <2>3. QED
    BY <2>1, <2>2
<1>3. QED
  BY <1>2, QueueStep

LEMMA QueueTaken ==
  ASSUME TypeOK, TypeOK', QueueInv, Steady, NEW n \in Node, smq[n] # << >>,
         \/ smq' = [smq EXCEPT ![n] = Tail(smq[n])]
         \/ smq' = [smq EXCEPT ![n] = Append(Tail(smq[n]), Head(smq[n]))]
  PROVE  QueueInv'
<1>1. smq \in [Node -> Seq(Task)] /\ smq[n] \in Seq(Task)
  BY DEF TypeOK
<1>2. Head(smq[n]) \in Task /\ Head(smq[n]) = smq[n][1] /\ 1 \in DOMAIN smq[n]
  BY <1>1
<1> PICK t \in Task : t = Head(smq[n])
  BY <1>2
<1>3. TaskInv(n, t)'
  <2>1. TaskInv(n, t)
    BY <1>2 DEF QueueInv
  <2>2. QED
    BY <2>1, TaskSteady
<1>4. \A k \in Node : \A i \in DOMAIN smq'[k] :
        \/ \E j \in DOMAIN smq[k] : smq'[k][i] = smq[k][j]
        \/ k = n /\ smq'[k][i] = t
  <2> SUFFICES ASSUME NEW k \in Node, NEW i \in DOMAIN smq'[k]
               PROVE  \/ \E j \in DOMAIN smq[k] : smq'[k][i] = smq[k][j]
                      \/ k = n /\ smq'[k][i] = t
    OBVIOUS
  <2>1. CASE k # n
    BY <1>1, <2>1
  <2>2. CASE k = n /\ smq' = [smq EXCEPT ![n] = Tail(smq[n])]
    BY <1>1, <2>2
  <2>3. CASE k = n /\ smq' = [smq EXCEPT ![n] = Append(Tail(smq[n]), Head(smq[n]))]
    <3>1. Tail(smq[n]) \in Seq(Task) /\ smq'[k] = Append(Tail(smq[n]), t)
      BY <1>1, <2>3
    <3>2. CASE i \in DOMAIN Tail(smq[n])
      <4>1. smq'[k][i] = smq[n][i + 1] /\ i + 1 \in DOMAIN smq[n]
        BY <1>1, <3>1, <3>2
      <4>2. QED
        BY <2>3, <4>1
    <3>3. CASE i = Len(Tail(smq[n])) + 1
      BY <2>3, <3>1, <3>3
    <3>4. QED
      BY <3>1, <3>2, <3>3
  <2>4. QED
    BY <2>1, <2>2, <2>3
<1>5. QED
  BY <1>2, <1>3, <1>4, QueueStep

(* The same for the channels: every message on them after the step is one  *)
(* of before, or x on its way to m.                                        *)
LEMMA WireStep ==
  ASSUME TypeOK, TypeOK', WireInv, Steady,
         NEW m \in Node, NEW x \in Message, CopyInv(m, x)',
         \A k, l \in Node : <<k, l>> \in Links => \A i \in DOMAIN wire'[<<k, l>>] :
           \/ \E j \in DOMAIN wire[<<k, l>>] :
                wire'[<<k, l>>][i] = wire[<<k, l>>][j]
           \/ l = m /\ wire'[<<k, l>>][i] = x
  PROVE  WireInv'
<1> SUFFICES ASSUME NEW k \in Node, NEW l \in Node, <<k, l>> \in Links,
                    NEW i \in DOMAIN wire'[<<k, l>>],
                    NEW y \in Message, y = wire'[<<k, l>>][i]
             PROVE  CopyInv(l, y)'
  <2>1. \A k, l \in Node : <<k, l>> \in Links =>
          \A i \in DOMAIN wire'[<<k, l>>] : wire'[<<k, l>>][i] \in Message
    <3>1. \A q \in Links : wire'[q] \in Seq(Message)
      BY DEF TypeOK
    <3>2. \A q \in Seq(Message) : \A i \in DOMAIN q : q[i] \in Message
      OBVIOUS
    <3>3. QED
      BY <3>1, <3>2
  <2>2. QED
    BY <2>1 DEF WireInv, CopyInv
<1>1. CASE l = m /\ y = x
  BY <1>1
<1>2. ASSUME NEW j \in DOMAIN wire[<<k, l>>], y = wire[<<k, l>>][j]
      PROVE  CopyInv(l, y)'
  <2>1. CopyInv(l, y)
    BY <1>2 DEF WireInv
  <2>2. QED
    BY <2>1, CopySteady
<1>3. QED
  BY <1>1, <1>2

LEMMA WireStays ==
  ASSUME TypeOK, WireInv, Steady, wire' = wire
  PROVE  WireInv'
<1> SUFFICES ASSUME NEW k \in Node, NEW l \in Node, <<k, l>> \in Links,
                    NEW i \in DOMAIN wire[<<k, l>>],
                    NEW y \in Message, y = wire[<<k, l>>][i]
             PROVE  CopyInv(l, y)'
  <2>1. \A k, l \in Node : <<k, l>> \in Links =>
          \A i \in DOMAIN wire[<<k, l>>] : wire[<<k, l>>][i] \in Message
    <3>1. \A q \in Links : wire[q] \in Seq(Message)
      BY DEF TypeOK
    <3>2. \A q \in Seq(Message) : \A i \in DOMAIN q : q[i] \in Message
      OBVIOUS
    <3>3. QED
      BY <3>1, <3>2
  <2>2. QED
    BY <2>1 DEF WireInv, CopyInv
<1>1. CopyInv(l, y)
  BY DEF WireInv
<1>2. QED
  BY <1>1, CopySteady

LEMMA WireSent ==
  ASSUME TypeOK, TypeOK', WireInv, Steady, NEW n \in Node, NEW m \in Peers(n),
         NEW h \in Hash, NEW to \in To, Send(n, m, h, to),
         NEW x \in Message, x = [hash |-> h, to |-> to], CopyInv(m, x)'
  PROVE  WireInv'
<1>1. wire \in [Links -> Seq(Message)] /\ m \in Node /\ <<n, m>> \in Links
  BY DEF TypeOK, Peers
<1>2. wire' = [wire EXCEPT ![<<n, m>>] = Append(wire[<<n, m>>], x)]
  BY DEF Send
<1>3. \A k, l \in Node : <<k, l>> \in Links => \A i \in DOMAIN wire'[<<k, l>>] :
        \/ \E j \in DOMAIN wire[<<k, l>>] :
             wire'[<<k, l>>][i] = wire[<<k, l>>][j]
        \/ l = m /\ wire'[<<k, l>>][i] = x
  <2> SUFFICES ASSUME NEW k \in Node, NEW l \in Node, <<k, l>> \in Links,
                      NEW i \in DOMAIN wire'[<<k, l>>]
               PROVE  \/ \E j \in DOMAIN wire[<<k, l>>] :
                           wire'[<<k, l>>][i] = wire[<<k, l>>][j]
                      \/ l = m /\ wire'[<<k, l>>][i] = x
    OBVIOUS
  <2>1. CASE <<k, l>> # <<n, m>>
    <3>1. wire'[<<k, l>>] = wire[<<k, l>>]
      BY <1>1, <1>2, <2>1
    <3>2. QED
      BY <3>1
  <2>2. CASE <<k, l>> = <<n, m>>
    <3>1. wire'[<<k, l>>] = Append(wire[<<k, l>>], x) /\ l = m
      BY <1>1, <1>2, <2>2
    <3>2. wire[<<k, l>>] \in Seq(Message)
      BY <1>1
    <3>3. QED
      BY <3>1, <3>2
  <2>3. QED
    BY <2>1, <2>2
<1>4. QED
  BY <1>1, <1>3, WireStep

(* What is received leaves the wire, and was on its way to n.              *)
LEMMA WireReceived ==
  ASSUME TypeOK, TypeOK', WireInv, Steady, NEW n \in Node, NEW m \in Node,
         Receive(n, m), NEW x \in Message, x = Head(wire[<<m, n>>])
  PROVE  CopyInv(n, x) /\ WireInv'
<1>1. /\ wire \in [Links -> Seq(Message)] /\ <<m, n>> \in Links
      /\ wire[<<m, n>>] \in Seq(Message) /\ wire[<<m, n>>] # << >>
      /\ wire' = [wire EXCEPT ![<<m, n>>] = Tail(wire[<<m, n>>])]
  BY DEF TypeOK, Receive
<1>2. x = wire[<<m, n>>][1] /\ 1 \in DOMAIN wire[<<m, n>>]
  BY <1>1
<1>3. CopyInv(n, x)
  BY <1>1, <1>2 DEF WireInv
<1>4. CopyInv(n, x)'
  BY <1>3, CopySteady
<1>5. \A k, l \in Node : <<k, l>> \in Links => \A i \in DOMAIN wire'[<<k, l>>] :
        \/ \E j \in DOMAIN wire[<<k, l>>] :
             wire'[<<k, l>>][i] = wire[<<k, l>>][j]
        \/ l = n /\ wire'[<<k, l>>][i] = x
  <2> SUFFICES ASSUME NEW k \in Node, NEW l \in Node, <<k, l>> \in Links,
                      NEW i \in DOMAIN wire'[<<k, l>>]
               PROVE  \E j \in DOMAIN wire[<<k, l>>] :
                         wire'[<<k, l>>][i] = wire[<<k, l>>][j]
    OBVIOUS
  <2>1. CASE <<k, l>> # <<m, n>>
    <3>1. wire'[<<k, l>>] = wire[<<k, l>>]
      BY <1>1, <2>1
    <3>2. QED
      BY <3>1
  <2>2. CASE <<k, l>> = <<m, n>>
    <3>1. wire'[<<k, l>>] = Tail(wire[<<k, l>>])
      BY <1>1, <2>2
    <3>2. wire[<<k, l>>] \in Seq(Message) /\ wire[<<k, l>>] # << >>
      BY <1>1, <2>2
    <3>3. wire'[<<k, l>>][i] = wire[<<k, l>>][i + 1] /\ i + 1 \in DOMAIN wire[<<k, l>>]
      BY <3>1, <3>2
    <3>4. QED
      BY <3>3
  <2>3. QED
    BY <2>1, <2>2
<1>6. QED
  BY <1>3, <1>4, <1>5, WireStep

(* A sender is busy with the broadcast it was, with nothing, or with t.    *)
LEMMA JobStep ==
  ASSUME JobInv, Steady, TypeOK, NEW n \in Node,
         NEW t \in Task, t.type = "broadcast", TaskInv(n, t),
         \A k \in Node \ {n} : job'[k] = job[k],
         job'[n] = NoJob \/ job'[n].task = t
  PROVE  JobInv'
<1> SUFFICES ASSUME NEW k \in Node, job'[k] # NoJob, NEW u, u = job'[k].task
             PROVE  u.type = "broadcast" /\ TaskInv(k, u)'
  BY DEF JobInv, TaskInv
<1>1. u \in Task /\ u.type = "broadcast" /\ TaskInv(k, u)
  BY DEF JobInv, TypeOK
<1>2. QED
  BY <1>1, TaskSteady

LEMMA JobStays ==
  ASSUME JobInv, Steady, TypeOK, job' = job
  PROVE  JobInv'
<1> SUFFICES ASSUME NEW k \in Node, job'[k] # NoJob, NEW u, u = job'[k].task
             PROVE  u.type = "broadcast" /\ TaskInv(k, u)'
  BY DEF JobInv, TaskInv
<1>1. u \in Task /\ u.type = "broadcast" /\ TaskInv(k, u)
  BY DEF JobInv, TypeOK
<1>2. QED
  BY <1>1, TaskSteady

(* What the runs check of the history: a step that takes nothing in keeps  *)
(* it, also when a message is first sent.                                  *)
LEMMA HistStays ==
  ASSUME HistInv, UNCHANGED <<origin, dest, handled, passed>>,
         redirected \subseteq redirected'
  PROVE  HistInv'
<1>1. TookInv' /\ DirectedStaysNear'
  BY DEF HistInv, TookInv, DirectedStaysNear
<1>2. MisdeliveredOnlyByRedirect' /\ StoppedOnlyByRedirect'
  BY DEF HistInv, MisdeliveredOnlyByRedirect, StoppedOnlyByRedirect
<1>3. QED
  BY <1>1, <1>2 DEF HistInv

LEMMA HistOriginate ==
  ASSUME TypeOK, HistInv, NEW n \in Node, NEW h \in Hash, NEW to \in To,
         Originate(n, h, to)
  PROVE  HistInv'
<1>1. /\ UNCHANGED <<handled, passed, redirected>>
      /\ origin'[h] = n /\ n # NoOne
      /\ \A g \in Hash \ {h} : origin'[g] = origin[g] /\ dest'[g] = dest[g]
  BY OriginateIsSteady, LinksAssumption DEF Originate
<1>2. \A k \in Node : /\ handled[k][h] \in Nat /\ passed[k][h] \in Nat
                      /\ ~(handled[k][h] > 0) /\ ~(passed[k][h] > 0)
  <2>1. origin[h] = NoOne
    BY OriginateIsSteady
  <2>2. handled \in [Node -> [Hash -> Nat]] /\ passed \in [Node -> [Hash -> Nat]]
    BY DEF TypeOK
  <2>3. QED
    BY <2>1, <2>2 DEF HistInv, TookInv
<1>3. TookInv'
  BY <1>1 DEF HistInv, TookInv
<1>4. MisdeliveredOnlyByRedirect'
  BY <1>1, <1>2 DEF HistInv, MisdeliveredOnlyByRedirect
<1>5. StoppedOnlyByRedirect'
  BY <1>1, <1>2 DEF HistInv, StoppedOnlyByRedirect
<1>6. DirectedStaysNear'
  BY <1>1, <1>2 DEF HistInv, DirectedStaysNear
<1>7. QED
  BY <1>3, <1>4, <1>5, <1>6 DEF HistInv

LEMMA HistAccept ==
  ASSUME TypeOK, HistInv, NEW n \in Node, NEW x \in Message, CopyInv(n, x),
         Accept(n, x), UNCHANGED <<origin, dest, redirected>>
  PROVE  HistInv'
<1> DEFINE h == x.hash
<1>1. h \in Hash /\ x.to \in To /\ n # NoOne
  BY LinksAssumption DEF Message
<1>2. /\ handled \in [Node -> [Hash -> Nat]] /\ passed \in [Node -> [Hash -> Nat]]
      /\ handled[n][h] \in Nat /\ passed[n][h] \in Nat
  BY <1>1 DEF TypeOK
<1>3. \A k \in Node, g \in Hash : k # n \/ g # h =>
        handled'[k][g] = handled[k][g] /\ passed'[k][g] = passed[k][g]
  <2>1. /\ handled' = handled \/ handled' = Count(handled, n, h)
        /\ passed' = passed \/ passed' = Count(passed, n, h)
    BY DEF Accept
  <2>2. \A k \in Node, g \in Hash : k # n \/ g # h =>
          /\ Count(handled, n, h)[k][g] = handled[k][g]
          /\ Count(passed, n, h)[k][g] = passed[k][g]
    <3>1. \A k \in Node, g \in Hash : k # n \/ g # h =>
            Count(handled, n, h)[k][g] = handled[k][g]
      BY <1>1, <1>2 DEF Count
    <3>2. \A k \in Node, g \in Hash : k # n \/ g # h =>
            Count(passed, n, h)[k][g] = passed[k][g]
      BY <1>1, <1>2 DEF Count
    <3>3. QED
      BY <3>1, <3>2
  <2>3. QED
    BY <2>1, <2>2
<1>8. /\ Count(handled, n, h)[n][h] = handled[n][h] + 1
       /\ Count(passed, n, h)[n][h] = passed[n][h] + 1
  BY <1>1, <1>2, CountType
<1>4. CASE x.to \notin {NoOne, n}
  <2>1. /\ passed'[n][h] = passed[n][h] + 1 /\ handled'[n][h] = handled[n][h]
        /\ x.to = dest[h]
    BY <1>1, <1>8, <1>4 DEF Accept, CopyInv
  <2>2. QED
    <3>1. TookInv'
      BY <1>3, <2>1 DEF HistInv, TookInv, CopyInv
    <3>2. MisdeliveredOnlyByRedirect'
      BY <1>3, <2>1 DEF HistInv, MisdeliveredOnlyByRedirect
    <3>3. StoppedOnlyByRedirect'
      BY <1>3, <1>4, <2>1 DEF HistInv, StoppedOnlyByRedirect
    <3>4. DirectedStaysNear'
      BY <1>3, <2>1 DEF HistInv, DirectedStaysNear, CopyInv, Reaches
    <3>5. QED
      BY <3>1, <3>2, <3>3, <3>4 DEF HistInv
<1>5. CASE x.to = NoOne
  <2>1. /\ passed'[n][h] = passed[n][h] + 1 /\ handled'[n][h] = handled[n][h] + 1
        /\ dest[h] = NoOne
    BY <1>1, <1>8, <1>5 DEF Accept, CopyInv
  <2>2. QED
    <3>1. TookInv'
      BY <1>3, <2>1 DEF HistInv, TookInv, CopyInv
    <3>2. MisdeliveredOnlyByRedirect'
      BY <1>3, <2>1 DEF HistInv, MisdeliveredOnlyByRedirect
    <3>3. StoppedOnlyByRedirect'
      <4>1. handled'[n][h] > passed'[n][h] => handled[n][h] > passed[n][h]
        BY <1>2, <2>1
      <4>2. QED
        BY <1>3, <4>1 DEF HistInv, StoppedOnlyByRedirect
    <3>4. DirectedStaysNear'
      BY <1>3, <2>1 DEF HistInv, DirectedStaysNear
    <3>5. QED
      BY <3>1, <3>2, <3>3, <3>4 DEF HistInv
<1>6. CASE x.to = n
  <2>1. /\ passed'[n][h] = passed[n][h] /\ handled'[n][h] = handled[n][h] + 1
        /\ dest[h] = n \/ <<n, h>> \in redirected
    BY <1>1, <1>8, <1>6 DEF Accept, CopyInv
  <2>2. QED
    <3>1. TookInv'
      BY <1>3, <2>1 DEF HistInv, TookInv, CopyInv
    <3>2. MisdeliveredOnlyByRedirect'
      BY <1>3, <2>1 DEF HistInv, MisdeliveredOnlyByRedirect
    <3>3. StoppedOnlyByRedirect'
      BY <1>1, <1>3, <2>1 DEF HistInv, StoppedOnlyByRedirect
    <3>4. DirectedStaysNear'
      BY <1>3, <2>1 DEF HistInv, DirectedStaysNear, CopyInv, Reaches
    <3>5. QED
      BY <3>1, <3>2, <3>3, <3>4 DEF HistInv
<1>7. QED
  BY <1>4, <1>5, <1>6

LEMMA InvStep == TypeOK /\ FloodInv /\ [Next]_vars => FloodInv'
<1> SUFFICES ASSUME TypeOK, FloodInv, [Next]_vars PROVE FloodInv'
  OBVIOUS
<1>0. TypeOK' /\ QueueInv /\ JobInv /\ WireInv /\ HistInv
  BY TypeStep DEF FloodInv
<1>1. ASSUME UNCHANGED <<smq, job, wire, history>>
      PROVE  FloodInv'
  <2>1. Steady /\ HistInv'
    BY <1>0, <1>1, UnchangedIsSteady, HistStays DEF history
  <2>2. QED
    BY <1>0, <1>1, <2>1, QueueStays, JobStays, WireStays DEF FloodInv
<1>2. ASSUME NEW n \in Node, NEW h \in Hash, Broadcast2Room(n, h)
      PROVE  FloodInv'
  <2>1. NoOne \in To /\ Originate(n, h, NoOne)
    BY <1>2 DEF To, Broadcast2Room
  <2>2. Steady /\ HistInv' /\ origin'[h] = n /\ dest'[h] = NoOne /\ n # NoOne
    BY <1>0, <2>1, OriginateIsSteady, HistOriginate, LinksAssumption
  <2>3. PICK t \in Task : t = Broadcast(h, NoOne)
    BY <2>1, TaskTypes
  <2>4. TaskInv(n, t)'
    BY <2>2, <2>3 DEF TaskInv, Broadcast
  <2>5. QueueInv'
    BY <1>0, <1>2, <2>2, <2>3, <2>4, QueuePushed DEF Broadcast2Room
  <2>6. QED
    BY <1>0, <1>2, <2>2, <2>5, JobStays, WireStays DEF Broadcast2Room, FloodInv
<1>3. ASSUME NEW n \in Node, NEW to \in Node, NEW h \in Hash, Send2Client(n, h, to)
      PROVE  FloodInv'
  <2>1. to \in To /\ Originate(n, h, to)
    BY <1>3 DEF To, Send2Client
  <2>2. Steady /\ HistInv' /\ origin'[h] = n /\ dest'[h] = to /\ n # NoOne
    BY <1>0, <2>1, OriginateIsSteady, HistOriginate, LinksAssumption
  <2>3. PICK t \in Task : t = FirstTask(n, h, to)
    BY <2>1, TaskTypes DEF FirstTask
  <2>4. TaskInv(n, t)'
    <3>1. t.hash = h /\ t.to = to
      BY <2>3 DEF FirstTask, Broadcast, Direct
    <3>2. QED
      BY <2>2, <3>1 DEF TaskInv, Reaches
  <2>5. QueueInv'
    BY <1>0, <1>3, <2>2, <2>3, <2>4, QueuePushed DEF Send2Client
  <2>6. QED
    BY <1>0, <1>3, <2>2, <2>5, JobStays, WireStays DEF Send2Client, FloodInv
<1>4. ASSUME NEW n \in Node, Take(n)
      PROVE  FloodInv'
  <2>1. Steady /\ HistInv' /\ WireInv'
    BY <1>0, <1>4, UnchangedIsSteady, HistStays, WireStays DEF Take, history
  <2>2. smq[n] # << >> /\ smq' = [smq EXCEPT ![n] = Tail(smq[n])]
    BY <1>4 DEF Take
  <2>3. QueueInv'
    BY <1>0, <2>1, <2>2, QueueTaken
  <2>4. PICK t \in Task : t = Head(smq[n])
    BY <2>2, TailType
  <2>5. t.type = "broadcast" /\ TaskInv(n, t)
    <3>1. smq[n] \in Seq(Task) /\ t = smq[n][1] /\ 1 \in DOMAIN smq[n]
      BY <2>2, <2>4 DEF TypeOK
    <3>2. QED
      BY <1>0, <1>4, <2>4, <3>1 DEF Take, QueueInv
  <2>6. /\ \A k \in Node \ {n} : job'[k] = job[k]
        /\ job'[n] = NoJob \/ job'[n].task = t
    BY <1>4, <2>4 DEF Take, TypeOK
  <2>7. JobInv'
    BY <1>0, <2>1, <2>5, <2>6, JobStep
  <2>8. QED
    BY <2>1, <2>3, <2>7 DEF FloodInv
<1>5. ASSUME NEW n \in Node, NEW m \in Node, SendNext(n, m)
      PROVE  FloodInv'
  <2>1. /\ job[n].task \in Task /\ m \in Peers(n)
        /\ job[n].task.type = "broadcast" /\ TaskInv(n, job[n].task)
    BY <1>0, <1>5 DEF SendNext, TypeOK, JobInv
  <2>2. PICK t \in Task : t = job[n].task
    BY <2>1
  <2>3. t.hash \in Hash /\ t.to \in To
    BY DEF Task
  <2>4. /\ origin[t.hash] # NoOne /\ t.to = dest[t.hash] /\ Reaches(t.hash, m)
    BY <2>1, <2>2 DEF TaskInv, Reaches
  <2>5. /\ UNCHANGED <<origin, dest, handled, passed>>
        /\ redirected \subseteq redirected'
        /\ \/ Send(n, m, t.hash, t.to) /\ smq' = smq
           \/ /\ Push(n, Direct(t.hash, m)) /\ wire' = wire
              /\ <<m, t.hash>> \in redirected'
    BY <1>5, <2>2 DEF SendNext, Redirect
  <2>6. Steady /\ HistInv'
    BY <1>0, <2>5, UnchangedIsSteady, HistStays
  <2>7. JobInv'
    <3>1. /\ \A k \in Node \ {n} : job'[k] = job[k]
          /\ job'[n] = NoJob \/ job'[n].task = t
      BY <1>5, <2>2 DEF SendNext, TypeOK
    <3>2. QED
      BY <1>0, <2>1, <2>2, <2>6, <3>1, JobStep
  <2>8. CASE Send(n, m, t.hash, t.to) /\ smq' = smq
    <3>1. PICK x \in Message : x = [hash |-> t.hash, to |-> t.to]
      BY <2>3 DEF Message
    <3>2. CopyInv(m, x)'
      BY <2>4, <2>5, <3>1 DEF CopyInv, Reaches
    <3>3. WireInv'
      BY <1>0, <2>1, <2>3, <2>6, <2>8, <3>1, <3>2, WireSent
    <3>4. QED
      BY <1>0, <2>6, <2>7, <2>8, <3>3, QueueStays DEF FloodInv
  <2>9. CASE /\ Push(n, Direct(t.hash, m)) /\ wire' = wire
             /\ <<m, t.hash>> \in redirected'
    <3>1. PICK u \in Task : u = Direct(t.hash, m)
      BY <2>3, TaskTypes DEF To
    <3>2. TaskInv(n, u)'
      BY <2>4, <2>5, <2>9, <3>1 DEF TaskInv, Direct, Reaches
    <3>3. QueueInv'
      BY <1>0, <2>6, <2>9, <3>1, <3>2, QueuePushed
    <3>4. QED
      BY <1>0, <2>6, <2>7, <2>9, <3>3, WireStays DEF FloodInv
  <2>10. QED
    BY <2>5, <2>8, <2>9
<1>6. ASSUME NEW n \in Node, SendDirect(n)
      PROVE  FloodInv'
  <2>1. Steady /\ HistInv' /\ JobInv'
    BY <1>0, <1>6, UnchangedIsSteady, HistStays, JobStays DEF SendDirect, history
  <2>2. QueueInv'
    BY <1>0, <1>6, <2>1, QueueTaken DEF SendDirect
  <2>3. smq[n] # << >>
    BY <1>6 DEF SendDirect
  <2>4. PICK t \in Task : t = Head(smq[n])
    BY <2>3, TailType
  <2>5. TaskInv(n, t) /\ t.type = "direct"
    <3>1. smq[n] \in Seq(Task) /\ t = smq[n][1] /\ 1 \in DOMAIN smq[n]
      BY <2>3, <2>4 DEF TypeOK
    <3>2. QED
      BY <1>0, <1>6, <2>4, <3>1 DEF SendDirect, QueueInv
  <2>6. WireInv'
    <3>1. CASE wire' = wire
      BY <1>0, <2>1, <3>1, WireStays
    <3>2. CASE t.to \in Peers(n) /\ Send(n, t.to, t.hash, t.to)
      <4>1. t.hash \in Hash /\ t.to \in To
        BY DEF Task
      <4>2. PICK x \in Message : x = [hash |-> t.hash, to |-> t.to]
        BY <4>1 DEF Message
      <4>3. CopyInv(t.to, x)
        BY <2>5, <4>2 DEF TaskInv, CopyInv
      <4>4. CopyInv(t.to, x)'
        BY <2>1, <3>2, <4>3, CopySteady DEF Peers
      <4>5. QED
        BY <1>0, <2>1, <3>2, <4>1, <4>2, <4>4, WireSent
    <3>3. QED
      BY <1>6, <2>4, <3>1, <3>2 DEF SendDirect
  <2>7. QED
    BY <2>1, <2>2, <2>6 DEF FloodInv
<1>7. ASSUME NEW n \in Node, NEW m \in Node, Receive(n, m)
      PROVE  FloodInv'
  <2>1. UNCHANGED <<open, job, origin, dest, redirected>>
    BY <1>7 DEF Receive
  <2>2. Steady /\ JobInv'
    BY <1>0, <2>1, UnchangedIsSteady, JobStays
  <2>3. PICK x \in Message : x = Head(wire[<<m, n>>])
    BY <1>7, ReceiveType
  <2>4. CopyInv(n, x) /\ WireInv'
    BY <1>0, <1>7, <2>2, <2>3, WireReceived
  <2>5. CASE DropDuplicate
    BY <1>0, <2>1, <2>2, <2>4, <2>5, HistStays, QueueStays DEF DropDuplicate, FloodInv
  <2>6. CASE Accept(n, x)
    <3>1. HistInv'
      BY <1>0, <2>1, <2>4, <2>6, HistAccept
    <3>2. QueueInv'
      <4>1. x.hash \in Hash /\ x.to \in To
        BY DEF Message
      <4>2. CASE smq' = smq
        BY <1>0, <2>2, <4>2, QueueStays
      <4>3. CASE x.to \notin {NoOne, n} /\ Push(n, Direct(x.hash, x.to))
        <5>1. PICK t \in Task : t = Direct(x.hash, x.to)
          BY <4>1, TaskTypes
        <5>2. TaskInv(n, t)'
          BY <2>1, <2>4, <4>3, <5>1 DEF TaskInv, CopyInv, Direct, Reaches
        <5>3. QED
          BY <1>0, <2>2, <4>3, <5>1, <5>2, QueuePushed
      <4>4. CASE x.to = NoOne /\ Push(n, Broadcast(x.hash, x.to))
        <5>1. PICK t \in Task : t = Broadcast(x.hash, x.to)
          BY <4>1, TaskTypes
        <5>2. n # NoOne
          BY LinksAssumption
        <5>3. TaskInv(n, t)'
          BY <2>1, <2>4, <4>4, <5>1, <5>2 DEF TaskInv, CopyInv, Broadcast
        <5>4. QED
          BY <1>0, <2>2, <4>4, <5>1, <5>3, QueuePushed
      <4>5. QED
        BY <2>6, <4>2, <4>3, <4>4 DEF Accept, RelayDirected, RelayToRoom
    <3>3. QED
      BY <2>2, <2>4, <3>1, <3>2 DEF FloodInv
  <2>7. QED
    BY <1>7, <2>3, <2>5, <2>6 DEF Receive
<1>8. CASE UNCHANGED vars
  BY <1>1, <1>8 DEF vars
<1>9. ASSUME NEW n \in Node, NEW m \in Node, OpenChannel(n, m)
      PROVE  FloodInv'
  BY <1>1, <1>9 DEF OpenChannel
<1>10. QED
  BY <1>2, <1>3, <1>4, <1>5, <1>6, <1>7, <1>8, <1>9 DEF Next

(* The history of every copy is as FloodInv says.                          *)
THEOREM Invariant == Spec => []FloodInv
  BY TypeInit, TypeStep, InvInit, InvStep, PTL DEF Spec

(* A message to one member is handled by another only if a copy was        *)
(* re-addressed to that other one.                                         *)
THEOREM Misdelivered == Spec => []MisdeliveredOnlyByRedirect
<1>1. FloodInv => MisdeliveredOnlyByRedirect
  BY DEF FloodInv, HistInv
<1>2. QED
  BY <1>1, Invariant, PTL

(* A flood stops at a node only where the copy taken in was re-addressed.  *)
THEOREM Stopped == Spec => []StoppedOnlyByRedirect
<1>1. FloodInv => StoppedOnlyByRedirect
  BY DEF FloodInv, HistInv
<1>2. QED
  BY <1>1, Invariant, PTL

(* A message to one member is taken in by that member and the peers of its *)
(* originator only, whatever is redirected.                                *)
THEOREM Near == Spec => []DirectedStaysNear
<1>1. FloodInv => DirectedStaysNear
  BY DEF FloodInv, HistInv
<1>2. QED
  BY <1>1, Invariant, PTL

----------------------------------------------------------------------------
(* How often a node takes a message in: each time it puts the hash into    *)
(* its window, and when it does, no earlier put of it is found there.  So  *)
(* all puts but one are unseen.                                            *)
Own(n, h) == IF origin[h] = n THEN 1 ELSE 0

SpacedInv == \A n \in Node, h \in Hash : \A i, j \in Puts(n, h) :
               i < j => Slot0(i) \/ j - i > N
SentInv == \A n \in Node, h \in Hash : Puts(n, h) # {} => origin[h] # NoOne
CountInv == \A n \in Node, h \in Hash :
              /\ handled[n][h] + Own(n, h) <= Cardinality(Puts(n, h))
              /\ passed[n][h] + Own(n, h) <= Cardinality(Puts(n, h))

WindowInv == SpacedInv /\ SentInv /\ CountInv

LEMMA PutsFinite ==
  ASSUME TypeOK, NEW n \in Node, NEW h \in Hash
  PROVE  /\ Puts(n, h) \subseteq 1 .. Len(seen[n]) /\ Len(seen[n]) \in Nat
         /\ IsFiniteSet(Puts(n, h)) /\ Cardinality(Puts(n, h)) \in Nat
<1>1. seen[n] \in Seq(Hash)
  BY DEF TypeOK
<1>2. Len(seen[n]) \in Nat /\ Puts(n, h) \subseteq 1 .. Len(seen[n])
  BY <1>1 DEF Puts
<1>3. IsFiniteSet(1 .. Len(seen[n]))
  BY <1>2, FS_Interval
<1>4. IsFiniteSet(Puts(n, h))
  BY <1>2, <1>3, FS_Subset
<1>5. QED
  BY <1>2, <1>4, FS_CardinalityType

LEMMA PutsAfter ==
  ASSUME TypeOK, NEW n \in Node, NEW h \in Hash, PutHash(n, h)
  PROVE  /\ Puts(n, h)' = Puts(n, h) \cup {Len(seen[n]) + 1}
         /\ Cardinality(Puts(n, h)') = Cardinality(Puts(n, h)) + 1
         /\ \A k \in Node, g \in Hash : k # n \/ g # h => Puts(k, g)' = Puts(k, g)
<1>1. /\ seen \in [Node -> Seq(Hash)] /\ seen[n] \in Seq(Hash)
      /\ seen' = [seen EXCEPT ![n] = Append(seen[n], h)]
  BY DEF TypeOK, PutHash
<1>2. seen'[n] = Append(seen[n], h) /\ \A k \in Node \ {n} : seen'[k] = seen[k]
  BY <1>1
<1>3. Puts(n, h)' = Puts(n, h) \cup {Len(seen[n]) + 1}
  BY <1>1, <1>2 DEF Puts
<1>4. Len(seen[n]) + 1 \notin Puts(n, h)
  BY <1>1 DEF Puts
<1>5. Cardinality(Puts(n, h)') = Cardinality(Puts(n, h)) + 1
  BY <1>3, <1>4, PutsFinite, FS_AddElement
<1>6. ASSUME NEW k \in Node, NEW g \in Hash, k # n \/ g # h
      PROVE  Puts(k, g)' = Puts(k, g)
  <2>1. CASE k # n
    BY <1>2, <2>1 DEF Puts
  <2>2. CASE k = n /\ g # h
    BY <1>1, <1>2, <2>2 DEF Puts
  <2>3. QED
    BY <1>6, <2>1, <2>2
<1>7. QED
  BY <1>3, <1>5, <1>6

LEMMA WindowInit == Init => WindowInv
<1> SUFFICES ASSUME Init, NEW n \in Node, NEW h \in Hash
             PROVE  /\ Puts(n, h) = {} /\ Cardinality(Puts(n, h)) = 0
                    /\ Own(n, h) = 0 /\ handled[n][h] = 0 /\ passed[n][h] = 0
  BY DEF WindowInv, SpacedInv, SentInv, CountInv
<1>1. Puts(n, h) = {}
  BY DEF Init, Puts
<1>2. Own(n, h) = 0
  BY LinksAssumption DEF Init, Own
<1>3. QED
  BY <1>1, <1>2, FS_EmptySet DEF Init

LEMMA WindowStays ==
  ASSUME WindowInv, UNCHANGED <<seen, origin, handled, passed>>
  PROVE  WindowInv'
<1>1. \A n, h : Puts(n, h)' = Puts(n, h) /\ Own(n, h)' = Own(n, h)
  BY DEF Puts, Own
<1>2. QED
  BY <1>1 DEF WindowInv, SpacedInv, SentInv, CountInv

(* The hash of a new message was never put.                                *)
LEMMA WindowOriginate ==
  ASSUME TypeOK, WindowInv, NEW n \in Node, NEW h \in Hash, NEW to \in To,
         Originate(n, h, to), PutHash(n, h)
  PROVE  WindowInv'
<1>1. /\ origin[h] = NoOne /\ origin'[h] = n /\ n # NoOne
      /\ \A g \in Hash \ {h} : origin'[g] = origin[g]
      /\ UNCHANGED <<handled, passed>>
  BY OriginateIsSteady, LinksAssumption DEF Originate
<1>2. \A k \in Node : Puts(k, h) = {}
  BY <1>1 DEF WindowInv, SentInv
<1>3. /\ Puts(n, h)' = {Len(seen[n]) + 1}
      /\ Cardinality(Puts(n, h)') = Cardinality(Puts(n, h)) + 1
      /\ \A k \in Node, g \in Hash : k # n \/ g # h => Puts(k, g)' = Puts(k, g)
  BY <1>2, PutsAfter
<1>4. SpacedInv'
  <2> SUFFICES ASSUME NEW k \in Node, NEW g \in Hash,
                      NEW i \in Puts(k, g)', NEW j \in Puts(k, g)', i < j
               PROVE  Slot0(i) \/ j - i > N
    BY DEF SpacedInv, Slot0
  <2>1. CASE k = n /\ g = h
    <3>1. Len(seen[n]) \in Nat
      BY PutsFinite
    <3>2. QED
      BY <1>3, <2>1, <3>1
  <2>2. CASE k # n \/ g # h
    BY <1>3, <2>2 DEF WindowInv, SpacedInv
  <2>3. QED
    BY <2>1, <2>2
<1>5. SentInv'
  BY <1>1, <1>2, <1>3 DEF WindowInv, SentInv
<1>6. CountInv'
  <2> SUFFICES ASSUME NEW k \in Node, NEW g \in Hash
               PROVE  /\ handled[k][g] + Own(k, g)' <= Cardinality(Puts(k, g)')
                      /\ passed[k][g] + Own(k, g)' <= Cardinality(Puts(k, g)')
    BY <1>1 DEF CountInv
  <2>1. /\ handled[k][g] \in Nat /\ passed[k][g] \in Nat
        /\ Cardinality(Puts(k, g)) \in Nat
        /\ handled[k][g] + Own(k, g) <= Cardinality(Puts(k, g))
        /\ passed[k][g] + Own(k, g) <= Cardinality(Puts(k, g))
    BY PutsFinite DEF TypeOK, WindowInv, CountInv
  <2>2. CASE k = n /\ g = h
    <3>1. Own(k, g)' = 1 /\ Own(k, g) = 0
      BY <1>1, <2>2 DEF Own
    <3>2. Cardinality(Puts(k, g)') = Cardinality(Puts(k, g)) + 1
      BY <1>3, <2>2
    <3>3. QED
      BY <2>1, <3>1, <3>2
  <2>3. CASE k # n \/ g # h
    <3>1. Own(k, g)' = Own(k, g)
      <4>1. CASE g = h
        BY <1>1, <2>3, <4>1, LinksAssumption DEF Own
      <4>2. CASE g # h
        BY <1>1, <4>2 DEF Own
      <4>3. QED
        BY <4>1, <4>2
    <3>2. QED
      BY <1>3, <2>1, <2>3, <3>1
  <2>4. QED
    BY <2>2, <2>3
<1>7. QED
  BY <1>4, <1>5, <1>6 DEF WindowInv

(* What is taken in was not found in the window.                           *)
LEMMA WindowAccept ==
  ASSUME TypeOK, WindowInv, NEW n \in Node, NEW x \in Message, CopyInv(n, x),
         ~IsExists(n, x.hash), Accept(n, x), UNCHANGED origin
  PROVE  WindowInv'
<1> DEFINE h == x.hash
<1>1. h \in Hash /\ PutHash(n, h) /\ origin[h] # NoOne
  BY DEF Message, Accept, CopyInv
<1>2. /\ Puts(n, h)' = Puts(n, h) \cup {Len(seen[n]) + 1}
      /\ Cardinality(Puts(n, h)') = Cardinality(Puts(n, h)) + 1
      /\ \A k \in Node, g \in Hash : k # n \/ g # h => Puts(k, g)' = Puts(k, g)
  BY <1>1, PutsAfter
<1>3. Len(seen[n]) \in Nat /\ Puts(n, h) \subseteq 1 .. Len(seen[n]) /\ N \in Nat
  BY <1>1, PutsFinite, WindowAssumption
<1>4. SpacedInv'
  <2> SUFFICES ASSUME NEW k \in Node, NEW g \in Hash,
                      NEW i \in Puts(k, g)', NEW j \in Puts(k, g)', i < j
               PROVE  Slot0(i) \/ j - i > N
    BY DEF SpacedInv, Slot0
  <2>1. CASE k = n /\ g = h
    <3>1. CASE i \in Puts(n, h) /\ j \in Puts(n, h)
      BY <1>1, <3>1 DEF WindowInv, SpacedInv
    <3>2. CASE i \in Puts(n, h) /\ j = Len(seen[n]) + 1
      <4>1. i <= Len(seen[n]) - N \/ Slot0(i)
        BY <3>2 DEF IsExists, Forgotten
      <4>2. i \in Nat
        BY <1>3, <3>2
      <4>3. QED
        BY <1>3, <3>2, <4>1, <4>2
    <3>3. CASE i = Len(seen[n]) + 1
      BY <1>2, <1>3, <2>1, <3>3
    <3>4. QED
      BY <1>2, <2>1, <3>1, <3>2, <3>3
  <2>2. CASE k # n \/ g # h
    BY <1>2, <2>2 DEF WindowInv, SpacedInv
  <2>3. QED
    BY <2>1, <2>2
<1>5. SentInv'
  BY <1>1, <1>2 DEF WindowInv, SentInv
<1>6. CountInv'
  <2> SUFFICES ASSUME NEW k \in Node, NEW g \in Hash
               PROVE  /\ handled'[k][g] + Own(k, g) <= Cardinality(Puts(k, g)')
                      /\ passed'[k][g] + Own(k, g) <= Cardinality(Puts(k, g)')
    BY DEF CountInv, Own
  <2>1. /\ handled[k][g] \in Nat /\ passed[k][g] \in Nat /\ Own(k, g) \in Nat
        /\ Cardinality(Puts(k, g)) \in Nat
        /\ handled[k][g] + Own(k, g) <= Cardinality(Puts(k, g))
        /\ passed[k][g] + Own(k, g) <= Cardinality(Puts(k, g))
    BY PutsFinite DEF TypeOK, WindowInv, CountInv, Own
  <2>2. /\ handled'[k][g] = handled[k][g] \/ (k = n /\ g = h /\ handled'[k][g] = handled[k][g] + 1)
        /\ passed'[k][g] = passed[k][g] \/ (k = n /\ g = h /\ passed'[k][g] = passed[k][g] + 1)
    <3>1. /\ handled' = handled \/ handled' = Count(handled, n, h)
          /\ passed' = passed \/ passed' = Count(passed, n, h)
      BY DEF Accept
    <3>2. handled \in [Node -> [Hash -> Nat]] /\ passed \in [Node -> [Hash -> Nat]]
      BY DEF TypeOK
    <3>3. handled'[k][g] = handled[k][g] \/ (k = n /\ g = h /\ handled'[k][g] = handled[k][g] + 1)
      BY <1>1, <3>1, <3>2 DEF Count
    <3>4. passed'[k][g] = passed[k][g] \/ (k = n /\ g = h /\ passed'[k][g] = passed[k][g] + 1)
      BY <1>1, <3>1, <3>2 DEF Count
    <3>5. QED
      BY <3>3, <3>4
  <2>3. CASE k = n /\ g = h
    <3>1. Cardinality(Puts(k, g)') = Cardinality(Puts(k, g)) + 1
      BY <1>2, <2>3
    <3>2. QED
      BY <2>1, <2>2, <3>1
  <2>4. CASE k # n \/ g # h
    BY <1>2, <2>1, <2>2, <2>4
  <2>5. QED
    BY <2>3, <2>4
<1>7. QED
  BY <1>4, <1>5, <1>6 DEF WindowInv

LEMMA WindowStep == TypeOK /\ FloodInv /\ WindowInv /\ [Next]_vars => WindowInv'
<1> SUFFICES ASSUME TypeOK, FloodInv, WindowInv, [Next]_vars PROVE WindowInv'
  OBVIOUS
<1>1. ASSUME NEW n \in Node, NEW h \in Hash, Broadcast2Room(n, h)
      PROVE  WindowInv'
  BY <1>1, WindowOriginate DEF Broadcast2Room, To
<1>2. ASSUME NEW n \in Node, NEW to \in Node, NEW h \in Hash, Send2Client(n, h, to)
      PROVE  WindowInv'
  BY <1>2, WindowOriginate DEF Send2Client, To
<1>3. ASSUME NEW n \in Node, NEW m \in Node, Receive(n, m)
      PROVE  WindowInv'
  <2>1. PICK x \in Message : x = Head(wire[<<m, n>>])
    BY <1>3, ReceiveType
  <2>2. UNCHANGED <<origin, dest, redirected>>
    BY <1>3 DEF Receive
  <2>3. CopyInv(n, x)
    BY <1>3, <2>1, <2>2, WireReceived, TypeStep, UnchangedIsSteady DEF FloodInv
  <2>4. CASE DropDuplicate
    BY <2>2, <2>4, WindowStays DEF DropDuplicate
  <2>5. CASE ~IsExists(n, x.hash) /\ Accept(n, x)
    BY <2>2, <2>3, <2>5, WindowAccept
  <2>6. QED
    BY <1>3, <2>1, <2>4, <2>5 DEF Receive
<1>4. ASSUME UNCHANGED <<seen, origin, handled, passed>>
      PROVE  WindowInv'
  BY <1>4, WindowStays
<1>5. CASE UNCHANGED vars
  BY <1>4, <1>5 DEF vars, history
<1>6. ASSUME NEW n \in Node, NEW m \in Node,
             OpenChannel(n, m) \/ Take(n) \/ SendNext(n, m) \/ SendDirect(n)
      PROVE  WindowInv'
  BY <1>4, <1>6 DEF OpenChannel, Take, SendNext, SendDirect, history
<1>7. QED
  BY <1>1, <1>2, <1>3, <1>5, <1>6 DEF Next

(* At most one put of a hash is not unseen.                                *)
LEMMA AllButOneUnseen ==
  ASSUME TypeOK, SpacedInv, NEW n \in Node, NEW h \in Hash
  PROVE  /\ Cardinality(Unseen(n, h)) \in Nat
         /\ Cardinality(Puts(n, h)) <= Cardinality(Unseen(n, h)) + 1
<1>1. Unseen(n, h) \subseteq Puts(n, h) /\ Puts(n, h) \subseteq Nat
  BY PutsFinite DEF Unseen
<1>2. IsFiniteSet(Unseen(n, h)) /\ Cardinality(Unseen(n, h)) \in Nat
  BY <1>1, PutsFinite, FS_Subset, FS_CardinalityType
<1>3. \A i, j \in Puts(n, h) \ Unseen(n, h) : i = j
  <2> SUFFICES ASSUME NEW i \in Puts(n, h) \ Unseen(n, h),
                      NEW j \in Puts(n, h) \ Unseen(n, h), i < j
               PROVE  FALSE
    BY <1>1
  <2>1. Slot0(i) \/ j - i > N
    BY DEF SpacedInv
  <2>2. i \in Unseen(n, h)
    BY <1>1, <2>1 DEF Unseen
  <2>3. QED
    BY <2>2
<1>4. CASE Puts(n, h) = Unseen(n, h)
  BY <1>2, <1>4
<1>5. CASE Puts(n, h) # Unseen(n, h)
  <2>1. PICK m \in Puts(n, h) : m \notin Unseen(n, h)
    BY <1>1, <1>5
  <2>2. Puts(n, h) = Unseen(n, h) \cup {m}
    BY <1>1, <1>3, <2>1
  <2>3. QED
    BY <1>2, <2>1, <2>2, FS_AddElement
<1>6. QED
  BY <1>2, <1>4, <1>5

(* Around any cycles, a node passes a message on and handles it once, and  *)
(* its originator never does, except once more for each put of its hash    *)
(* that the window forgot or does not look at.                             *)
THEOREM OnceInWindow == Spec => []OnceSaveUnseen
<1>1. TypeOK /\ WindowInv => OnceSaveUnseen
  <2> SUFFICES ASSUME TypeOK, WindowInv, NEW n \in Node, NEW h \in Hash
               PROVE  LET limit == (IF origin[h] = n THEN 0 ELSE 1)
                                     + Cardinality(Unseen(n, h))
                      IN handled[n][h] <= limit /\ passed[n][h] <= limit
    BY DEF OnceSaveUnseen
  <2>1. /\ handled[n][h] \in Nat /\ passed[n][h] \in Nat
        /\ Cardinality(Puts(n, h)) \in Nat
        /\ handled[n][h] + Own(n, h) <= Cardinality(Puts(n, h))
        /\ passed[n][h] + Own(n, h) <= Cardinality(Puts(n, h))
    BY PutsFinite DEF TypeOK, WindowInv, CountInv
  <2>2. /\ Cardinality(Unseen(n, h)) \in Nat
        /\ Cardinality(Puts(n, h)) <= Cardinality(Unseen(n, h)) + 1
    BY AllButOneUnseen DEF WindowInv
  <2>3. QED
    BY <2>1, <2>2 DEF Own
<1>2. QED
  BY <1>1, TypeInit, TypeStep, InvInit, InvStep, WindowInit, WindowStep, PTL DEF Spec

----------------------------------------------------------------------------
(* Arrival: what a node owes a peer is queued for it, being sent or on its *)
(* way, until the peer has heard of it, that is, put its hash.  A node     *)
(* owes what it sent or took in to all its peers if it is for everyone, to *)
(* the addressee if that is a peer, and else, if it sent it, to all.       *)
Serves(t, m, h) == t.hash = h /\ (t.type = "broadcast" \/ t.to = m)

Queued(n, m, h) == \E i \in DOMAIN smq[n] : Serves(smq[n][i], m, h)
Busy(n, m, h) == job[n] # NoJob /\ job[n].task.hash = h /\ m \in job[n].left
Under(n, m, h) == \E i \in DOMAIN wire[<<n, m>>] : wire[<<n, m>>][i].hash = h
InFlight(n, m, h) == Queued(n, m, h) \/ Busy(n, m, h) \/ Under(n, m, h)

Heard(m, h) == Puts(m, h) # {}
Owes(n, m, h) == /\ m \in Peers(n)
                 /\ origin[h] = n \/ passed[n][h] > 0
                 /\ \/ dest[h] \in {NoOne, m}
                    \/ origin[h] = n /\ dest[h] \notin Peers(n)

FlightInv == \A n, m \in Node, h \in Hash :
               Owes(n, m, h) => Heard(m, h) \/ InFlight(n, m, h)

\* Who has heard of a message has sent, handled or relayed it.
HeardInv == \A m \in Node, h \in Hash :
              Heard(m, h) => \/ origin[h] = m \/ handled[m][h] > 0
                             \/ dest[h] \notin {NoOne, m} /\ passed[m][h] > 0

LEMMA AppendHas ==
  ASSUME NEW S, NEW q \in Seq(S), NEW e \in S
  PROVE  /\ \A i \in DOMAIN q : i \in DOMAIN Append(q, e) /\ Append(q, e)[i] = q[i]
         /\ Len(q) + 1 \in DOMAIN Append(q, e) /\ Append(q, e)[Len(q) + 1] = e
  OBVIOUS

LEMMA TailHas ==
  ASSUME NEW S, NEW q \in Seq(S), q # << >>
  PROVE  \A i \in DOMAIN q :
           q[i] = Head(q) \/ \E j \in DOMAIN Tail(q) : Tail(q)[j] = q[i]
<1> SUFFICES ASSUME NEW i \in DOMAIN q, i # 1
             PROVE  \E j \in DOMAIN Tail(q) : Tail(q)[j] = q[i]
  OBVIOUS
<1>1. i - 1 \in DOMAIN Tail(q) /\ Tail(q)[i - 1] = q[i]
  OBVIOUS
<1>2. QED
  BY <1>1

LEMMA QueuedPush ==
  ASSUME TypeOK, NEW n \in Node, NEW t \in Task, Push(n, t),
         NEW m \in Node, NEW h \in Hash
  PROVE  /\ \A k \in Node : Queued(k, m, h) => Queued(k, m, h)'
         /\ Serves(t, m, h) => Queued(n, m, h)'
<1>1. /\ smq[n] \in Seq(Task) /\ smq'[n] = Append(smq[n], t)
      /\ \A k \in Node \ {n} : smq'[k] = smq[k]
  BY DEF TypeOK, Push
<1>2. /\ \A i \in DOMAIN smq[n] : i \in DOMAIN smq'[n] /\ smq'[n][i] = smq[n][i]
      /\ Len(smq[n]) + 1 \in DOMAIN smq'[n] /\ smq'[n][Len(smq[n]) + 1] = t
  BY <1>1, AppendHas
<1>3. QED
  BY <1>1, <1>2 DEF Queued, Serves

LEMMA QueuedTaken ==
  ASSUME TypeOK, NEW n \in Node, smq[n] # << >>,
         smq' = [smq EXCEPT ![n] = Tail(smq[n])],
         NEW k \in Node, NEW m \in Node, NEW h \in Hash, Queued(k, m, h)
  PROVE  Queued(k, m, h)' \/ (k = n /\ Serves(Head(smq[n]), m, h))
<1>1. /\ smq[n] \in Seq(Task) /\ smq'[n] = Tail(smq[n])
      /\ \A l \in Node \ {n} : smq'[l] = smq[l]
  BY DEF TypeOK
<1>2. \A i \in DOMAIN smq[n] : \/ smq[n][i] = Head(smq[n])
                              \/ \E j \in DOMAIN smq'[n] : smq'[n][j] = smq[n][i]
  BY <1>1, TailHas
<1>3. CASE k = n
  <2>1. PICK i \in DOMAIN smq[n] : Serves(smq[n][i], m, h)
    BY <1>3 DEF Queued
  <2>2. QED
    BY <1>2, <1>3, <2>1 DEF Queued, Serves
<1>4. CASE k # n
  BY <1>1, <1>4 DEF Queued, Serves
<1>5. QED
  BY <1>3, <1>4

LEMMA QueuedRetried ==
  ASSUME TypeOK, NEW n \in Node, smq[n] # << >>,
         smq' = [smq EXCEPT ![n] = Append(Tail(smq[n]), Head(smq[n]))],
         NEW k \in Node, NEW m \in Node, NEW h \in Hash, Queued(k, m, h)
  PROVE  Queued(k, m, h)'
<1>1. /\ smq[n] \in Seq(Task) /\ smq'[n] = Append(Tail(smq[n]), Head(smq[n]))
      /\ \A l \in Node \ {n} : smq'[l] = smq[l]
      /\ Tail(smq[n]) \in Seq(Task) /\ Head(smq[n]) \in Task
  BY TailType DEF TypeOK
<1>2. \A i \in DOMAIN smq[n] : \E j \in DOMAIN smq'[n] : smq'[n][j] = smq[n][i]
  <2> SUFFICES ASSUME NEW i \in DOMAIN smq[n]
               PROVE  \E j \in DOMAIN smq'[n] : smq'[n][j] = smq[n][i]
    OBVIOUS
  <2>1. \/ smq[n][i] = Head(smq[n])
        \/ \E j \in DOMAIN Tail(smq[n]) : Tail(smq[n])[j] = smq[n][i]
    BY <1>1, TailHas
  <2>2. QED
    BY <1>1, <2>1, AppendHas
<1>3. CASE k = n
  <2>1. PICK i \in DOMAIN smq[n] : Serves(smq[n][i], m, h)
    BY <1>3 DEF Queued
  <2>2. PICK j \in DOMAIN smq'[n] : smq'[n][j] = smq[n][i]
    BY <1>2
  <2>3. QED
    BY <1>3, <2>1, <2>2 DEF Queued, Serves
<1>4. CASE k # n
  BY <1>1, <1>4 DEF Queued, Serves
<1>5. QED
  BY <1>3, <1>4

LEMMA UnderSent ==
  ASSUME TypeOK, NEW n \in Node, NEW m \in Peers(n), NEW h \in Hash, NEW to \in To,
         Send(n, m, h, to), NEW g \in Hash
  PROVE  /\ \A k, l \in Node : <<k, l>> \in Links /\ Under(k, l, g) => Under(k, l, g)'
         /\ Under(n, m, h)'
<1>1. PICK x \in Message : x = [hash |-> h, to |-> to]
  BY DEF Message
<1>2. /\ <<n, m>> \in Links /\ wire[<<n, m>>] \in Seq(Message)
      /\ wire'[<<n, m>>] = Append(wire[<<n, m>>], x)
      /\ \A q \in Links : q # <<n, m>> => wire'[q] = wire[q]
  BY <1>1 DEF TypeOK, Send, Peers
<1>3. /\ \A i \in DOMAIN wire[<<n, m>>] : /\ i \in DOMAIN wire'[<<n, m>>]
                                          /\ wire'[<<n, m>>][i] = wire[<<n, m>>][i]
      /\ \E i \in DOMAIN wire'[<<n, m>>] : wire'[<<n, m>>][i] = x
  <2> DEFINE q == wire[<<n, m>>]
  <2>1. /\ \A i \in DOMAIN q : i \in DOMAIN Append(q, x) /\ Append(q, x)[i] = q[i]
        /\ Len(q) + 1 \in DOMAIN Append(q, x) /\ Append(q, x)[Len(q) + 1] = x
    BY <1>2, AppendHas
  <2>2. QED
    BY <1>2, <2>1
<1>4. Under(n, m, h)'
  BY <1>1, <1>3 DEF Under
<1>5. ASSUME NEW k \in Node, NEW l \in Node, <<k, l>> \in Links, Under(k, l, g)
      PROVE  Under(k, l, g)'
  <2>1. CASE <<k, l>> = <<n, m>>
    BY <1>3, <1>5, <2>1 DEF Under
  <2>2. CASE <<k, l>> # <<n, m>>
    <3>1. wire'[<<k, l>>] = wire[<<k, l>>]
      BY <1>2, <1>5, <2>2
    <3>2. QED
      BY <1>5, <3>1 DEF Under
  <2>3. QED
    BY <2>1, <2>2
<1>6. QED
  BY <1>4, <1>5

LEMMA UnderReceived ==
  ASSUME TypeOK, NEW n \in Node, NEW m \in Node, Receive(n, m),
         NEW k \in Node, NEW l \in Node, <<k, l>> \in Links,
         NEW h \in Hash, Under(k, l, h)
  PROVE  Under(k, l, h)' \/ (k = m /\ l = n /\ Head(wire[<<m, n>>]).hash = h)
<1>1. /\ <<m, n>> \in Links /\ wire[<<m, n>>] \in Seq(Message)
      /\ wire[<<m, n>>] # << >> /\ wire'[<<m, n>>] = Tail(wire[<<m, n>>])
      /\ \A q \in Links : q # <<m, n>> => wire'[q] = wire[q]
  BY DEF TypeOK, Receive
<1>2. CASE <<k, l>> # <<m, n>>
  <2>1. wire'[<<k, l>>] = wire[<<k, l>>]
    BY <1>1, <1>2
  <2>2. QED
    BY <2>1 DEF Under
<1>3. CASE <<k, l>> = <<m, n>>
  <2>1. k = m /\ l = n
    BY <1>3
  <2>2. PICK i \in DOMAIN wire[<<m, n>>] : wire[<<m, n>>][i].hash = h
    BY <2>1 DEF Under
  <2>3. \/ wire[<<m, n>>][i] = Head(wire[<<m, n>>])
        \/ \E j \in DOMAIN Tail(wire[<<m, n>>]) :
             Tail(wire[<<m, n>>])[j] = wire[<<m, n>>][i]
    BY <1>1, TailHas
  <2>4. QED
    BY <1>1, <2>1, <2>2, <2>3 DEF Under
<1>4. QED
  BY <1>2, <1>3

(* A step of a sender, or the opening of a channel, loses nothing that is  *)
(* in flight.                                                              *)
LEMMA FlightKept ==
  ASSUME FlightInv, HeardInv, UNCHANGED <<origin, dest, handled, passed, seen>>,
         \A k, m \in Node, h \in Hash :
           m \in Peers(k) /\ InFlight(k, m, h) => InFlight(k, m, h)'
  PROVE  FlightInv' /\ HeardInv'
<1>1. \A k, m \in Node, h \in Hash : /\ Owes(k, m, h)' <=> Owes(k, m, h)
                                     /\ Heard(m, h)' <=> Heard(m, h)
                                     /\ Puts(m, h)' = Puts(m, h)
  BY DEF Owes, Heard, Puts
<1>2. FlightInv'
  <2> SUFFICES ASSUME NEW k \in Node, NEW m \in Node, NEW h \in Hash, Owes(k, m, h)'
               PROVE  Heard(m, h)' \/ InFlight(k, m, h)'
    BY DEF FlightInv
  <2>1. Owes(k, m, h) /\ m \in Peers(k)
    BY <1>1 DEF Owes
  <2>2. QED
    BY <1>1, <2>1 DEF FlightInv
<1>3. HeardInv'
  BY <1>1 DEF HeardInv
<1>4. QED
  BY <1>2, <1>3

LEMMA FlightTake ==
  ASSUME TypeOK, NEW n \in Node, Take(n),
         NEW k \in Node, NEW m \in Peers(k), NEW h \in Hash, InFlight(k, m, h)
  PROVE  InFlight(k, m, h)'
<1>1. /\ smq[n] # << >> /\ smq' = [smq EXCEPT ![n] = Tail(smq[n])]
      /\ job[n] = NoJob /\ wire' = wire /\ m \in Node
      /\ \A l \in Node \ {n} : job'[l] = job[l]
  BY DEF Take, TypeOK, Peers
<1>2. CASE Queued(k, m, h)
  <2>1. Queued(k, m, h)' \/ (k = n /\ Serves(Head(smq[n]), m, h))
    BY <1>1, <1>2, QueuedTaken
  <2>2. CASE k = n /\ Serves(Head(smq[n]), m, h)
    <3>1. Peers(n) # {}
      BY <2>2
    <3>2. job'[n] = [task |-> Head(smq[n]), left |-> Peers(n)]
      BY <3>1 DEF Take, TypeOK
    <3>3. job'[n].left = Peers(n) /\ job'[n].task = Head(smq[n]) /\ NoJob.left = {}
      BY <3>2 DEF NoJob
    <3>4. Busy(k, m, h)'
      BY <2>2, <3>1, <3>3 DEF Busy, Serves
    <3>5. QED
      BY <3>4 DEF InFlight
  <2>3. QED
    BY <2>1, <2>2 DEF InFlight
<1>3. CASE Busy(k, m, h)
  BY <1>1, <1>3 DEF Busy, InFlight
<1>4. CASE Under(k, m, h)
  BY <1>1, <1>4 DEF Under, InFlight
<1>5. QED
  BY <1>2, <1>3, <1>4 DEF InFlight

LEMMA FlightSendNext ==
  ASSUME TypeOK, NEW n \in Node, NEW p \in Node, SendNext(n, p),
         NEW k \in Node, NEW m \in Peers(k), NEW h \in Hash, InFlight(k, m, h)
  PROVE  InFlight(k, m, h)'
<1>1. /\ job[n].task \in Task /\ p \in Peers(n) /\ m \in Node /\ <<k, m>> \in Links
      /\ \A l \in Node \ {n} : job'[l] = job[l]
  BY DEF SendNext, TypeOK, Peers
<1>2. PICK t \in Task : t = job[n].task
  BY <1>1
<1>3. t.hash \in Hash /\ t.to \in To
  BY DEF Task
<1>4. \/ Send(n, p, t.hash, t.to) /\ smq' = smq
      \/ Push(n, Direct(t.hash, p)) /\ wire' = wire
  BY <1>2 DEF SendNext, Redirect
<1>5. PICK u \in Task : u = Direct(t.hash, p)
  BY <1>3, TaskTypes DEF To
<1>6. Queued(k, m, h) => Queued(k, m, h)'
  <2>1. CASE smq' = smq
    BY <2>1 DEF Queued
  <2>2. CASE Push(n, u)
    BY <1>1, <2>2, QueuedPush
  <2>3. QED
    BY <1>4, <1>5, <2>1, <2>2
<1>7. Under(k, m, h) => Under(k, m, h)'
  <2>1. CASE wire' = wire
    BY <2>1 DEF Under
  <2>2. CASE Send(n, p, t.hash, t.to)
    BY <1>1, <1>3, <2>2, UnderSent
  <2>3. QED
    BY <1>4, <2>1, <2>2
<1>8. CASE Busy(k, m, h)
  <2>1. CASE k # n
    BY <1>1, <1>8, <2>1 DEF Busy, InFlight
  <2>2. CASE k = n /\ m # p
    <3>1. m \in job[n].left \ {p} /\ t.hash = h
      BY <1>2, <1>8, <2>2 DEF Busy
    <3>2. job'[n] = [task |-> t, left |-> job[n].left \ {p}]
      BY <1>2, <3>1 DEF SendNext, TypeOK
    <3>3. job'[n].left = job[n].left \ {p} /\ job'[n].task = t /\ NoJob.left = {}
      BY <3>2 DEF NoJob
    <3>4. QED
      BY <2>2, <3>1, <3>3 DEF Busy, InFlight
  <2>3. CASE k = n /\ m = p
    <3>1. t.hash = h
      BY <1>2, <1>8, <2>3 DEF Busy
    <3>2. CASE Send(n, p, t.hash, t.to)
      <4>1. Under(n, p, t.hash)'
        BY <1>1, <1>3, <3>2, UnderSent
      <4>2. QED
        BY <2>3, <3>1, <4>1 DEF InFlight
    <3>3. CASE Push(n, u)
      <4>1. Serves(u, m, h)
        BY <1>5, <2>3, <3>1 DEF Serves, Direct
      <4>2. Queued(n, m, h)'
        BY <1>1, <3>3, <4>1, QueuedPush
      <4>3. QED
        BY <2>3, <4>2 DEF InFlight
    <3>4. QED
      BY <1>4, <1>5, <3>2, <3>3
  <2>4. QED
    BY <2>1, <2>2, <2>3
<1>9. QED
  BY <1>6, <1>7, <1>8 DEF InFlight

LEMMA FlightSendDirect ==
  ASSUME TypeOK, NEW n \in Node, SendDirect(n),
         NEW k \in Node, NEW m \in Peers(k), NEW h \in Hash, InFlight(k, m, h)
  PROVE  InFlight(k, m, h)'
<1>1. /\ smq[n] # << >> /\ job' = job /\ m \in Node /\ <<k, m>> \in Links
      /\ Head(smq[n]).type = "direct"
  BY DEF SendDirect, Peers
<1>2. PICK t \in Task : t = Head(smq[n])
  BY <1>1, TailType
<1>3. t.hash \in Hash /\ t.to \in To
  BY DEF Task
<1>4. \/ /\ t.to \notin Peers(n) /\ wire' = wire
         /\ smq' = [smq EXCEPT ![n] = Tail(smq[n])]
      \/ /\ t.to \in Peers(n) /\ Send(n, t.to, t.hash, t.to)
         /\ smq' = [smq EXCEPT ![n] = Tail(smq[n])]
      \/ /\ smq' = [smq EXCEPT ![n] = Append(Tail(smq[n]), Head(smq[n]))]
         /\ wire' = wire
  BY <1>2 DEF SendDirect
<1>5. CASE Queued(k, m, h)
  <2>1. CASE smq' = [smq EXCEPT ![n] = Append(Tail(smq[n]), Head(smq[n]))]
    BY <1>1, <1>5, <2>1, QueuedRetried DEF InFlight
  <2>2. CASE smq' = [smq EXCEPT ![n] = Tail(smq[n])] /\ ~Queued(k, m, h)'
    <3>1. k = n /\ t.hash = h /\ t.to = m
      BY <1>1, <1>2, <1>5, <2>2, QueuedTaken DEF Serves
    <3>2. CASE Send(n, t.to, t.hash, t.to)
      <4>1. Under(n, t.to, t.hash)'
        BY <1>3, <3>1, <3>2, UnderSent
      <4>2. QED
        BY <3>1, <4>1 DEF InFlight
    <3>3. CASE smq' = [smq EXCEPT ![n] = Append(Tail(smq[n]), Head(smq[n]))]
      BY <2>1, <3>3
    <3>4. QED
      BY <1>4, <3>1, <3>2, <3>3
  <2>3. QED
    BY <1>4, <2>1, <2>2 DEF InFlight
<1>6. CASE Busy(k, m, h)
  BY <1>1, <1>6 DEF Busy, InFlight
<1>7. CASE Under(k, m, h)
  <2>1. CASE wire' = wire
    BY <1>7, <2>1 DEF Under, InFlight
  <2>2. CASE t.to \in Peers(n) /\ Send(n, t.to, t.hash, t.to)
    BY <1>1, <1>3, <1>7, <2>2, UnderSent DEF InFlight
  <2>3. QED
    BY <1>4, <2>1, <2>2
<1>8. QED
  BY <1>5, <1>6, <1>7 DEF InFlight

(* A new message is queued for whom its originator owes it to.             *)
LEMMA FlightOriginate ==
  ASSUME TypeOK, HistInv, WindowInv, FlightInv, HeardInv,
         NEW n \in Node, NEW h \in Hash, NEW to \in To, NEW t \in Task,
         Originate(n, h, to), PutHash(n, h), Push(n, t), UNCHANGED <<job, wire>>,
         t = FirstTask(n, h, to)
  PROVE  FlightInv' /\ HeardInv'
<1>1. /\ origin[h] = NoOne /\ origin'[h] = n /\ n # NoOne /\ dest'[h] = to
      /\ \A g \in Hash \ {h} : origin'[g] = origin[g] /\ dest'[g] = dest[g]
      /\ UNCHANGED <<handled, passed>>
  <2>1. origin[h] = NoOne /\ UNCHANGED <<handled, passed>>
    BY DEF Originate
  <2>2. /\ origin'[h] = n /\ dest'[h] = to
        /\ \A g \in Hash \ {h} : origin'[g] = origin[g] /\ dest'[g] = dest[g]
    BY DEF Originate, TypeOK
  <2>3. n # NoOne
    BY LinksAssumption
  <2>4. QED
    BY <2>1, <2>2, <2>3
<1>2. \A k \in Node : ~(passed[k][h] > 0) /\ Puts(k, h) = {}
  BY <1>1 DEF HistInv, TookInv, WindowInv, SentInv
<1>3. \A k \in Node, g \in Hash : k # n \/ g # h => Puts(k, g)' = Puts(k, g)
  BY PutsAfter
<1>4. FlightInv'
  <2> SUFFICES ASSUME NEW k \in Node, NEW m \in Node, NEW g \in Hash, Owes(k, m, g)'
               PROVE  Heard(m, g)' \/ InFlight(k, m, g)'
    BY DEF FlightInv
  <2>1. CASE g = h
    <3>1. k = n /\ m \in Peers(n) /\ (to \in {NoOne, m} \/ to \notin Peers(n))
      BY <1>1, <1>2, <2>1 DEF Owes, Peers
    <3>2. to \in Peers(n) => to # NoOne
      BY LinksAssumption DEF Peers
    <3>3. Serves(t, m, h)
      BY <3>1, <3>2 DEF Serves, FirstTask, Direct, Broadcast
    <3>4. QED
      BY <2>1, <3>1, <3>3, QueuedPush DEF InFlight
  <2>2. CASE g # h
    <3>1. Owes(k, m, g) /\ (Heard(m, g) => Heard(m, g)')
      BY <1>1, <1>3, <2>2 DEF Owes, Heard, Peers
    <3>2. Queued(k, m, g) => Queued(k, m, g)'
      BY QueuedPush
    <3>3. QED
      BY <3>1, <3>2 DEF FlightInv, InFlight, Busy, Under
  <2>3. QED
    BY <2>1, <2>2
<1>5. HeardInv'
  <2> SUFFICES ASSUME NEW m \in Node, NEW g \in Hash, Heard(m, g)', origin'[g] # m
               PROVE  \/ handled'[m][g] > 0
                      \/ dest'[g] \notin {NoOne, m} /\ passed'[m][g] > 0
    BY DEF HeardInv
  <2>1. g # h
    BY <1>1, <1>2, <1>3 DEF Heard
  <2>2. Heard(m, g)
    BY <1>3, <2>1 DEF Heard
  <2>3. QED
    BY <1>1, <2>1, <2>2 DEF HeardInv
<1>6. QED
  BY <1>4, <1>5

(* What a node receives it has heard of then, and what it passes on is     *)
(* queued.                                                                 *)
LEMMA FlightReceive ==
  ASSUME TypeOK, FlightInv, HeardInv, NEW n \in Node, NEW p \in Node, Receive(n, p),
         NEW x \in Message, x = Head(wire[<<p, n>>]), CopyInv(n, x)
  PROVE  FlightInv' /\ HeardInv'
<1> DEFINE h == x.hash
<1>1. /\ h \in Hash /\ x.to \in To /\ n # NoOne
      /\ UNCHANGED <<job, origin, dest, redirected>>
      /\ (IsExists(n, h) /\ DropDuplicate) \/ Accept(n, x)
  BY LinksAssumption DEF Message, Receive
<1>2. /\ handled \in [Node -> [Hash -> Nat]] /\ passed \in [Node -> [Hash -> Nat]]
  BY DEF TypeOK
<1>3. /\ handled' = handled \/ handled' = Count(handled, n, h)
      /\ passed' = passed \/ passed' = Count(passed, n, h)
  BY <1>1 DEF Accept, DropDuplicate
<1> DEFINE Others(f) == \A k \in Node, g \in Hash :
                         k # n \/ g # h => Count(f, n, h)[k][g] = f[k][g]
<1>4. /\ Others(handled) /\ Count(handled, n, h)[n][h] > 0
      /\ Others(passed) /\ Count(passed, n, h)[n][h] > 0
  <2>1. Others(handled) /\ Count(handled, n, h)[n][h] = handled[n][h] + 1
    BY <1>1, <1>2, CountType
  <2>2. Others(passed) /\ Count(passed, n, h)[n][h] = passed[n][h] + 1
    BY <1>1, <1>2, CountType
  <2>3. handled[n][h] \in Nat /\ passed[n][h] \in Nat
    BY <1>1, <1>2
  <2>4. QED
    BY <2>1, <2>2, <2>3
<1>5. \A m \in Node, g \in Hash :
        /\ handled[m][g] > 0 => handled'[m][g] > 0
        /\ passed[m][g] > 0 => passed'[m][g] > 0
        /\ passed'[m][g] = passed[m][g] \/ (m = n /\ g = h /\ passed' = Count(passed, n, h))
  <2> SUFFICES ASSUME NEW m \in Node, NEW g \in Hash
               PROVE  /\ handled[m][g] > 0 => handled'[m][g] > 0
                      /\ passed[m][g] > 0 => passed'[m][g] > 0
                      /\ \/ passed'[m][g] = passed[m][g]
                         \/ m = n /\ g = h /\ passed' = Count(passed, n, h)
    OBVIOUS
  <2>1. CASE m = n /\ g = h
    BY <1>3, <1>4, <2>1
  <2>2. CASE m # n \/ g # h
    BY <1>3, <1>4, <2>2
  <2>3. QED
    BY <2>1, <2>2
<1>6. /\ Heard(n, h)'
      /\ \A m \in Node, g \in Hash : Heard(m, g) => Heard(m, g)'
      /\ \A m \in Node, g \in Hash : (m # n \/ g # h) /\ Heard(m, g)' => Heard(m, g)
  <2>1. CASE IsExists(n, h) /\ DropDuplicate
    BY <2>1 DEF IsExists, DropDuplicate, Heard, Puts
  <2>2. CASE Accept(n, x)
    <3>1. /\ Puts(n, h)' = Puts(n, h) \cup {Len(seen[n]) + 1}
          /\ \A m \in Node, g \in Hash : m # n \/ g # h => Puts(m, g)' = Puts(m, g)
      BY <1>1, <2>2, PutsAfter DEF Accept
    <3>2. Heard(n, h)'
      BY <3>1 DEF Heard
    <3>3. QED
      BY <3>1, <3>2 DEF Heard
  <2>3. QED
    BY <1>1, <2>1, <2>2
<1>7. \/ handled'[n][h] > 0 \/ origin'[h] = n
      \/ dest'[h] \notin {NoOne, n} /\ passed'[n][h] > 0
  <2>1. CASE IsExists(n, h) /\ DropDuplicate
    <3>1. Heard(n, h)
      BY <2>1 DEF IsExists, Heard
    <3>2. QED
      BY <1>1, <2>1, <3>1 DEF HeardInv, DropDuplicate
  <2>2. CASE Accept(n, x) /\ x.to \in {NoOne, n}
    <3>1. handled' = Count(handled, n, h)
      BY <1>1, <2>2 DEF Accept
    <3>2. QED
      BY <1>4, <3>1
  <2>3. CASE Accept(n, x) /\ x.to \notin {NoOne, n}
    <3>1. passed' = Count(passed, n, h) /\ dest[h] = x.to
      BY <2>3 DEF Accept, CopyInv
    <3>2. QED
      BY <1>1, <1>4, <2>3, <3>1
  <2>4. QED
    BY <1>1, <2>1, <2>2, <2>3
<1>8. \A k, m \in Node, g \in Hash : Queued(k, m, g) => Queued(k, m, g)'
  <2>1. \/ smq' = smq \/ Push(n, Direct(x.hash, x.to)) \/ Push(n, Broadcast(x.hash, x.to))
    BY <1>1 DEF Accept, DropDuplicate, RelayDirected, RelayToRoom
  <2>2. Direct(x.hash, x.to) \in Task /\ Broadcast(x.hash, x.to) \in Task
    BY <1>1, TaskTypes
  <2>3. CASE smq' = smq
    BY <2>3 DEF Queued
  <2>4. CASE smq' # smq
    BY <2>1, <2>2, <2>4, QueuedPush
  <2>5. QED
    BY <2>3, <2>4
<1>9. FlightInv'
  <2> SUFFICES ASSUME NEW k \in Node, NEW m \in Node, NEW g \in Hash, Owes(k, m, g)'
               PROVE  Heard(m, g)' \/ InFlight(k, m, g)'
    BY DEF FlightInv
  <2>1. CASE Owes(k, m, g)
    <3>1. CASE Heard(m, g)
      BY <1>6, <3>1
    <3>2. CASE Queued(k, m, g)
      BY <1>8, <3>2 DEF InFlight
    <3>3. CASE Busy(k, m, g)
      BY <1>1, <3>3 DEF Busy, InFlight
    <3>4. CASE Under(k, m, g)
      <4>1. Under(k, m, g)' \/ (m = n /\ g = h)
        BY <2>1, <3>4, UnderReceived DEF Owes, Peers
      <4>2. QED
        BY <1>6, <4>1 DEF InFlight
    <3>5. QED
      BY <2>1, <3>1, <3>2, <3>3, <3>4 DEF FlightInv, InFlight
  <2>2. CASE ~Owes(k, m, g)
    <3>1. /\ k = n /\ g = h /\ m \in Peers(n) /\ passed' # passed
          /\ dest[h] \in {NoOne, m}
      BY <1>1, <1>5, <2>2 DEF Owes, Peers
    <3>2. Accept(n, x) /\ x.to # n
      BY <1>1, <3>1 DEF Accept, DropDuplicate
    <3>3. x.to = dest[h]
      BY <3>2 DEF CopyInv
    <3>4. PICK t \in Task : /\ Push(n, t) /\ Serves(t, m, h)
      <4>1. CASE x.to = NoOne
        BY <1>1, <3>2, <4>1, TaskTypes
        DEF Accept, RelayToRoom, Serves, Broadcast
      <4>2. CASE x.to # NoOne
        <5>1. x.to = m
          BY <3>1, <3>3, <4>2
        <5>2. QED
          BY <1>1, <3>2, <4>2, <5>1, TaskTypes
          DEF Accept, RelayDirected, Serves, Direct
      <4>3. QED
        BY <4>1, <4>2
    <3>5. QED
      BY <1>1, <3>1, <3>4, QueuedPush DEF InFlight
  <2>3. QED
    BY <2>1, <2>2
<1>10. HeardInv'
  <2> SUFFICES ASSUME NEW m \in Node, NEW g \in Hash, Heard(m, g)'
               PROVE  \/ handled'[m][g] > 0 \/ origin'[g] = m
                      \/ dest'[g] \notin {NoOne, m} /\ passed'[m][g] > 0
    BY DEF HeardInv
  <2>1. CASE m = n /\ g = h
    BY <1>7, <2>1
  <2>2. CASE m # n \/ g # h
    BY <1>1, <1>5, <1>6, <2>2 DEF HeardInv
  <2>3. QED
    BY <2>1, <2>2
<1>11. QED
  BY <1>9, <1>10

LEMMA FlightInit == Init => FlightInv /\ HeardInv
<1> SUFFICES ASSUME Init PROVE FlightInv /\ HeardInv
  OBVIOUS
<1>1. FlightInv
  BY LinksAssumption DEF Init, FlightInv, Owes
<1>2. HeardInv
  BY DEF Init, HeardInv, Heard, Puts
<1>3. QED
  BY <1>1, <1>2

LEMMA FlightStep ==
  TypeOK /\ FloodInv /\ WindowInv /\ FlightInv /\ HeardInv /\ [Next]_vars
    => FlightInv' /\ HeardInv'
<1> SUFFICES ASSUME TypeOK, FloodInv, WindowInv, FlightInv, HeardInv, [Next]_vars
             PROVE  FlightInv' /\ HeardInv'
  OBVIOUS
<1>1. ASSUME NEW n \in Node, NEW h \in Hash, Broadcast2Room(n, h)
      PROVE  FlightInv' /\ HeardInv'
  <2>1. NoOne \in To /\ Broadcast(h, NoOne) \in Task
    BY TaskTypes DEF To
  <2>2. FirstTask(n, h, NoOne) = Broadcast(h, NoOne)
    BY LinksAssumption DEF FirstTask, Peers
  <2>3. QED
    BY <1>1, <2>1, <2>2, FlightOriginate DEF Broadcast2Room, FloodInv
<1>2. ASSUME NEW n \in Node, NEW to \in Node, NEW h \in Hash, Send2Client(n, h, to)
      PROVE  FlightInv' /\ HeardInv'
  <2>1. to \in To /\ FirstTask(n, h, to) \in Task
    BY TaskTypes DEF To, FirstTask
  <2>2. QED
    BY <1>2, <2>1, FlightOriginate DEF Send2Client, FloodInv
<1>3. ASSUME NEW n \in Node, NEW m \in Node, Receive(n, m)
      PROVE  FlightInv' /\ HeardInv'
  <2>1. PICK x \in Message : x = Head(wire[<<m, n>>])
    BY <1>3, ReceiveType
  <2>2. UNCHANGED <<origin, dest, redirected>>
    BY <1>3 DEF Receive
  <2>3. CopyInv(n, x)
    BY <1>3, <2>1, <2>2, WireReceived, TypeStep, UnchangedIsSteady DEF FloodInv
  <2>4. QED
    BY <1>3, <2>1, <2>3, FlightReceive
<1>4. ASSUME NEW n \in Node, Take(n)
      PROVE  FlightInv' /\ HeardInv'
  BY <1>4, FlightTake, FlightKept DEF Take, history
<1>5. ASSUME NEW n \in Node, NEW m \in Node, SendNext(n, m)
      PROVE  FlightInv' /\ HeardInv'
  <2>1. UNCHANGED <<origin, dest, handled, passed, seen>>
    BY <1>5 DEF SendNext
  <2>2. QED
    BY <1>5, <2>1, FlightSendNext, FlightKept
<1>6. ASSUME NEW n \in Node, SendDirect(n)
      PROVE  FlightInv' /\ HeardInv'
  BY <1>6, FlightSendDirect, FlightKept DEF SendDirect, history
<1>7. ASSUME NEW n \in Node, NEW m \in Node, OpenChannel(n, m)
      PROVE  FlightInv' /\ HeardInv'
  <2>1. UNCHANGED <<smq, job, wire, origin, dest, handled, passed, seen>>
    BY <1>7 DEF OpenChannel, vars, history
  <2>2. \A k, l \in Node, h \in Hash : InFlight(k, l, h) => InFlight(k, l, h)'
    BY <2>1 DEF InFlight, Queued, Busy, Under
  <2>3. QED
    BY <2>1, <2>2, FlightKept
<1>8. CASE UNCHANGED vars
  <2>1. UNCHANGED <<smq, job, wire, origin, dest, handled, passed, seen>>
    BY <1>8 DEF vars, history
  <2>2. \A k, m \in Node, h \in Hash : InFlight(k, m, h) => InFlight(k, m, h)'
    BY <2>1 DEF InFlight, Queued, Busy, Under
  <2>3. QED
    BY <2>1, <2>2, FlightKept
<1>9. QED
  BY <1>1, <1>2, <1>3, <1>4, <1>5, <1>6, <1>7, <1>8 DEF Next

(* Once all is quiet, who is owed a message has heard of it.               *)
LEMMA QuietHeard ==
  ASSUME TypeOK, FlightInv, Quiet, NEW n \in Node, NEW m \in Node, NEW h \in Hash,
         Owes(n, m, h)
  PROVE  Heard(m, h)
<1>1. <<n, m>> \in Links
  BY DEF Owes, Peers
<1>2. ~InFlight(n, m, h)
  BY <1>1 DEF Quiet, InFlight, Queued, Busy, Under
<1>3. QED
  BY <1>2 DEF FlightInv

(* Once nothing is queued or on the way, every peer of every node that     *)
(* flooded a message has handled it.                                       *)
THEOREM ReachesPeers == Spec => []FloodReachesPeers
<1>1. TypeOK /\ FlightInv /\ HeardInv => FloodReachesPeers
  <2> SUFFICES ASSUME TypeOK, FlightInv, HeardInv, Quiet, NEW n \in Node,
                      NEW m \in Node, NEW h \in Hash, dest[h] = NoOne,
                      origin[h] = n \/ passed[n][h] > 0, m \in Peers(n)
               PROVE  handled[m][h] > 0 \/ origin[h] = m
    BY DEF FloodReachesPeers
  <2>1. Heard(m, h)
    BY QuietHeard DEF Owes
  <2>2. QED
    BY <2>1 DEF HeardInv
<1>2. QED
  BY <1>1, TypeInit, TypeStep, InvInit, InvStep, WindowInit, WindowStep, FlightInit,
     FlightStep, PTL DEF Spec

(* Once nothing is queued or on the way, a message for a peer, or for a    *)
(* peer of a peer to whom the originator's channel was open, was handled   *)
(* by its addressee.                                                       *)
THEOREM Arrives == Spec => []DirectedArrives
<1>1. TypeOK /\ FloodInv /\ FlightInv /\ HeardInv => DirectedArrives
  <2> SUFFICES ASSUME TypeOK, FloodInv, FlightInv, HeardInv, Quiet,
                      NEW h \in Hash, NEW d \in Node, dest[h] = d, d # origin[h],
                      \/ d \in Peers(origin[h])
                      \/ \E m \in Peers(origin[h]) \cap Peers(d) :
                           <<m, h>> \notin redirected
               PROVE  handled[d][h] > 0
    BY DEF DirectedArrives
  <2>1. d # NoOne
    BY LinksAssumption
  <2>2. Heard(d, h) => handled[d][h] > 0
    BY DEF HeardInv
  <2>3. CASE d \in Peers(origin[h])
    <3>1. origin[h] \in Node
      BY <2>3, LinksAssumption DEF Peers
    <3>2. Owes(origin[h], d, h)
      BY <2>3 DEF Owes
    <3>3. QED
      BY <2>2, <3>1, <3>2, QuietHeard
  <2>4. ASSUME NEW m \in Peers(origin[h]) \cap Peers(d), <<m, h>> \notin redirected,
               d \notin Peers(origin[h])
        PROVE  handled[d][h] > 0
    <3>1. m \in Node /\ origin[h] \in Node /\ d \in Peers(m) /\ m # d /\ m # origin[h]
      BY LinksAssumption DEF Peers
    <3>2. Owes(origin[h], m, h)
      BY <2>4, <3>1 DEF Owes
    <3>3. Heard(m, h)
      BY <3>1, <3>2, QuietHeard
    <3>4. ~(handled[m][h] > 0)
      BY <2>1, <2>4, <3>1 DEF FloodInv, HistInv, MisdeliveredOnlyByRedirect
    <3>5. passed[m][h] > 0
      BY <3>1, <3>3, <3>4 DEF HeardInv
    <3>6. Owes(m, d, h)
      BY <3>1, <3>5 DEF Owes
    <3>7. QED
      BY <2>2, <3>1, <3>6, QuietHeard
  <2>5. QED
    BY <2>3, <2>4
<1>2. QED
  BY <1>1, TypeInit, TypeStep, InvInit, InvStep, WindowInit, WindowStep, FlightInit,
     FlightStep, PTL DEF Spec

----------------------------------------------------------------------------
(* The window is the ring                                                  *)

\* A slot below the head, and each slot of a ring that has wrapped, was filled.
FilledInv ==
  \A n \in Node, k \in 0 .. N - 1 : k < Len(seen[n]) => Latest(n, k) # {}

LEMMA ModIs ==
  ASSUME NEW M \in Nat \ {0}, NEW a \in Nat, NEW q \in Nat, NEW r \in 0 .. M - 1,
         a = M * q + r
  PROVE  a % M = r
  BY SMTT(30)

LEMMA ModRange ==
  ASSUME NEW M \in Nat \ {0}, NEW a \in Nat
  PROVE  a % M \in 0 .. M - 1
  OBVIOUS

LEMMA ModSmall ==
  ASSUME NEW M \in Nat \ {0}, NEW a \in 0 .. M - 1
  PROVE  a % M = a
<1>1. a \in Nat /\ 0 \in Nat /\ a = M * 0 + a
  OBVIOUS
<1>2. QED
  BY <1>1, ModIs

LEMMA ModParts ==
  ASSUME NEW M \in Nat \ {0}, NEW a \in Nat
  PROVE  a = M * (a \div M) + (a % M) /\ a \div M \in Nat
  OBVIOUS

LEMMA ModSucc ==
  ASSUME NEW M \in Nat \ {0}, NEW a \in Nat
  PROVE  (a + 1) % M = IF a % M = M - 1 THEN 0 ELSE (a % M) + 1
<1> DEFINE q == a \div M
           r == a % M
<1>1. a = M * q + r /\ q \in Nat /\ r \in 0 .. M - 1
  BY ModParts, ModRange
<1> HIDE DEF q, r
<1>2. CASE r = M - 1
  <2>1. a + 1 = M * (q + 1) + 0 /\ q + 1 \in Nat /\ 0 \in 0 .. M - 1 /\ a + 1 \in Nat
    BY <1>1, <1>2
  <2>2. (a + 1) % M = 0
    BY <2>1, ModIs
  <2>3. QED
    BY <1>2, <2>2 DEF r
<1>3. CASE r # M - 1
  <2>1. a + 1 = M * q + (r + 1) /\ r + 1 \in 0 .. M - 1 /\ a + 1 \in Nat
    BY <1>1, <1>3
  <2>2. (a + 1) % M = r + 1
    BY <1>1, <2>1, ModIs
  <2>3. QED
    BY <1>3, <2>2 DEF r
<1>4. QED
  BY <1>2, <1>3

LEMMA ModApart ==
  ASSUME NEW M \in Nat \ {0}, NEW a \in Nat, NEW b \in Nat, a % M = b % M, a < b
  PROVE  b - a >= M
  BY SMTT(30)

LEMMA ModBack ==
  ASSUME NEW M \in Nat \ {0}, NEW a \in Nat, a >= M
  PROVE  (a - M) % M = a % M
<1> DEFINE q == (a - M) \div M
           r == (a - M) % M
<1>1. a - M \in Nat
  OBVIOUS
<1>2. a - M = M * q + r /\ q \in Nat /\ r \in 0 .. M - 1
  BY <1>1, ModParts, ModRange
<1> HIDE DEF q, r
<1>3. a = M * (q + 1) + r /\ q + 1 \in Nat
  BY <1>1, <1>2
<1>4. a % M = r
  BY <1>2, <1>3, ModIs
<1>5. QED
  BY <1>4 DEF r

(* Only put() changes the window.                                          *)
LEMMA SeenMoves ==
  ASSUME TypeOK, [Next]_vars, NEW n \in Node
  PROVE  seen'[n] = seen[n] \/ \E h \in Hash : seen'[n] = Append(seen[n], h)
<1>1. \/ seen' = seen
      \/ \E m \in Node, h \in Hash : seen' = [seen EXCEPT ![m] = Append(@, h)]
  <2>1. ASSUME NEW m \in Node, NEW h \in Hash,
               Broadcast2Room(m, h) \/ \E to \in Node : Send2Client(m, h, to)
        PROVE  seen' = [seen EXCEPT ![m] = Append(@, h)]
    BY <2>1 DEF Broadcast2Room, Send2Client, PutHash
  <2>2. ASSUME NEW m \in Node, NEW p \in Node, Receive(m, p)
        PROVE  seen' = seen \/ \E h \in Hash : seen' = [seen EXCEPT ![m] = Append(@, h)]
    <3>1. Head(wire[<<p, m>>]).hash \in Hash
      BY <2>2, ReceiveType DEF Message
    <3>2. QED
      BY <2>2, <3>1 DEF Receive, DropDuplicate, Accept, PutHash
  <2>3. QED
    BY <2>1, <2>2 DEF Next, vars, OpenChannel, Take, SendNext, SendDirect
<1>2. seen \in [Node -> Seq(Hash)]
  BY DEF TypeOK
<1>3. QED
  BY <1>1, <1>2

(* A put fills the slot of the head and leaves the others.                 *)
LEMMA LatestPut ==
  ASSUME NEW n \in Node, NEW h \in Hash, NEW k \in 0 .. N - 1,
         seen[n] \in Seq(Hash), seen'[n] = Append(seen[n], h)
  PROVE  Latest(n, k)' = IF k = HeadOf(n) THEN {Len(seen[n]) + 1} ELSE Latest(n, k)
<1> DEFINE L == Len(seen[n])
<1>1. /\ L \in Nat /\ N \in Nat \ {0} /\ DOMAIN seen[n] = 1 .. L
      /\ Len(seen'[n]) = L + 1 /\ DOMAIN seen'[n] = 1 .. L + 1
  BY WindowAssumption
<1>2. Latest(n, k) = {i \in 1 .. L : ~(i <= L - N) /\ (i - 1) % N = k}
  BY <1>1 DEF Latest, Forgotten
<1>3. Latest(n, k)' = {i \in 1 .. L + 1 : ~(i <= L + 1 - N) /\ (i - 1) % N = k}
  BY <1>1 DEF Latest, Forgotten
<1>4. HeadOf(n) = L % N
  BY DEF HeadOf
<1> HIDE DEF L
<1>5. CASE k = L % N
  <2>1. L + 1 \in Latest(n, k)'
    <3>1. (L + 1) - 1 = L /\ L + 1 \in 1 .. L + 1 /\ ~(L + 1 <= L + 1 - N)
      BY <1>1
    <3>2. QED
      BY <1>3, <1>5, <3>1
  <2>2. ASSUME NEW i \in 1 .. L, ~(i <= L + 1 - N), (i - 1) % N = k
        PROVE  FALSE
    <3>1. i - 1 \in Nat /\ i - 1 < L
      BY <1>1
    <3>2. L - (i - 1) >= N
      BY <1>1, <1>5, <2>2, <3>1, ModApart
    <3>3. QED
      BY <1>1, <2>2, <3>2
  <2>3. \A i \in 1 .. L + 1 : i \in 1 .. L \/ i = L + 1
    BY <1>1
  <2>4. Latest(n, k)' = {L + 1}
    BY <1>3, <2>1, <2>2, <2>3
  <2>5. QED
    BY <1>4, <1>5, <2>4 DEF L
<1>6. CASE k # L % N
  <2>1. ASSUME NEW i \in 1 .. L + 1, (i - 1) % N = k
        PROVE  i \in 1 .. L /\ i # L + 1 - N
    <3>1. i # L + 1
      <4>1. (L + 1) - 1 = L
        BY <1>1
      <4>2. QED
        BY <1>6, <2>1, <4>1
    <3>2. i # L + 1 - N
      <4>1. SUFFICES ASSUME i = L + 1 - N PROVE FALSE
        OBVIOUS
      <4>2. i - 1 = L - N /\ L >= N
        BY <1>1, <4>1
      <4>3. QED
        BY <1>1, <1>6, <2>1, <4>2, ModBack
    <3>3. QED
      BY <1>1, <3>1, <3>2
  <2>2. \A i \in 1 .. L : (i <= L + 1 - N) <=> (i <= L - N \/ i = L + 1 - N)
    BY <1>1
  <2>3. 1 .. L \subseteq 1 .. L + 1
    BY <1>1
  <2>4. Latest(n, k)' = Latest(n, k)
    BY <1>2, <1>3, <2>1, <2>2, <2>3
  <2>5. QED
    BY <1>4, <1>6, <2>4
<1>7. QED
  BY <1>5, <1>6

LEMMA FilledInit == Init => FilledInv
<1> SUFFICES ASSUME Init, NEW n \in Node PROVE Len(seen[n]) = 0
  BY WindowAssumption DEF FilledInv
<1>1. QED
  BY DEF Init

LEMMA FilledStep == TypeOK /\ FilledInv /\ [Next]_vars => FilledInv'
<1> SUFFICES ASSUME TypeOK, FilledInv, [Next]_vars, NEW n \in Node, NEW k \in 0 .. N - 1,
                    k < Len(seen'[n])
             PROVE  Latest(n, k)' # {}
  BY DEF FilledInv
<1>1. seen[n] \in Seq(Hash) /\ N \in Nat \ {0}
  BY WindowAssumption DEF TypeOK
<1>2. CASE seen'[n] = seen[n]
  <2>1. Latest(n, k)' = Latest(n, k)
    BY <1>2 DEF Latest, Forgotten
  <2>2. QED
    BY <1>2, <2>1 DEF FilledInv
<1>3. ASSUME NEW h \in Hash, seen'[n] = Append(seen[n], h)
      PROVE  Latest(n, k)' # {}
  <2>1. Latest(n, k)' = IF k = HeadOf(n) THEN {Len(seen[n]) + 1} ELSE Latest(n, k)
    BY <1>1, <1>3, LatestPut
  <2>2. CASE k = HeadOf(n)
    BY <2>1, <2>2
  <2>3. CASE k # HeadOf(n)
    <3>1. Len(seen[n]) \in Nat /\ k < Len(seen[n]) + 1
      BY <1>1, <1>3
    <3>2. k # Len(seen[n])
      <4>1. k % N = k
        BY <1>1, ModSmall
      <4>2. QED
        BY <2>3, <4>1 DEF HeadOf
    <3>3. k < Len(seen[n])
      BY <1>1, <3>1, <3>2
    <3>4. QED
      BY <2>1, <2>3, <3>3 DEF FilledInv
  <2>4. QED
    BY <2>2, <2>3
<1>4. QED
  BY <1>2, <1>3, SeenMoves

LEMMA RingInit == ASSUME Init, NEW n \in Node PROVE Ring(n)!Init
<1>1. seen[n] = << >> /\ Len(seen[n]) = 0 /\ N \in Nat \ {0}
  BY WindowAssumption DEF Init
<1>2. HeadOf(n) = 0 /\ ~IsFull(n)
  <2>1. 0 \in 0 .. N - 1 /\ ~(0 >= N)
    BY <1>1
  <2>2. 0 % N = 0
    BY <1>1, <2>1, ModSmall
  <2>3. QED
    BY <1>1, <2>1, <2>2 DEF HeadOf, IsFull
<1>3. \A k \in 0 .. N - 1 : Latest(n, k) = {}
  BY <1>1 DEF Latest
<1>4. BufferOf(n) = [k \in 0 .. N - 1 |-> NoOne]
  BY <1>3 DEF BufferOf
<1>5. QED
  BY <1>2, <1>4 DEF Ring!Init, Ring!Slots

(* Each put is that of the ring.                                           *)
LEMMA RingPut ==
  ASSUME NEW n \in Node, NEW h \in Hash,
         seen[n] \in Seq(Hash), seen'[n] = Append(seen[n], h)
  PROVE  Ring(n)!Put(h)
<1> DEFINE L == Len(seen[n])
<1>1. /\ L \in Nat /\ N \in Nat \ {0} /\ Len(seen'[n]) = L + 1
      /\ seen'[n][L + 1] = h /\ \A i \in 1 .. L : seen'[n][i] = seen[n][i]
  BY WindowAssumption
<1>2. /\ HeadOf(n) = L % N /\ HeadOf(n)' = (L + 1) % N
      /\ IsFull(n) <=> L >= N
      /\ IsFull(n)' <=> L + 1 >= N
  BY <1>1 DEF HeadOf, IsFull
<1>3. HeadOf(n) \in 0 .. N - 1
  BY <1>1, <1>2, ModRange
<1>4. ASSUME NEW k \in 0 .. N - 1
      PROVE  /\ Latest(n, k)' = IF k = HeadOf(n) THEN {L + 1} ELSE Latest(n, k)
             /\ Latest(n, k) \subseteq 1 .. L
  BY LatestPut DEF Latest
<1> HIDE DEF L
<1>5. ASSUME NEW k \in 0 .. N - 1
      PROVE  BufferOf(n)'[k] = IF k = HeadOf(n) THEN h ELSE BufferOf(n)[k]
  <2>1. BufferOf(n)'[k] = IF Latest(n, k)' = {} THEN NoOne
                          ELSE seen'[n][CHOOSE i \in Latest(n, k)' : TRUE]
    BY DEF BufferOf
  <2>2. BufferOf(n)[k] = IF Latest(n, k) = {} THEN NoOne
                         ELSE seen[n][CHOOSE i \in Latest(n, k) : TRUE]
    BY DEF BufferOf
  <2>3. CASE k = HeadOf(n)
    <3>1. Latest(n, k)' = {L + 1}
      BY <1>4, <2>3
    <3>2. (CHOOSE i \in Latest(n, k)' : TRUE) = L + 1 /\ Latest(n, k)' # {}
      BY <3>1
    <3>3. QED
      BY <1>1, <2>1, <2>3, <3>2
  <2>4. CASE k # HeadOf(n)
    <3>1. Latest(n, k)' = Latest(n, k) /\ Latest(n, k) \subseteq 1 .. L
      BY <1>4, <2>4
    <3>2. CASE Latest(n, k) = {}
      BY <2>1, <2>2, <2>4, <3>1, <3>2
    <3>3. CASE Latest(n, k) # {}
      <4>1. (CHOOSE i \in Latest(n, k) : TRUE) \in 1 .. L
        BY <3>1, <3>3
      <4>2. QED
        BY <1>1, <2>1, <2>2, <2>4, <3>1, <3>3, <4>1
    <3>4. QED
      BY <3>2, <3>3
  <2>5. QED
    BY <2>3, <2>4
<1>6. BufferOf(n)' = [BufferOf(n) EXCEPT ![HeadOf(n)] = h]
  BY <1>5 DEF BufferOf
<1>7. Ring(n)!Succ(L % N) = (L + 1) % N
  <2>1. L % N \in 0 .. N - 1 /\ (L % N) % N = L % N
    BY <1>1, ModRange, ModSmall
  <2>2. ((L % N) + 1) % N = (L + 1) % N
    <3>1. (L + 1) % N = IF L % N = N - 1 THEN 0 ELSE (L % N) + 1
      BY <1>1, ModSucc
    <3>2. L % N \in Nat
      BY <1>1, <2>1
    <3>3. ((L % N) + 1) % N = IF L % N = N - 1 THEN 0 ELSE (L % N) + 1
      BY <1>1, <2>1, <3>2, ModSucc
    <3>4. QED
      BY <3>1, <3>3
  <2>3. QED
    BY <2>2 DEF Ring!Succ
<1>8. (IF IsFull(n)' THEN HeadOf(n)' ELSE 0) =
        IF IsFull(n) THEN Ring(n)!Succ(IF IsFull(n) THEN HeadOf(n) ELSE 0)
                     ELSE IF IsFull(n) THEN HeadOf(n) ELSE 0
  <2>1. CASE L >= N
    <3>1. IsFull(n) /\ IsFull(n)'
      BY <1>1, <1>2, <2>1
    <3>2. QED
      BY <1>2, <1>7, <3>1
  <2>2. CASE L < N
    <3>1. ~IsFull(n)
      BY <1>1, <1>2, <2>2
    <3>2. IsFull(n)' => (L + 1) % N = 0
      <4>1. SUFFICES ASSUME IsFull(n)' PROVE (L + 1) % N = 0
        OBVIOUS
      <4>2. L + 1 = N /\ L \in 0 .. N - 1
        BY <1>1, <1>2, <2>2, <4>1
      <4>3. L % N = N - 1
        BY <1>1, <4>2, ModSmall
      <4>4. QED
        BY <1>1, <4>3, ModSucc
    <3>3. QED
      BY <1>2, <3>1, <3>2
  <2>3. QED
    BY <1>1, <2>1, <2>2
<1>9. IsFull(n)' = (HeadOf(n)' = IF IsFull(n)' THEN HeadOf(n)' ELSE 0)
  <2>1. CASE L + 1 >= N
    BY <1>2, <2>1 DEF IsFull
  <2>2. CASE L + 1 < N
    <3>1. (L + 1) % N = L + 1
      <4>1. L + 1 \in 0 .. N - 1
        BY <1>1, <2>2
      <4>2. QED
        BY <1>1, <4>1, ModSmall
    <3>2. QED
      BY <1>1, <1>2, <2>2, <3>1 DEF IsFull
  <2>3. QED
    BY <1>1, <2>1, <2>2
<1>10. QED
  BY <1>2, <1>6, <1>7, <1>8, <1>9 DEF Ring!Put

(* The scan of the ring looks where IsExists does.                         *)
LEMMA RingAnswers ==
  ASSUME TypeOK, FilledInv, NEW n \in Node, NEW h \in Hash
  PROVE  IsExists(n, h) <=> Ring(n)!IsExists(h)
<1> DEFINE L == Len(seen[n])
<1>1. /\ L \in Nat /\ N \in Nat \ {0} /\ DOMAIN seen[n] = 1 .. L /\ seen[n] \in Seq(Hash)
  BY WindowAssumption DEF TypeOK
<1>2. Ring(n)!Size = IF L >= N THEN N ELSE L
  <2>1. CASE L >= N
    BY <2>1 DEF Ring!Size, IsFull
  <2>2. CASE L < N
    <3>1. ~IsFull(n) /\ HeadOf(n) = L
      <4>1. L \in 0 .. N - 1 /\ ~(L >= N)
        BY <1>1, <2>2
      <4>2. L % N = L
        BY <1>1, <4>1, ModSmall
      <4>3. QED
        BY <4>1, <4>2 DEF IsFull, HeadOf
    <3>2. QED
      BY <1>1, <2>2, <3>1 DEF Ring!Size
  <2>3. QED
    BY <1>1, <2>1, <2>2
<1>3. ASSUME NEW i \in 1 .. L, NEW j \in 1 .. L, ~Forgotten(n, i), ~Forgotten(n, j),
             (i - 1) % N = (j - 1) % N
      PROVE  ~(i < j)
  <2>1. SUFFICES ASSUME i < j PROVE FALSE
    OBVIOUS
  <2>2. (j - 1) - (i - 1) >= N
    <3>1. i - 1 \in Nat /\ j - 1 \in Nat /\ i - 1 < j - 1
      BY <1>1, <2>1
    <3>2. QED
      BY <1>1, <1>3, <3>1, ModApart
  <2>3. QED
    BY <1>1, <1>3, <2>2 DEF Forgotten
<1>4. ASSUME NEW k \in 0 .. N - 1, NEW i \in Latest(n, k)
      PROVE  /\ i \in 1 .. L /\ ~Forgotten(n, i) /\ (i - 1) % N = k
             /\ BufferOf(n)[k] = seen[n][i]
  <2>1. \A j \in Latest(n, k) : j = i
    <3>1. \A j \in Latest(n, k) : ~(i < j) /\ ~(j < i) /\ i \in Int /\ j \in Int
      BY <1>1, <1>3 DEF Latest
    <3>2. QED
      BY <3>1
  <2>2. (CHOOSE j \in Latest(n, k) : TRUE) = i
    BY <2>1
  <2>3. QED
    BY <1>1, <2>2 DEF Latest, BufferOf
<1> HIDE DEF L
<1>5. ASSUME IsExists(n, h)
      PROVE  Ring(n)!IsExists(h)
  <2>1. PICK i \in 1 .. L : seen[n][i] = h /\ ~Forgotten(n, i) /\ ~Slot0(i)
    BY <1>1, <1>5 DEF IsExists, Puts
  <2>2. (i - 1) % N \in 1 .. N - 1 /\ i - 1 \in Nat
    BY <1>1, <2>1, ModRange DEF Slot0
  <2>3. i \in Latest(n, (i - 1) % N) /\ (i - 1) % N \in 0 .. N - 1
    BY <1>1, <2>1, <2>2 DEF Latest
  <2>4. BufferOf(n)[(i - 1) % N] = h
    BY <1>4, <2>1, <2>3
  <2>5. (i - 1) % N \in 1 .. Ring(n)!Size - 1
    <3>1. CASE L >= N
      BY <1>2, <2>2, <3>1
    <3>2. CASE L < N
      <4>1. (i - 1) % N = i - 1
        <5>1. i - 1 \in 0 .. N - 1
          BY <1>1, <3>2
        <5>2. QED
          BY <1>1, <5>1, ModSmall
      <4>2. QED
        BY <1>1, <1>2, <2>2, <3>2, <4>1
    <3>3. QED
      BY <1>1, <3>1, <3>2
  <2>6. QED
    BY <2>4, <2>5 DEF Ring!IsExists, Ring!Scanned
<1>6. ASSUME Ring(n)!IsExists(h)
      PROVE  IsExists(n, h)
  <2>1. PICK k \in 1 .. Ring(n)!Size - 1 : BufferOf(n)[k] = h
    BY <1>6 DEF Ring!IsExists, Ring!Scanned
  <2>2. k \in 0 .. N - 1 /\ k < L /\ k # 0
    BY <1>1, <1>2, <2>1
  <2>3. Latest(n, k) # {}
    BY <2>2 DEF FilledInv, L
  <2>4. PICK i \in Latest(n, k) : TRUE
    BY <2>3
  <2>5. i \in 1 .. L /\ ~Forgotten(n, i) /\ (i - 1) % N = k /\ seen[n][i] = h
    BY <1>4, <2>1, <2>2, <2>4
  <2>6. QED
    BY <1>1, <2>2, <2>5 DEF IsExists, Puts, Slot0
<1>7. QED
  BY <1>5, <1>6

(* The window of each node, of which Flood only says what was put when, is *)
(* the array with its indices, and isExists() answers as it does there.    *)
THEOREM WindowRefines == Spec => WindowIsRing
<1> DEFINE Puts1 == \A n \in Node : UNCHANGED seen[n] \/ \E h \in Hash : Ring(n)!Put(h)
           Same == \A n \in Node, h \in Hash : IsExists(n, h) <=> Ring(n)!IsExists(h)
<1>1. Init => \A n \in Node : Ring(n)!Init
  BY RingInit
<1>2. TypeOK /\ [Next]_vars => [Puts1]_vars
  <2> SUFFICES ASSUME TypeOK, [Next]_vars, NEW n \in Node, seen'[n] # seen[n]
               PROVE  \E h \in Hash : Ring(n)!Put(h)
    OBVIOUS
  <2>1. seen[n] \in Seq(Hash)
    BY DEF TypeOK
  <2>2. QED
    BY <2>1, SeenMoves, RingPut
<1>3. TypeOK /\ FilledInv => Same
  BY RingAnswers
<1>4. QED
  BY <1>1, <1>2, <1>3, TypeInit, TypeStep, FilledInit, FilledStep, PTL
     DEF Spec, WindowIsRing

(* It is a behaviour of the ring, so that what CircularBufferProofs shows  *)
(* of the ring holds of it.                                                *)
THEOREM RingOfNode == Spec => \A n \in Node : Ring(n)!Spec
<1>1. ASSUME NEW n \in Node
      PROVE  Spec => Ring(n)!Spec
  <2>1. Init => Ring(n)!Init
    BY <1>1, RingInit
  <2>2. TypeOK /\ [Next]_vars => [Ring(n)!Next]_(Ring(n)!vars)
    <3> SUFFICES ASSUME TypeOK, [Next]_vars
                 PROVE  Ring(n)!Next \/ UNCHANGED (Ring(n)!vars)
      OBVIOUS
    <3>1. CASE seen'[n] = seen[n]
      <4>1. BufferOf(n)' = BufferOf(n) /\ HeadOf(n)' = HeadOf(n) /\ IsFull(n)' = IsFull(n)
        BY <3>1 DEF BufferOf, HeadOf, IsFull, Latest, Forgotten
      <4>2. QED
        BY <4>1 DEF Ring!vars
    <3>2. ASSUME NEW h \in Hash, seen'[n] = Append(seen[n], h)
          PROVE  Ring(n)!Next
      <4>1. seen[n] \in Seq(Hash)
        BY <1>1 DEF TypeOK
      <4>2. Ring(n)!Put(h)
        BY <1>1, <3>2, <4>1, RingPut
      <4>3. QED
        BY <4>2 DEF Ring!Next
    <3>3. QED
      BY <1>1, <3>1, <3>2, SeenMoves
  <2>3. QED
    BY <2>1, <2>2, TypeInit, TypeStep, PTL DEF Spec, Ring!Spec
<1>2. QED
  BY <1>1
=============================================================================
