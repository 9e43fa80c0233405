--------------------------- MODULE ConsoleProofs ---------------------------
(***************************************************************************)
(* For every capacity of the queue and every number of messages, handlers  *)
(* and nested menus: what the console shows, and when the request to end   *)
(* stays set.                                                              *)
(***************************************************************************)
EXTENDS Console, TLAPS

----------------------------------------------------------------------------
(* Types                                                                   *)

\* What is put is a message, what is shown was taken from the queue, and the
\* reader takes only when there is something, or to see the flag.
PutsMessage == due > 0 => came > 0
ShowsMessage == reader = "show" => got \in Message
AwakeForCause == reader = "awake" => queue # << >> \/ flag

TypeInv == TypeOK /\ PutsMessage /\ ShowsMessage /\ AwakeForCause

LEMMA TypeInit == Init => TypeInv
<1> SUFFICES ASSUME Init PROVE TypeInv
  OBVIOUS
<1>1. 1 \in 0 .. MaxDepth /\ 0 \in 0 .. MaxMessages /\ 0 \in 0 .. handlers
  BY ConsoleAssumption DEF Init
<1>2. queue = << >> /\ got = NoMessage /\ 0 <= Capacity
  BY ConsoleAssumption DEF Init, Window!Init
<1>3. queue \in Seq(Message) /\ Len(queue) = 0 /\ shown \in Seq(Message)
  BY <1>2 DEF Init
<1>4. TypeOK
  <2>1. at = "menu" /\ depth = 1 /\ exits = 0 /\ reader = "none"
        /\ toldAt = "none" /\ handlers = 0 /\ came = 0 /\ due = 0
    BY DEF Init
  <2>2. missed \in BOOLEAN /\ flag \in BOOLEAN /\ member \in BOOLEAN /\ loopRuns \in BOOLEAN
        /\ answered \in BOOLEAN /\ missedAnswer \in BOOLEAN /\ future = "none"
    BY Zenon DEF Init
  <2>3. QED
    BY <1>1, <1>2, <1>3, <2>1, <2>2 DEF TypeOK
<1>5. QED
  BY <1>4 DEF Init, TypeInv, PutsMessage, ShowsMessage, AwakeForCause

LEMMA Notified ==
  ASSUME TypeOK, NotifyAll
  PROVE  /\ reader' = reader \/ (reader = "asleep" /\ reader' = "test")
         /\ missed' \in BOOLEAN
<1>1. reader' = IF reader = "asleep" THEN "test" ELSE reader
  BY Zenon DEF NotifyAll
<1>2. missed' \in BOOLEAN
  BY DEF NotifyAll
<1>3. QED
  BY <1>1, <1>2, Zenon

(* What the queue is after a put and a get.                                *)
LEMMA QueuePut ==
  ASSUME TypeOK, NEW m \in Message, Window!Put(m)
  PROVE  /\ queue' \in Seq(Message) /\ Len(queue') <= Capacity /\ queue' # << >>
         /\ queue'[Len(queue')] = m /\ got' = got
         /\ \/ /\ Len(queue) < Capacity /\ Len(queue') = Len(queue) + 1
               /\ \A i \in 1 .. Len(queue) : queue'[i] = queue[i]
            \/ /\ Len(queue) = Capacity /\ Len(queue') = Len(queue)
               /\ \A i \in 1 .. Len(queue) - 1 : queue'[i] = queue[i + 1]
<1>1. queue \in Seq(Message) /\ Len(queue) \in Nat /\ Len(queue) <= Capacity
      /\ Capacity \in Nat \ {0}
  BY ConsoleAssumption DEF TypeOK
<1>2. got' = got
  BY DEF Window!Put
<1>3. CASE Len(queue) < Capacity
  <2>1. queue' = Append(queue, m)
    BY <1>3 DEF Window!Put
  <2>2. QED
    BY <1>1, <1>2, <1>3, <2>1
<1>4. CASE Len(queue) = Capacity
  <2>1. queue' = Append(Tail(queue), m) /\ queue # << >>
    BY <1>1, <1>4 DEF Window!Put
  <2>2. Tail(queue) \in Seq(Message) /\ Len(Tail(queue)) = Len(queue) - 1
        /\ \A i \in 1 .. Len(queue) - 1 : Tail(queue)[i] = queue[i + 1]
    BY <1>1, <2>1
  <2>3. QED
    BY <1>1, <1>2, <1>4, <2>1, <2>2
<1>5. QED
  BY <1>1, <1>3, <1>4

LEMMA QueueGet ==
  ASSUME TypeOK, queue # << >>, Window!Get
  PROVE  /\ queue' \in Seq(Message) /\ Len(queue') = Len(queue) - 1
         /\ \A i \in 1 .. Len(queue) - 1 : queue'[i] = queue[i + 1]
         /\ got' = queue[1] /\ got' \in Message
<1>1. queue \in Seq(Message)
  BY DEF TypeOK
<1>2. queue' = Tail(queue) /\ got' = Head(queue)
  BY DEF Window!Get
<1>3. QED
  BY <1>1, <1>2

LEMMA TypeStep == TypeInv /\ [Next]_vars => TypeInv'
<1> SUFFICES ASSUME TypeInv, [Next]_vars PROVE TypeInv'
  OBVIOUS
<1> USE ConsoleAssumption DEF futureVars
<1>1. CASE UNCHANGED vars
  BY <1>1 DEF vars, menuVars, readerVars, queueVars, history, nodeVars, TypeInv, TypeOK,
              PutsMessage, ShowsMessage, AwakeForCause
<1>2. CASE MessageHandler
  BY <1>2 DEF MessageHandler, readerVars, queueVars, history, TypeInv, TypeOK,
              PutsMessage, ShowsMessage, AwakeForCause
<1>3. CASE Join \/ Leave
  <2>1. CASE Join
    <3>1. due \in 0 .. handlers' /\ handlers' \in Nat
      BY <2>1 DEF Join, TypeInv, TypeOK
    <3>2. QED
      BY <2>1, <3>1 DEF Join, Nested, readerVars, queueVars, history, TypeInv, TypeOK,
              PutsMessage, ShowsMessage, AwakeForCause
  <2>2. CASE Leave
    <3>1. member' \in BOOLEAN
      BY <2>2, Zenon DEF Leave
    <3>2. depth' = depth + 1 /\ depth < MaxDepth /\ UNCHANGED <<at, reader, missed, flag>>
          /\ UNCHANGED <<toldAt, queue, got, shown, loopRuns, handlers, came, due, exits>>
          /\ UNCHANGED <<future, answered, missedAnswer>> /\ at = "menu"
      BY <2>2 DEF Leave, Nested, readerVars, queueVars, history
    <3>3. QED
      BY <3>1, <3>2 DEF readerVars, queueVars, history, TypeInv, TypeOK,
              PutsMessage, ShowsMessage, AwakeForCause
  <2>3. QED
    BY <1>3, <2>1, <2>2
<1>4. CASE Writer
  BY <1>4 DEF Writer, Nested, readerVars, queueVars, history, nodeVars, TypeInv, TypeOK,
              PutsMessage, ShowsMessage, AwakeForCause
<1>5. CASE Reader
  BY <1>5 DEF Reader, queueVars, history, nodeVars, TypeInv, TypeOK,
              PutsMessage, ShowsMessage, AwakeForCause
<1>6. CASE StopReading
  BY <1>6, Notified DEF StopReading, queueVars, nodeVars, TypeInv, TypeOK,
              PutsMessage, ShowsMessage, AwakeForCause
<1>7. CASE JoinReader
  BY <1>7 DEF JoinReader, Nested, queueVars, history, nodeVars, TypeInv, TypeOK,
              PutsMessage, ShowsMessage, AwakeForCause
<1>8. CASE Exit \/ Exited
  <2>1. CASE Exit
    <3>1. /\ at = "menu" /\ at' = "exiting" /\ exits' = exits + 1 /\ future' = "test"
          /\ answered' = FALSE /\ missedAnswer' = FALSE
          /\ UNCHANGED <<depth, reader, missed, flag, queue, got, toldAt, shown>>
          /\ UNCHANGED <<member, handlers, came, due, loopRuns>>
      BY <2>1 DEF Exit, readerVars, queueVars, history, nodeVars
    <3>2. TypeOK'
      <4>1. answered' \in BOOLEAN /\ missedAnswer' \in BOOLEAN
        BY <3>1, Zenon
      <4>2. /\ depth' = 0 <=> at' = "ended"
            /\ reader' = "none" <=> at' \notin {"reading", "stopping"}
            /\ exits' \in Nat
        BY <3>1 DEF TypeInv, TypeOK
      <4>3. missed' \in BOOLEAN /\ flag' \in BOOLEAN /\ member' \in BOOLEAN
            /\ loopRuns' \in BOOLEAN
        BY <3>1, Zenon DEF TypeInv, TypeOK
      <4>4. QED
        BY <3>1, <4>1, <4>2, <4>3 DEF TypeInv, TypeOK
    <3>3. QED
      BY <3>1, <3>2 DEF TypeInv, PutsMessage, ShowsMessage, AwakeForCause
  <2>2. CASE Exited
    BY <1>8, <2>2 DEF Exited, readerVars, queueVars, history, nodeVars, TypeInv, TypeOK,
              PutsMessage, ShowsMessage, AwakeForCause
  <2>3. QED
    BY <1>8, <2>1, <2>2
<1>9. CASE Handle \/ LoopEnds
  <2>1. CASE Handle
    <3>1. due' \in 0 .. handlers /\ came' \in 0 .. MaxMessages /\ came' > 0
      BY <2>1 DEF Handle, TypeInv, TypeOK
    <3>2. QED
      BY <2>1, <3>1 DEF Handle, menuVars, readerVars, queueVars, history, TypeInv, TypeOK,
              PutsMessage, ShowsMessage, AwakeForCause
  <2>2. CASE LoopEnds
    <3>1. loopRuns' \in BOOLEAN
      BY <2>2, Zenon DEF LoopEnds
    <3>2. /\ UNCHANGED <<at, depth, exits, reader, missed, flag, queue, got>>
          /\ UNCHANGED <<toldAt, shown, member, handlers, came, due>>
          /\ UNCHANGED <<future, answered, missedAnswer>>
      BY <2>2 DEF LoopEnds, menuVars, readerVars, queueVars, history
    <3>3. QED
      BY <3>1, <3>2 DEF menuVars, readerVars, queueVars, history, TypeInv, TypeOK,
              PutsMessage, ShowsMessage, AwakeForCause
  <2>3. QED
    BY <1>9, <2>1, <2>2
<1>10. CASE Put
  <2>1. came \in Message
    BY <1>10 DEF Put, TypeInv, TypeOK, PutsMessage, Message
  <2>2. /\ queue' \in Seq(Message) /\ Len(queue') <= Capacity /\ queue' # << >>
        /\ got' = got
    BY <1>10, <2>1, QueuePut DEF Put, TypeInv
  <2>3. /\ reader' = reader \/ (reader = "asleep" /\ reader' = "test")
        /\ missed' \in BOOLEAN
    BY <1>10, Notified DEF Put, TypeInv
  <2>4. QED
    BY <1>10, <2>2, <2>3 DEF Put, menuVars, history, TypeInv, TypeOK,
              PutsMessage, ShowsMessage, AwakeForCause
<1>11. CASE Loop \/ Sleep \/ WakeSpuriously
  BY <1>11 DEF Loop, Sleep, WakeSpuriously, menuVars, queueVars, history, nodeVars,
               TypeInv, TypeOK, PutsMessage, ShowsMessage, AwakeForCause
<1>12. CASE Test
  <2>1. /\ reader = "test" /\ reader' \in {"gap", "awake"} /\ missed' = FALSE
        /\ reader' = "awake" => queue # << >> \/ flag
        /\ UNCHANGED <<at, depth, exits, flag, queue, got, toldAt, shown, member,
                      handlers, came, due, loopRuns, future, answered, missedAnswer>>
    BY <1>12 DEF Test, Waits, menuVars, queueVars, history, nodeVars
  <2>2. QED
    <3>1. TypeOK'
      <4>1. /\ reader' = "none" <=> at' \notin {"reading", "stopping"}
            /\ missed' \in BOOLEAN
        BY <2>1 DEF TypeInv, TypeOK
      <4>2. QED
        BY <2>1, <4>1 DEF TypeInv, TypeOK
    <3>2. QED
      BY <2>1, <3>1 DEF TypeInv, PutsMessage, ShowsMessage, AwakeForCause
<1>13. CASE Obey
  BY <1>13 DEF Obey, menuVars, queueVars, history, nodeVars,
               TypeInv, TypeOK, PutsMessage, ShowsMessage, AwakeForCause
<1>14. CASE Take
  <2>1. /\ queue' \in Seq(Message) /\ Len(queue') <= Capacity /\ got' \in Message
    BY <1>14, QueueGet DEF Take, TypeInv, TypeOK, AwakeForCause
  <2>2. QED
    BY <1>14, <2>1 DEF Take, menuVars, history, nodeVars,
               TypeInv, TypeOK, PutsMessage, ShowsMessage, AwakeForCause
<1>15. CASE Show
  <2>1. shown' \in Seq(Message)
    BY <1>15 DEF Show, TypeInv, TypeOK, ShowsMessage
  <2>2. QED
    BY <1>15, <2>1 DEF Show, menuVars, queueVars, nodeVars,
               TypeInv, TypeOK, PutsMessage, ShowsMessage, AwakeForCause
<1>16. CASE Answer
  <2>1. answered' = TRUE /\ missedAnswer' = (future = "gap")
    BY <1>16 DEF Answer
  <2>2. /\ future' \in {"none", "test", "gap", "asleep", "through"}
        /\ future' = "none" <=> future = "none"
    BY <1>16 DEF Answer, TypeInv, TypeOK
  <2>3. QED
    BY <1>16, <2>1, <2>2 DEF Answer, menuVars, readerVars, queueVars, history, nodeVars,
               TypeInv, TypeOK, PutsMessage, ShowsMessage, AwakeForCause
<1>17. CASE FutureStep \/ FutureWakes
  BY <1>17 DEF FutureStep, FutureTest, FutureSleep, FutureWakes, menuVars, readerVars,
               queueVars, history, nodeVars,
               TypeInv, TypeOK, PutsMessage, ShowsMessage, AwakeForCause
<1>18. QED
  BY <1>1, <1>2, <1>3, <1>4, <1>5, <1>6, <1>7, <1>8, <1>9, <1>10, <1>11, <1>12, <1>13,
     <1>14, <1>15, <1>16, <1>17 DEF Next, Commands, MainStep, NodeStep, ReaderStep

(* The types, and that the menus are left exactly when none is open.       *)
THEOREM TypeCorrect == Spec => []TypeOK
<1>1. TypeInv => TypeOK
  BY DEF TypeInv
<1>2. QED
  BY <1>1, TypeInit, TypeStep, PTL DEF Spec

----------------------------------------------------------------------------
(* The request to end                                                      *)

Between == toldAt \in {"loop", "show"}
InTest == reader \in {"test", "gap", "asleep", "awake"}

\* A reader that saw no stale flag runs without one; and the one told to end
\* in the inner loop resets it.
ReadsUntold ==
  at = "reading" => /\ InTest \/ reader = "show" => ~flag
                    /\ reader = "ended" => flag
StopsTold ==
  at = "stopping" => \/ Between
                     \/ InTest /\ flag
                     \/ reader = "ended" /\ ~flag

ToldInv == StaleOnlyBetweenMessages /\ ReadsUntold /\ StopsTold

LEMMA ToldInit == Init => ToldInv
  BY DEF Init, ToldInv, StaleOnlyBetweenMessages, ReadsUntold, StopsTold

LEMMA ToldStep == TypeInv /\ ToldInv /\ [Next]_vars => ToldInv'
<1> SUFFICES ASSUME TypeOK, ToldInv, [Next]_vars PROVE ToldInv'
  BY DEF TypeInv
<1> USE DEF ToldInv, StaleOnlyBetweenMessages, ReadsUntold, StopsTold, Between, InTest
<1>1. CASE UNCHANGED <<at, reader, flag, toldAt>>
  BY <1>1
<1>2. CASE MessageHandler \/ Reader
  BY <1>2 DEF MessageHandler, Reader, history
<1>3. CASE Join \/ Leave \/ Writer \/ Exit \/ Exited
  BY <1>3 DEF Join, Leave, Writer, Exit, Exited, readerVars, history
<1>4. CASE StopReading
  <2>1. reader \in {"loop", "test", "gap", "asleep", "awake", "show", "ended"}
    BY <1>4 DEF StopReading, TypeOK
  <2>2. CASE reader = "ended"
    BY <1>4, <2>2, Notified DEF StopReading
  <2>3. CASE reader # "ended"
    BY <1>4, <2>1, <2>3, Notified DEF StopReading
  <2>4. QED
    BY <2>2, <2>3
<1>5. CASE JoinReader
  BY <1>5 DEF JoinReader, history
<1>6. CASE Put
  BY <1>6, Notified DEF Put, menuVars, history
<1>7. CASE Loop \/ Test \/ Sleep \/ WakeSpuriously
  BY <1>7 DEF Loop, Test, Waits, Sleep, WakeSpuriously, menuVars, history, TypeOK
<1>8. CASE Obey
  BY <1>8 DEF Obey, menuVars, history, TypeOK
<1>9. CASE Take \/ Show
  BY <1>9 DEF Take, Show, menuVars, history, TypeOK
<1>10. CASE \/ UNCHANGED vars \/ Handle \/ LoopEnds \/ Answer
            \/ FutureStep \/ FutureWakes
  BY <1>1, <1>10 DEF Handle, LoopEnds, Answer, FutureStep, FutureTest, FutureSleep,
                     FutureWakes, vars, menuVars, readerVars, history
<1>11. QED
  BY <1>2, <1>3, <1>4, <1>5, <1>6, <1>7, <1>8, <1>9, <1>10
  DEF Next, Commands, MainStep, NodeStep, ReaderStep

(* The request to end stays set after it was served only if it came while  *)
(* the reader was between two messages.                                    *)
THEOREM StaleBetween == Spec => []StaleOnlyBetweenMessages
<1>1. ToldInv => StaleOnlyBetweenMessages
  BY DEF ToldInv
<1>2. QED
  BY <1>1, TypeInit, TypeStep, ToldInit, ToldStep, PTL DEF Spec

----------------------------------------------------------------------------
(* What is shown                                                           *)

Shows == reader = "show"

\* Shown, taken, queued, came: in this order the messages grow.
ShownSorted == \A i, j \in DOMAIN shown : i < j => shown[i] <= shown[j]
QueueSorted ==
  \A j \in DOMAIN queue :
    /\ queue[j] <= came
    /\ \A i \in DOMAIN queue : i < j => queue[i] <= queue[j]
    /\ Shows => got <= queue[j]
    /\ \A i \in DOMAIN shown : shown[i] <= queue[j]
TakenSorted ==
  /\ Shows => got <= came
  /\ \A i \in DOMAIN shown : shown[i] <= came /\ (Shows => shown[i] <= got)

\* The puts after that of a queued message, those still due counted.
Limit(m) == (came - m + 1) * handlers
BehindInv == \A i \in DOMAIN queue : Len(queue) - i + 1 + due <= Limit(queue[i])

IsShown(m) == \E i \in DOMAIN shown : shown[i] = m
InQueue(m) == \E i \in DOMAIN queue : queue[i] = m
Kept(m) == \/ IsShown(m) \/ InQueue(m)
           \/ m = came /\ due > 0
           \/ m = got /\ Shows
           \/ Limit(m) > Capacity
KeptInv == \A m \in 1 .. came : Kept(m)

OrderInv == ShownSorted /\ QueueSorted /\ TakenSorted
ShowInv == OrderInv /\ BehindInv /\ KeptInv

LEMMA ShowInit == Init => ShowInv
<1> SUFFICES ASSUME Init PROVE ShowInv
  OBVIOUS
<1>1. queue = << >> /\ shown = << >> /\ came = 0 /\ reader = "none"
  BY DEF Init, Window!Init
<1>2. OrderInv
  BY <1>1 DEF OrderInv, ShownSorted, QueueSorted, TakenSorted, Shows
<1>3. BehindInv /\ KeptInv
  BY <1>1 DEF BehindInv, KeptInv
<1>4. QED
  BY <1>2, <1>3 DEF ShowInv

(* One more message, and one more handler.                                 *)
LEMMA LimitGrows ==
  ASSUME NEW c \in Nat, NEW m \in Nat, NEW h \in Nat, m <= c
  PROVE  /\ (c - m + 1) * h \in Nat
         /\ (c + 1 - m + 1) * h = (c - m + 1) * h + h
         /\ (c - m + 1) * (h + 1) >= (c - m + 1) * h
<1>1. PICK k \in Nat : k = c - m + 1
  OBVIOUS
<1>2. k * h \in Nat /\ (k + 1) * h = k * h + h /\ k * (h + 1) = k * h + k
  OBVIOUS
<1>3. QED
  BY <1>1, <1>2

(* The types of what the queue holds.                                      *)
LEMMA Holds ==
  ASSUME TypeInv
  PROVE  /\ queue \in Seq(Message) /\ shown \in Seq(Message)
         /\ Len(queue) \in Nat /\ DOMAIN queue = 1 .. Len(queue)
         /\ \A i \in DOMAIN queue : queue[i] \in Nat
         /\ \A i \in DOMAIN shown : shown[i] \in Nat
         /\ Shows => got \in Nat
         /\ came \in Nat /\ handlers \in Nat /\ due \in Nat /\ due <= handlers
         /\ Capacity \in Nat \ {0} /\ Len(queue) <= Capacity
  BY ConsoleAssumption DEF TypeInv, TypeOK, ShowsMessage, Shows, Message

(* A step that changes neither queue, messages shown nor what came.        *)
LEMMA ShowKept ==
  ASSUME TypeInv, ShowInv, UNCHANGED <<queue, got, shown, came, due>>, Shows' <=> Shows,
         handlers' = handlers \/ handlers' = handlers + 1
  PROVE  ShowInv'
<1>1. OrderInv'
  BY DEF ShowInv, OrderInv, ShownSorted, QueueSorted, TakenSorted
<1>2. \A m \in Nat : m <= came => Limit(m)' >= Limit(m) /\ Limit(m) \in Nat /\ Limit(m)' \in Nat
  BY Holds, LimitGrows DEF Limit
<1>3. BehindInv'
  <2> SUFFICES ASSUME NEW i \in DOMAIN queue
               PROVE  Len(queue) - i + 1 + due <= Limit(queue[i])'
    BY DEF BehindInv, Limit
  <2>1. queue[i] \in Nat /\ queue[i] <= came
    BY Holds DEF ShowInv, OrderInv, QueueSorted
  <2>2. Len(queue) - i + 1 + due <= Limit(queue[i])
    BY DEF ShowInv, BehindInv
  <2>3. QED
    BY <1>2, <2>1, <2>2, Holds
<1>4. KeptInv'
  <2> SUFFICES ASSUME NEW m \in 1 .. came PROVE Kept(m)'
    BY DEF KeptInv
  <2>1. Kept(m) /\ m \in Nat /\ m <= came
    BY Holds DEF ShowInv, KeptInv
  <2>2. Limit(m) > Capacity => Limit(m)' > Capacity
    BY <1>2, <2>1, Holds
  <2>3. QED
    BY <2>1, <2>2 DEF Kept, IsShown, InQueue
<1>5. QED
  BY <1>1, <1>3, <1>4 DEF ShowInv

LEMMA ShowHandle ==
  ASSUME TypeInv, ShowInv, Handle
  PROVE  ShowInv'
<1>1. /\ due = 0 /\ due' = handlers /\ handlers > 0 /\ came' = came + 1
      /\ UNCHANGED <<queue, got, shown, reader, handlers>>
  BY DEF Handle, queueVars, readerVars, history
<1>2. OrderInv'
  BY <1>1, Holds DEF ShowInv, OrderInv, ShownSorted, QueueSorted, TakenSorted, Shows
<1>3. ASSUME NEW m \in Nat, m <= came
      PROVE  Limit(m)' = Limit(m) + handlers /\ Limit(m) \in Nat
  <2>1. came \in Nat /\ handlers \in Nat
    BY Holds
  <2>2. /\ (came - m + 1) * handlers \in Nat
        /\ (came + 1 - m + 1) * handlers = (came - m + 1) * handlers + handlers
    BY <1>3, <2>1, LimitGrows
  <2>3. /\ Limit(m)' = (came + 1 - m + 1) * handlers
        /\ Limit(m) = (came - m + 1) * handlers
    <3>1. came' - m + 1 = came + 1 - m + 1 /\ handlers' = handlers
      BY <1>1, <2>1
    <3>2. QED
      BY <3>1 DEF Limit
  <2>4. QED
    BY <2>2, <2>3
<1>4. BehindInv'
  <2> SUFFICES ASSUME NEW i \in DOMAIN queue
               PROVE  Len(queue) - i + 1 + handlers <= (came' - queue[i] + 1) * handlers
    BY <1>1 DEF BehindInv, Limit
  <2>1. PICK m \in Nat : m = queue[i] /\ m <= came
    BY Holds DEF ShowInv, OrderInv, QueueSorted
  <2>2. Len(queue) - i + 1 <= Limit(m)
    BY <1>1, <2>1, Holds DEF ShowInv, BehindInv
  <2>3. (came' - m + 1) * handlers = Limit(m) + handlers /\ Limit(m) \in Nat
    BY <1>1, <1>3, <2>1 DEF Limit
  <2>4. QED
    BY <2>1, <2>2, <2>3, Holds
<1>5. KeptInv'
  <2> SUFFICES ASSUME NEW m \in 1 .. came' PROVE Kept(m)'
    BY DEF KeptInv
  <2>1. CASE m = came'
    BY <1>1, <2>1 DEF Kept
  <2>2. CASE m # came'
    <3>1. m \in 1 .. came /\ m \in Nat /\ m <= came
      BY <1>1, <2>2, Holds
    <3>2. Kept(m)
      BY <3>1 DEF ShowInv, KeptInv
    <3>3. Limit(m) > Capacity => Limit(m)' > Capacity
      BY <1>3, <3>1, Holds
    <3>4. QED
      BY <1>1, <3>2, <3>3 DEF Kept, IsShown, InQueue, Shows
  <2>3. QED
    BY <2>1, <2>2
<1>6. QED
  BY <1>2, <1>4, <1>5 DEF ShowInv

LEMMA ShowPut ==
  ASSUME TypeInv, ShowInv, Put
  PROVE  ShowInv'
<1>1. /\ due > 0 /\ due' = due - 1 /\ Window!Put(came)
      /\ UNCHANGED <<shown, came, handlers>> /\ (Shows' <=> Shows)
  BY Notified DEF Put, history, TypeInv, Shows
<1>2. came \in Message
  BY <1>1 DEF TypeInv, TypeOK, PutsMessage, Message
<1>3. PICK k \in {0, 1} :
        /\ queue' \in Seq(Message) /\ got' = got
        /\ Len(queue') = Len(queue) + 1 - k
        /\ queue'[Len(queue')] = came
        /\ \A i \in 1 .. Len(queue) - k : queue'[i] = queue[i + k]
        /\ k = 1 => Len(queue) = Capacity
  <2>1. /\ queue' \in Seq(Message) /\ got' = got /\ queue'[Len(queue')] = came
        /\ \/ /\ Len(queue) < Capacity /\ Len(queue') = Len(queue) + 1
              /\ \A i \in 1 .. Len(queue) : queue'[i] = queue[i]
           \/ /\ Len(queue) = Capacity /\ Len(queue') = Len(queue)
              /\ \A i \in 1 .. Len(queue) - 1 : queue'[i] = queue[i + 1]
    BY <1>1, <1>2, QueuePut DEF TypeInv
  <2>2. CASE Len(queue) < Capacity /\ Len(queue') = Len(queue) + 1
             /\ \A i \in 1 .. Len(queue) : queue'[i] = queue[i]
    <3>1. /\ Len(queue') = Len(queue) + 1 - 0
          /\ \A i \in 1 .. Len(queue) - 0 : queue'[i] = queue[i + 0]
      BY <2>2, Holds
    <3>2. QED
      BY <2>1, <3>1
  <2>3. CASE Len(queue) = Capacity /\ Len(queue') = Len(queue)
             /\ \A i \in 1 .. Len(queue) - 1 : queue'[i] = queue[i + 1]
    <3>1. Len(queue') = Len(queue) + 1 - 1
      BY <2>3, Holds
    <3>2. QED
      BY <2>1, <2>3, <3>1
  <2>4. QED
    BY <2>1, <2>2, <2>3
<1>4. /\ DOMAIN queue' = 1 .. Len(queue')
      /\ \A i \in DOMAIN queue' : \/ i = Len(queue') /\ queue'[i] = came
                                  \/ /\ i + k \in DOMAIN queue /\ i # Len(queue')
                                     /\ queue'[i] = queue[i + k]
  BY <1>3, Holds
<1>5. OrderInv'
  <2>1. ShownSorted' /\ TakenSorted'
    BY <1>1, <1>3 DEF ShowInv, OrderInv, ShownSorted, TakenSorted
  <2>2. QueueSorted'
    <3> SUFFICES ASSUME NEW j \in DOMAIN queue'
                 PROVE  /\ queue'[j] <= came
                        /\ \A i \in DOMAIN queue' : i < j => queue'[i] <= queue'[j]
                        /\ Shows => got <= queue'[j]
                        /\ \A i \in DOMAIN shown : shown[i] <= queue'[j]
      BY <1>1, <1>3 DEF QueueSorted
    <3>1. CASE queue'[j] = came
      BY <1>4, <3>1, Holds DEF ShowInv, OrderInv, QueueSorted, TakenSorted
    <3>2. CASE j + k \in DOMAIN queue /\ j # Len(queue') /\ queue'[j] = queue[j + k]
      <4>1. ASSUME NEW i \in DOMAIN queue', i < j
            PROVE  queue'[i] <= queue'[j]
        <5>1. i + k \in DOMAIN queue /\ queue'[i] = queue[i + k] /\ i + k < j + k
          BY <1>3, <1>4, <3>2, <4>1, Holds
        <5>2. QED
          BY <3>2, <5>1 DEF ShowInv, OrderInv, QueueSorted
      <4>2. QED
        BY <3>2, <4>1 DEF ShowInv, OrderInv, QueueSorted
    <3>3. QED
      BY <1>4, <3>1, <3>2
  <2>3. QED
    BY <2>1, <2>2 DEF OrderInv
<1>6. \A m \in Nat : Limit(m)' = Limit(m)
  BY <1>1 DEF Limit
<1>7. BehindInv'
  <2> SUFFICES ASSUME NEW i \in DOMAIN queue'
               PROVE  Len(queue') - i + 1 + due' <= Limit(queue'[i])
    BY <1>1 DEF BehindInv, Limit
  <2>1. CASE i = Len(queue') /\ queue'[i] = came
    <3>1. Limit(came) = handlers
      BY <1>1, Holds DEF Limit
    <3>2. QED
      BY <1>1, <1>3, <2>1, <3>1, Holds
  <2>2. CASE i + k \in DOMAIN queue /\ queue'[i] = queue[i + k]
    <3>1. Len(queue) - (i + k) + 1 + due <= Limit(queue[i + k])
      BY <2>2 DEF ShowInv, BehindInv
    <3>2. Limit(queue'[i]) = Limit(queue[i + k])
      BY <2>2
    <3>3. Len(queue') - i + 1 + due' = Len(queue) - (i + k) + 1 + due
      BY <1>1, <1>3, <1>4, Holds
    <3>4. QED
      BY <3>1, <3>2, <3>3
  <2>3. QED
    BY <1>4, <2>1, <2>2
<1>8. KeptInv'
  <2> SUFFICES ASSUME NEW m \in 1 .. came PROVE Kept(m)'
    BY <1>1 DEF KeptInv
  <2>1. Kept(m) /\ m \in Nat
    BY DEF ShowInv, KeptInv
  <2>2. CASE m = came /\ due > 0
    <3>1. Len(queue') \in DOMAIN queue'
      BY <1>3, <1>4, Holds
    <3>2. QED
      BY <1>3, <2>2, <3>1 DEF Kept, InQueue
  <2>3. CASE InQueue(m)
    <3>1. PICK i \in DOMAIN queue : queue[i] = m
      BY <2>3 DEF InQueue
    <3>2. CASE i - k \in DOMAIN queue'
      <4>1. queue'[i - k] = m
        BY <1>3, <3>1, <3>2, Holds
      <4>2. QED
        BY <3>2, <4>1 DEF Kept, InQueue
    <3>3. CASE i - k \notin DOMAIN queue'
      <4>1. i = 1 /\ k = 1 /\ Len(queue) = Capacity
        BY <1>3, <1>4, <3>1, <3>3, Holds
      <4>2. Len(queue) - 1 + 1 + due <= Limit(m)
        BY <3>1, <4>1 DEF ShowInv, BehindInv
      <4>3. Limit(m) \in Nat
        BY Holds, LimitGrows DEF Limit
      <4>4. Limit(m)' > Capacity
        BY <1>1, <1>6, <2>1, <4>1, <4>2, <4>3, Holds
      <4>5. QED
        BY <4>4 DEF Kept
    <3>4. QED
      BY <3>2, <3>3
  <2>4. CASE Limit(m) > Capacity
    BY <1>6, <2>1, <2>4 DEF Kept
  <2>5. CASE IsShown(m) \/ (m = got /\ Shows)
    BY <1>1, <1>3, <2>5 DEF Kept, IsShown
  <2>6. QED
    BY <2>1, <2>2, <2>3, <2>4, <2>5 DEF Kept
<1>9. QED
  BY <1>5, <1>7, <1>8 DEF ShowInv

LEMMA ShowTake ==
  ASSUME TypeInv, ShowInv, Take
  PROVE  ShowInv'
<1>1. /\ reader = "awake" /\ Shows' /\ ~Shows
      /\ UNCHANGED <<shown, came, handlers, due>> /\ queue # << >> /\ Window!Get
  BY DEF Take, history, nodeVars, TypeInv, AwakeForCause, Shows
<1>2. /\ queue' \in Seq(Message) /\ Len(queue') = Len(queue) - 1 /\ got' = queue[1]
      /\ \A i \in 1 .. Len(queue) - 1 : queue'[i] = queue[i + 1]
  BY <1>1, QueueGet DEF TypeInv
<1>3. /\ DOMAIN queue' = 1 .. Len(queue') /\ 1 \in DOMAIN queue
      /\ \A i \in DOMAIN queue' : i + 1 \in DOMAIN queue /\ queue'[i] = queue[i + 1]
  BY <1>1, <1>2, Holds
<1>4. OrderInv'
  <2>1. ShownSorted'
    BY <1>1 DEF ShowInv, OrderInv, ShownSorted
  <2>2. TakenSorted'
    BY <1>1, <1>2, <1>3 DEF ShowInv, OrderInv, QueueSorted, TakenSorted
  <2>3. QueueSorted'
    <3> SUFFICES ASSUME NEW j \in DOMAIN queue'
                 PROVE  /\ queue'[j] <= came
                        /\ \A i \in DOMAIN queue' : i < j => queue'[i] <= queue'[j]
                        /\ got' <= queue'[j]
                        /\ \A i \in DOMAIN shown : shown[i] <= queue'[j]
      BY <1>1 DEF QueueSorted
    <3>1. j + 1 \in DOMAIN queue /\ queue'[j] = queue[j + 1] /\ 1 < j + 1
      BY <1>3
    <3>2. ASSUME NEW i \in DOMAIN queue', i < j
          PROVE  queue'[i] <= queue'[j]
      <4>1. i + 1 \in DOMAIN queue /\ queue'[i] = queue[i + 1] /\ i + 1 < j + 1
        BY <1>3, <3>2
      <4>2. QED
        BY <3>1, <4>1 DEF ShowInv, OrderInv, QueueSorted
    <3>3. QED
      BY <1>2, <1>3, <3>1, <3>2 DEF ShowInv, OrderInv, QueueSorted
  <2>4. QED
    BY <2>1, <2>2, <2>3 DEF OrderInv
<1>5. \A m \in Nat : Limit(m)' = Limit(m)
  BY <1>1 DEF Limit
<1>6. BehindInv'
  <2> SUFFICES ASSUME NEW i \in DOMAIN queue'
               PROVE  Len(queue') - i + 1 + due' <= Limit(queue'[i])
    BY <1>1 DEF BehindInv, Limit
  <2>1. Len(queue) - (i + 1) + 1 + due <= Limit(queue[i + 1])
    BY <1>3 DEF ShowInv, BehindInv
  <2>2. Limit(queue'[i]) = Limit(queue[i + 1])
    BY <1>3
  <2>3. Len(queue') - i + 1 + due' = Len(queue) - (i + 1) + 1 + due
    BY <1>1, <1>2, <1>3, Holds
  <2>4. QED
    BY <2>1, <2>2, <2>3
<1>7. KeptInv'
  <2> SUFFICES ASSUME NEW m \in 1 .. came PROVE Kept(m)'
    BY <1>1 DEF KeptInv
  <2>1. Kept(m) /\ m \in Nat
    BY DEF ShowInv, KeptInv
  <2>2. CASE InQueue(m)
    <3>1. PICK i \in DOMAIN queue : queue[i] = m
      BY <2>2 DEF InQueue
    <3>2. CASE i = 1
      BY <1>1, <1>2, <3>1, <3>2 DEF Kept
    <3>3. CASE i # 1
      <4>1. i - 1 \in DOMAIN queue' /\ queue'[i - 1] = m
        BY <1>2, <1>3, <3>1, <3>3, Holds
      <4>2. QED
        BY <4>1 DEF Kept, InQueue
    <3>4. QED
      BY <3>2, <3>3
  <2>3. CASE Limit(m) > Capacity
    BY <1>5, <2>1, <2>3 DEF Kept
  <2>4. CASE IsShown(m) \/ (m = came /\ due > 0)
    BY <1>1, <2>4 DEF Kept, IsShown
  <2>5. QED
    BY <1>1, <2>1, <2>2, <2>3, <2>4 DEF Kept
<1>8. QED
  BY <1>4, <1>6, <1>7 DEF ShowInv

LEMMA ShowShow ==
  ASSUME TypeInv, ShowInv, Show
  PROVE  ShowInv'
<1>1. /\ Shows /\ ~Shows' /\ shown' = Append(shown, got)
      /\ UNCHANGED <<queue, got, came, handlers, due>>
  BY DEF Show, queueVars, nodeVars, Shows
<1>2. got \in Message /\ shown \in Seq(Message)
  BY <1>1 DEF TypeInv, TypeOK, ShowsMessage, Shows
<1>3. /\ Len(shown) + 1 \in DOMAIN shown' /\ shown'[Len(shown) + 1] = got
      /\ \A i \in DOMAIN shown : i \in DOMAIN shown' /\ shown'[i] = shown[i]
      /\ \A i \in DOMAIN shown' : \/ i \in DOMAIN shown /\ i < Len(shown) + 1
                                  \/ i = Len(shown) + 1
  BY <1>1, <1>2
<1>4. OrderInv'
  <2>1. ShownSorted'
    <3> SUFFICES ASSUME NEW i \in DOMAIN shown', NEW j \in DOMAIN shown', i < j
                 PROVE  shown'[i] <= shown'[j]
      BY DEF ShownSorted
    <3>1. i \in DOMAIN shown /\ shown'[i] = shown[i]
      BY <1>2, <1>3
    <3>2. CASE j \in DOMAIN shown
      BY <1>3, <3>1, <3>2 DEF ShowInv, OrderInv, ShownSorted
    <3>3. CASE j = Len(shown) + 1
      BY <1>1, <1>3, <3>1, <3>3 DEF ShowInv, OrderInv, TakenSorted
    <3>4. QED
      BY <1>3, <3>2, <3>3
  <2>2. QueueSorted' /\ TakenSorted'
    BY <1>1, <1>3 DEF ShowInv, OrderInv, QueueSorted, TakenSorted
  <2>3. QED
    BY <2>1, <2>2 DEF OrderInv
<1>5. BehindInv'
  BY <1>1 DEF ShowInv, BehindInv, Limit
<1>6. KeptInv'
  BY <1>1, <1>3 DEF ShowInv, KeptInv, Kept, IsShown, InQueue, Limit
<1>7. QED
  BY <1>4, <1>5, <1>6 DEF ShowInv

LEMMA ShowStep == TypeInv /\ ShowInv /\ [Next]_vars => ShowInv'
<1> SUFFICES ASSUME TypeInv, ShowInv, [Next]_vars PROVE ShowInv'
  OBVIOUS
<1>1. CASE Handle \/ Put \/ Take \/ Show
  BY <1>1, ShowHandle, ShowPut, ShowTake, ShowShow
<1>2. CASE Join
  BY <1>2, ShowKept DEF Join, readerVars, queueVars, history, Shows
<1>3. CASE MessageHandler \/ Leave \/ Writer
  BY <1>3, ShowKept DEF MessageHandler, Leave, Writer, readerVars, queueVars, history,
                        nodeVars, Shows
<1>4. CASE Reader \/ JoinReader
  BY <1>4, ShowKept DEF Reader, JoinReader, queueVars, history, nodeVars, Shows,
                        TypeInv, TypeOK
<1>5. CASE StopReading
  BY <1>5, ShowKept, Notified DEF StopReading, queueVars, nodeVars, Shows, TypeInv
<1>6. CASE Exit \/ Exited \/ LoopEnds \/ Answer \/ FutureStep \/ FutureWakes
  BY <1>6, ShowKept DEF Exit, Exited, LoopEnds, Answer, FutureStep, FutureTest,
                        FutureSleep, FutureWakes, readerVars, queueVars, history,
                        nodeVars, Shows
<1>7. CASE Loop \/ Test \/ Sleep \/ WakeSpuriously \/ Obey
  BY <1>7, ShowKept DEF Loop, Test, Sleep, WakeSpuriously, Obey, queueVars, history,
                        nodeVars, Shows
<1>8. CASE UNCHANGED vars
  BY <1>8, ShowKept DEF vars, readerVars, queueVars, history, nodeVars, Shows
<1>9. QED
  BY <1>1, <1>2, <1>3, <1>4, <1>5, <1>6, <1>7, <1>8
  DEF Next, Commands, MainStep, NodeStep, ReaderStep

(* What is shown comes in order, and a message that came is shown, held or *)
(* still to be put, unless the puts after it can have filled the queue.    *)
THEOREM ShownInOrder == Spec => []AllShownInOrder
<1>1. ShowInv => AllShownInOrder
  BY DEF ShowInv, OrderInv, ShownSorted, KeptInv, Kept, IsShown, InQueue, Shows, Limit,
         AllShownInOrder, Held
<1>2. QED
  BY <1>1, TypeInit, TypeStep, ShowInit, ShowStep, PTL DEF Spec
=============================================================================
