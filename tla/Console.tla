------------------------------ MODULE Console ------------------------------
(***************************************************************************)
(* The console program, yamb/src/main.cpp: menu() on the main thread, the  *)
(* thread that reader() starts to show the messages of a room, and the     *)
(* handler MH, called on the loop thread of the node.                      *)
(*                                                                         *)
(* The rooms share only the menu; there is one here.  Its queue is a       *)
(* CircularBuffer, taken for the SlidingWindow it implements.  The reader  *)
(* tests the queue and then the flag; that is one step, Test, because a    *)
(* change between the two is told to nobody, like one after both.          *)
(*                                                                         *)
(* exit() waits for a future, a thread of stopapp that waits for the loop's *)
(* answer; as with the reader, the notification may fall between its test  *)
(* and its wait.                                                           *)
(*                                                                         *)
(* Every command that has been served calls menu() again, one level down;  *)
(* 'q' leaves one level.                                                   *)
(***************************************************************************)
EXTENDS Naturals, Sequences

CONSTANTS Capacity,    \* 10 in the code
          MaxMessages, \* bound: messages that come
          MaxDepth,    \* bound: nested calls of menu()
          NoMessage    \* no message, json() in the code

Message == 1 .. MaxMessages   \* in the order in which they come

ASSUME ConsoleAssumption ==
  /\ Capacity \in Nat \ {0}
  /\ MaxDepth \in Nat \ {0} /\ MaxMessages \in Nat
  /\ NoMessage \notin Message

VARIABLES
  at,        \* where the main thread is
  depth,     \* the calls of menu() under way
  reader,    \* where the reader thread is
  missed,    \* history: a notification fell between its test and its wait
  flag,      \* message_queues_flags
  toldAt,    \* history: where the reader was when last told to end
  queue, got,  \* message_queues, and the last message taken from it
  shown,     \* history: the messages shown, in order
  member,    \* the room is in the list of joined rooms
  handlers,  \* how many MH are registered for the room
  came,      \* how many messages have come
  due,       \* the calls of handle() still due for the last of them
  exits,     \* how often 'q' was entered at a menu
  loopRuns,  \* the loop thread runs
  future,    \* where the future of the exit() under way is
  answered,  \* the loop has answered that exit()
  missedAnswer \* history: the notification fell between its test and its wait

queueVars == <<queue, got>>
readerVars == <<reader, missed>>
menuVars == <<at, depth, exits>>
nodeVars == <<member, handlers, came, due, loopRuns>>
history == <<toldAt, shown>>
futureVars == <<future, answered, missedAnswer>>
vars == <<menuVars, readerVars, flag, queueVars, history, nodeVars, futureVars>>

Window == INSTANCE SlidingWindow
  WITH N <- Capacity, Item <- Message, Default <- NoMessage, window <- queue

Waits == /\ queue = << >>
         /\ ~flag

NotifyNobody == UNCHANGED readerVars                  \* slip
NotifyAll ==
  /\ reader' = IF reader = "asleep" THEN "test" ELSE reader
  /\ missed' = (missed \/ reader = "gap")

Init ==
  /\ at = "menu" /\ depth = 1 /\ exits = 0
  /\ reader = "none" /\ missed = FALSE
  /\ flag = FALSE /\ toldAt = "none"
  /\ Window!Init
  /\ shown = << >>
  /\ member = FALSE /\ handlers = 0 /\ came = 0 /\ due = 0
  /\ loopRuns = TRUE
  /\ future = "none" /\ answered = FALSE /\ missedAnswer = FALSE

----------------------------------------------------------------------------
(* The main thread *)

Nested == depth < MaxDepth /\ depth' = depth + 1

\* A new MH clears the flag; joinRoom lists the room.  Then the MH is added,
\* also if the room was joined before.
MessageHandler ==
  /\ at = "menu"
  /\ depth < MaxDepth
  /\ at' = "joining"
  /\ flag' = FALSE
  /\ member' = TRUE
  /\ UNCHANGED <<depth, exits, readerVars, queueVars, history, handlers, came,
                 due, loopRuns, futureVars>>

Join ==
  /\ at = "joining"
  /\ at' = "menu"
  /\ Nested
  /\ handlers' = handlers + 1
  /\ UNCHANGED <<exits, readerVars, flag, queueVars, history, member, came, due,
                 loopRuns, futureVars>>

\* The handlers stay.
Leave ==
  /\ at = "menu"
  /\ member
  /\ Nested
  /\ member' = FALSE
  /\ UNCHANGED <<at, exits, readerVars, flag, queueVars, history, handlers, came,
                 due, loopRuns, futureVars>>

Writer ==
  /\ at = "menu"
  /\ member
  /\ Nested
  /\ UNCHANGED <<at, exits, readerVars, flag, queueVars, history, nodeVars,
                 futureVars>>

Reader ==
  /\ at = "menu"
  /\ member
  /\ depth < MaxDepth
  /\ at' = "reading"
  /\ reader' = "loop"
  /\ UNCHANGED <<depth, exits, missed, flag, queueVars, history, nodeVars,
                 futureVars>>

\* 'q' while reading: the reader thread is told to end, and joined.
StopReading ==
  /\ at = "reading"
  /\ at' = "stopping"
  /\ flag' = TRUE
  /\ NotifyAll
  /\ toldAt' = IF reader = "ended" THEN toldAt ELSE reader
  /\ UNCHANGED <<depth, exits, queueVars, shown, nodeVars, futureVars>>

DetachReader ==                       \* slip: the reader thread is not joined
  /\ at = "stopping"
  /\ at' = "menu"
  /\ Nested
  /\ UNCHANGED <<exits, readerVars, flag, queueVars, history, nodeVars, futureVars>>
JoinReader ==
  /\ at = "stopping"
  /\ reader = "ended"
  /\ at' = "menu"
  /\ Nested
  /\ reader' = "none"
  /\ UNCHANGED <<exits, missed, flag, queueVars, history, nodeVars, futureVars>>

\* 'q' at a menu: exit() starts a future and queues an action for the loop.
Exit ==
  /\ at = "menu"
  /\ exits <= MaxDepth
  /\ at' = "exiting"
  /\ exits' = exits + 1
  /\ future' = "test"
  /\ answered' = FALSE
  /\ missedAnswer' = FALSE
  /\ UNCHANGED <<depth, readerVars, flag, queueVars, history, nodeVars>>

\* The future is ready: exit() ends the loop, and this call of menu() returns to
\* the one around it.
Exited ==
  /\ at = "exiting"
  /\ future = "through"
  /\ at' = IF depth = 1 THEN "ended" ELSE "menu"
  /\ depth' = depth - 1
  /\ future' = "none"
  /\ UNCHANGED <<exits, readerVars, flag, queueVars, history, nodeVars, answered,
                 missedAnswer>>

----------------------------------------------------------------------------
(* The loop thread *)

\* A message comes for the callbacks of a room the node is in.
Handle ==
  /\ exits = 0
  /\ member
  /\ handlers > 0
  /\ due = 0
  /\ came < MaxMessages
  /\ came' = came + 1
  /\ due' = handlers
  /\ UNCHANGED <<menuVars, readerVars, flag, queueVars, history, member, handlers,
                 loopRuns, futureVars>>

Put ==
  /\ due > 0
  /\ due' = due - 1
  /\ Window!Put(came)
  /\ NotifyAll
  /\ UNCHANGED <<menuVars, flag, history, member, handlers, came, loopRuns,
                 futureVars>>

\* The queued action: the flag of the future is set, and it is notified.
Answer ==
  /\ at = "exiting"
  /\ loopRuns
  /\ due = 0
  /\ ~answered
  /\ answered' = TRUE
  /\ future' = IF future = "asleep" THEN "test" ELSE future
  /\ missedAnswer' = (future = "gap")
  /\ UNCHANGED <<menuVars, readerVars, flag, queueVars, history, nodeVars>>

\* The first exit() ends the loop once its future is ready.
LoopEnds ==
  /\ exits > 0
  /\ at # "exiting" \/ exits > 1
  /\ due = 0
  /\ loopRuns
  /\ loopRuns' = FALSE
  /\ UNCHANGED <<menuVars, readerVars, flag, queueVars, history, member, handlers,
                 came, due, futureVars>>

----------------------------------------------------------------------------
(* The reader thread *)

\* The condition of the outer loop.
Loop ==
  /\ reader = "loop"
  /\ reader' = IF flag THEN "ended" ELSE "test"
  /\ UNCHANGED <<menuVars, missed, flag, queueVars, history, nodeVars, futureVars>>

\* The condition of the inner loop.
Test ==
  /\ reader = "test"
  /\ reader' = IF Waits THEN "gap" ELSE "awake"
  /\ missed' = FALSE
  /\ UNCHANGED <<menuVars, flag, queueVars, history, nodeVars, futureVars>>

Sleep ==
  /\ reader = "gap"
  /\ reader' = "asleep"
  /\ UNCHANGED <<menuVars, missed, flag, queueVars, history, nodeVars, futureVars>>

WakeSpuriously ==
  /\ reader = "asleep"
  /\ reader' = "test"
  /\ UNCHANGED <<menuVars, missed, flag, queueVars, history, nodeVars, futureVars>>

ObeyKeepingFlag ==                              \* slip: the flag is not reset
  /\ reader = "awake"
  /\ flag
  /\ reader' = "ended"
  /\ UNCHANGED <<menuVars, missed, flag, queueVars, history, nodeVars, futureVars>>
ObeyTaking ==                  \* slip: a message is taken before the flag is seen
  /\ reader = "awake"
  /\ flag
  /\ flag' = FALSE
  /\ reader' = "ended"
  /\ Window!Get
  /\ UNCHANGED <<menuVars, missed, history, nodeVars, futureVars>>
Obey ==
  /\ reader = "awake"
  /\ flag
  /\ flag' = FALSE
  /\ reader' = "ended"
  /\ UNCHANGED <<menuVars, missed, queueVars, history, nodeVars, futureVars>>

Take ==
  /\ reader = "awake"
  /\ ~flag
  /\ Window!Get
  /\ reader' = "show"
  /\ UNCHANGED <<menuVars, missed, flag, history, nodeVars, futureVars>>

Show ==
  /\ reader = "show"
  /\ shown' = Append(shown, got)
  /\ reader' = "loop"
  /\ UNCHANGED <<menuVars, missed, flag, toldAt, queueVars, nodeVars, futureVars>>

----------------------------------------------------------------------------
(* The future of stopapp *)

FutureTest ==
  /\ future = "test"
  /\ future' = IF answered THEN "through" ELSE "gap"
  /\ UNCHANGED <<menuVars, readerVars, flag, queueVars, history, nodeVars, answered,
                 missedAnswer>>

FutureSleep ==
  /\ future = "gap"
  /\ future' = "asleep"
  /\ UNCHANGED <<menuVars, readerVars, flag, queueVars, history, nodeVars, answered,
                 missedAnswer>>

FutureWakes ==
  /\ future = "asleep"
  /\ future' = "test"
  /\ UNCHANGED <<menuVars, readerVars, flag, queueVars, history, nodeVars, answered,
                 missedAnswer>>

----------------------------------------------------------------------------
Commands == MessageHandler \/ Leave \/ Writer \/ Reader \/ StopReading \/ Exit
MainStep == Join \/ JoinReader \/ Exited
NodeStep == Put \/ Answer \/ LoopEnds
FutureStep == FutureTest \/ FutureSleep
ReaderStep == Loop \/ Test \/ Sleep \/ Obey \/ Take \/ Show

Next == \/ Commands \/ MainStep \/ Handle \/ NodeStep \/ ReaderStep \/ FutureStep
        \/ WakeSpuriously \/ FutureWakes

Spec == Init /\ [][Next]_vars

\* Every thread runs.  Nothing is owed by the user, the network and spurious
\* wake-ups.
Fairness ==
  /\ WF_vars(MainStep) /\ WF_vars(NodeStep)
  /\ WF_vars(ReaderStep) /\ WF_vars(FutureStep)

FairSpec == Spec /\ Fairness

----------------------------------------------------------------------------
TypeOK ==
  /\ at \in {"menu", "joining", "reading", "stopping", "exiting", "ended"}
  /\ depth \in 0 .. MaxDepth
  /\ depth = 0 <=> at = "ended"
  /\ reader \in {"none", "loop", "test", "gap", "asleep", "awake", "show", "ended"}
  /\ reader = "none" <=> at \notin {"reading", "stopping"}
  /\ missed \in BOOLEAN /\ flag \in BOOLEAN
  /\ toldAt \in {"none", "loop", "test", "gap", "asleep", "awake", "show"}
  /\ queue \in Seq(Message) /\ Len(queue) <= Capacity
  /\ got \in Message \cup {NoMessage}
  /\ shown \in Seq(Message)
  /\ member \in BOOLEAN /\ loopRuns \in BOOLEAN
  /\ handlers \in Nat
  /\ came \in 0 .. MaxMessages
  /\ due \in 0 .. handlers
  /\ exits \in Nat
  /\ future \in {"none", "test", "gap", "asleep", "through"}
  /\ future = "none" <=> at # "exiting"
  /\ answered \in BOOLEAN /\ missedAnswer \in BOOLEAN

(* What is shown comes in order, and a message that came is shown, held or *)
(* still to be put, whenever the reader is started and told to end, unless *)
(* the puts after it, one for each MH, can have filled the queue.          *)
Held(m) ==
  \/ m \in {queue[i] : i \in DOMAIN queue}
  \/ m = came /\ due > 0
  \/ m = got /\ reader = "show"

AllShownInOrder ==
  /\ \A i, j \in DOMAIN shown : i < j => shown[i] <= shown[j]
  /\ \A m \in 1 .. came :
       \/ m \in {shown[i] : i \in DOMAIN shown}
       \/ Held(m)
       \/ (came - m + 1) * handlers > Capacity

(* The request to end stays set after it was served only if it came while *)
(* the reader was between two messages: then the reader ends at line 89    *)
(* without resetting it, and whoever reads the room next is shown nothing. *)
StaleOnlyBetweenMessages ==
  flag /\ at # "stopping" => toldAt \in {"loop", "show"}

(* 'q' while reading leads back to the menu, as line 85 says, and 'q' at a *)
(* menu out of this call of menu().  It does not if the one notification   *)
(* of the reader was missed, until another message comes; nor if the one   *)
(* notification of the future was missed, though the loop has answered;    *)
(* nor, for ever, at a second exit(), if the loop that should answer it    *)
(* has ended.                                                              *)
MissedTheEnd == reader = "asleep" /\ flag /\ missed
MissedTheAnswer == future = "asleep" /\ answered /\ missedAnswer
ExitAgain == at = "exiting" /\ exits > 1 /\ ~loopRuns /\ ~answered

QReturns ==
  at \in {"stopping", "exiting"}
    ~> at \in {"menu", "ended"} \/ MissedTheEnd \/ MissedTheAnswer \/ ExitAgain
=============================================================================
