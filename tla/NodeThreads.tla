----------------------------- MODULE NodeThreads -----------------------------
(***************************************************************************)
(* The threads of one node and the condition variables between them:       *)
(* yamb/src/WebrtcNode.cpp, SignalingConn.hpp and messageBroker.cpp.       *)
(*                                                                         *)
(* The application's thread creates the broker, joins and leaves rooms,    *)
(* sends, and finally exits; the loop thread constructs the node and then  *)
(* runs signaling callbacks, queued actions and, through the idler, the    *)
(* callbacks of the data channels; the sender thread empties _sMq.         *)
(*                                                                         *)
(* Four times one thread waits for another (Gate).  Each time the waiter   *)
(* tests its condition under a mutex the notifier does not take, so a      *)
(* notify_all may fall between the test and the wait.  Setting a condition *)
(* and notifying are one step below: falling asleep reads no condition, so *)
(* nothing that happens between the two can be told from what happens      *)
(* before or after both.                                                   *)
(*                                                                         *)
(* What the loop thread does for a message, or for a channel that opens,   *)
(* looks the room up twice and then uses the RoomUnit; leaveRoomWS may     *)
(* delete it before, between and after, so these are steps of their own.   *)
(*                                                                         *)
(* A room has one peer here, met when the room is first joined, whose      *)
(* channel opens at some time.  Leaving the room takes the peer out of     *)
(* PeersInRoom and nothing else: its channel stays, and createPC refuses   *)
(* to make it anew after a second join (PeerSession).                      *)
(***************************************************************************)
EXTENDS Naturals, Sequences, FiniteSets

CONSTANTS Room,
          NoRoom,     \* no room
          MaxTasks,   \* bound: calls, messages and channels that push a task
          MaxErrors   \* bound: connections to the signaler lost

ASSUME NoRoomAssumption == NoRoom \notin Room

Gate == {"created",   \* Create waits for the constructor of the broker
         "online",    \* joinRoomWS and leaveRoomWS wait in _connSync
         "sMq",       \* the sender waits for a task
         "cleaned"}   \* the future of stopapp waits for the loop

VARIABLES
  app,       \* where the application's thread is
  want,      \* the room it joins or leaves
  loop,      \* where the loop thread is
  busy,      \* the room and addressee of what its handler is busy with
  overtaken, \* that room was left since the handler last found it
  sender,    \* where the sender thread is, "loop" while it is at its gate
  task,      \* the task in the sender's hands
  smq,       \* _sMq
  wait,      \* where the waiter of each gate is
  missed,    \* history: the notifications that fell between test and wait
  inited, connected, stopping, cleaned, \* the flags the gates test
  posted,    \* the cleanup action is in _ipc
  rooms,     \* the rooms with a RoomUnit
  callbacks, \* the rooms with an entry in _callbacks
  opened,    \* the rooms whose peer has an open data channel
  freed,     \* what the sender is using has been deleted
  begun, errors, \* the bounded counts
  left,      \* history: rooms that were left
  aborted    \* by whom and over which room the process was ended

flags == <<inited, connected, stopping, cleaned>>
roomVars == <<rooms, callbacks, opened, left>>
loopVars == <<loop, busy, overtaken>>
senderVars == <<sender, task, freed>>
counts == <<begun, errors>>
vars == <<app, want, loopVars, senderVars, smq, wait, missed, flags, posted,
          roomVars, counts, aborted>>

\* "by" tells whether the push was followed by notify_all.
Task == [room : Room, by : {"call", "relay", "sender"}]
NoTask == [room |-> NoRoom, by |-> "call"]
Addressee == {"all", "other", "me"}
Nothing == [room |-> NoRoom, to |-> "all"]
Running == [by |-> "nobody", room |-> NoRoom]

Handling == {"opened", "announcing", "putting", "heard", "using", "calling"}
Joining == {"join", "leave"}
Exiting == {"clear", "cancel", "push", "future", "stop", "join sender"}

----------------------------------------------------------------------------
(* Gates *)

Condition(g) ==
  CASE g = "created" -> inited
    [] g = "online"  -> connected
    [] g = "sMq"     -> smq # << >> \/ stopping
    [] g = "cleaned" -> cleaned

At(g, w) == wait' = [wait EXCEPT ![g] = w]

\* notify_all: who sleeps tests again, who is about to sleep does not notice.
NotifyAll(g) ==
  /\ wait' = [wait EXCEPT ![g] = IF @ = "asleep" THEN "test" ELSE @]
  /\ missed' = [missed EXCEPT ![g] = IF wait[g] = "gap" THEN @ + 1 ELSE @]

NoNotify == UNCHANGED <<wait, missed>>            \* slip: nobody is told

Test(g) ==
  /\ wait[g] = "test"
  /\ At(g, IF Condition(g) THEN "through" ELSE "gap")
  /\ missed' = [missed EXCEPT ![g] = 0]
  /\ UNCHANGED <<app, want, loopVars, senderVars, smq, flags, posted, roomVars,
                 counts, aborted>>

Sleep(g) ==
  /\ wait[g] = "gap"
  /\ At(g, "asleep")
  /\ UNCHANGED <<app, want, loopVars, senderVars, smq, missed, flags, posted,
                 roomVars, counts, aborted>>

\* A condition variable may return from wait without a notification.
WakeSpuriously(g) ==
  /\ wait[g] = "asleep"
  /\ At(g, "test")
  /\ UNCHANGED <<app, want, loopVars, senderVars, smq, missed, flags, posted,
                 roomVars, counts, aborted>>

----------------------------------------------------------------------------
Init ==
  /\ app = "create"
  /\ want = NoRoom
  /\ loop = "construct" /\ busy = Nothing /\ overtaken = FALSE
  /\ sender = "loop"
  /\ task = NoTask
  /\ smq = << >>
  /\ wait = [g \in Gate |-> IF g \in {"created", "sMq"} THEN "test" ELSE "idle"]
  /\ missed = [g \in Gate |-> 0]
  /\ inited = FALSE /\ connected = FALSE /\ stopping = FALSE /\ cleaned = FALSE
  /\ posted = FALSE
  /\ rooms = {} /\ callbacks = {} /\ opened = {} /\ left = {}
  /\ freed = FALSE
  /\ begun = 0 /\ errors = 0
  /\ aborted = Running

Count ==
  /\ begun < MaxTasks
  /\ begun' = begun + 1
  /\ UNCHANGED errors

Push(r, by) == smq' = Append(smq, [room |-> r, by |-> by])

Abort(by, r) == aborted' = [by |-> by, room |-> r]

Sending(r) == sender = "sending" /\ task.room = r

----------------------------------------------------------------------------
(* The application's thread *)

\* messageBroker::Create returns.
Created ==
  /\ app = "create"
  /\ wait["created"] = "through"
  /\ app' = "idle"
  /\ At("created", "idle")
  /\ UNCHANGED <<want, loopVars, senderVars, smq, missed, flags, posted, roomVars,
                 counts, aborted>>

\* broadcast2Room, and send2client, which differ in the message only.
Broadcast2Room(r) ==
  /\ app = "idle"
  /\ r \in rooms
  /\ Count
  /\ Push(r, "call")
  /\ NotifyAll("sMq")
  /\ UNCHANGED <<app, want, loopVars, senderVars, flags, posted, roomVars, aborted>>

\* joinRoomWS and leaveRoomWS begin by waiting for the connection.
WaitForOnline(r, op) ==
  /\ app = "idle"
  /\ app' = op
  /\ want' = r
  /\ At("online", "test")
  /\ UNCHANGED <<loopVars, senderVars, smq, missed, flags, posted, roomVars,
                 counts, aborted>>

JoinRoomWS ==
  /\ app = "join"
  /\ wait["online"] = "through"
  /\ app' = "idle"
  /\ want' = NoRoom
  /\ At("online", "idle")
  /\ rooms' = rooms \cup {want}
  /\ UNCHANGED <<loopVars, senderVars, smq, missed, flags, posted, callbacks,
                 opened, left, counts, aborted>>

\* The RoomUnit is deleted, and the loop that empties PeersInRoom steps on from
\* an entry it has erased, which may end the process.  The callbacks stay:
\* leaveRoomWS removes them only if there are none.
LeaveRoomWS ==
  /\ app = "leave"
  /\ wait["online"] = "through"
  /\ app' = "idle"
  /\ want' = NoRoom
  /\ At("online", "idle")
  /\ rooms' = rooms \ {want}
  /\ left' = IF want \in rooms THEN left \cup {want} ELSE left
  /\ freed' = (freed \/ (want \in rooms /\ Sending(want)))
  /\ overtaken' = (overtaken \/ (want \in rooms /\ want = busy.room))
  /\ \/ UNCHANGED aborted
     \/ want \in rooms \ left /\ Abort("leaving", want)
  /\ UNCHANGED <<loop, busy, sender, task, smq, missed, flags, posted, callbacks,
                 opened, counts>>

\* The mutex of the callbacks is there once the room was joined.
AddCallback(r) ==
  /\ app = "idle"
  /\ r \in (rooms \cup left) \ callbacks
  /\ callbacks' = callbacks \cup {r}
  /\ UNCHANGED <<app, want, loopVars, senderVars, smq, wait, missed, flags, posted,
                 rooms, opened, left, counts, aborted>>

\* stopapp, step by step.
Stop ==
  /\ app = "idle"
  /\ app' = "clear"
  /\ stopping' = TRUE
  /\ NotifyAll("sMq")
  /\ UNCHANGED <<want, loopVars, senderVars, smq, inited, connected, cleaned,
                 posted, roomVars, counts, aborted>>

\* PeerManager::clear deletes the peers, and the connection is closed.
PeersDeleted == app \in {"done"} \cup (Exiting \ {"clear"})

ClearPeers ==
  /\ app = "clear"
  /\ app' = "cancel"
  /\ freed' = (freed \/ sender = "sending")
  /\ UNCHANGED <<want, loopVars, sender, task, smq, wait, missed, flags, posted,
                 roomVars, counts, aborted>>

\* The future starts to wait for the loop, and the idler is cancelled.
CancelIdler ==
  /\ app = "cancel"
  /\ app' = "push"
  /\ At("cleaned", "test")
  /\ UNCHANGED <<want, loopVars, senderVars, smq, missed, flags, posted, roomVars,
                 counts, aborted>>

PushCleanup ==
  /\ app = "push"
  /\ app' = "future"
  /\ posted' = TRUE
  /\ UNCHANGED <<want, loopVars, senderVars, smq, wait, missed, flags, roomVars,
                 counts, aborted>>

FutureReady ==
  /\ app = "future"
  /\ wait["cleaned"] = "through"
  /\ app' = "stop"
  /\ At("cleaned", "idle")
  /\ UNCHANGED <<want, loopVars, senderVars, smq, missed, flags, posted, roomVars,
                 counts, aborted>>

StopLoop ==
  /\ app = "stop"
  /\ app' = "join sender"
  /\ NotifyAll("sMq")
  /\ UNCHANGED <<want, loopVars, senderVars, smq, flags, posted, roomVars, counts,
                 aborted>>

\* The destructor joins the sender.
JoinSender ==
  /\ app = "join sender"
  /\ sender = "ended"
  /\ app' = "done"
  /\ UNCHANGED <<want, loopVars, senderVars, smq, wait, missed, flags, posted,
                 roomVars, counts, aborted>>

----------------------------------------------------------------------------
(* The loop thread *)

Construct ==
  /\ loop = "construct"
  /\ loop' = "run"
  /\ inited' = TRUE
  /\ NotifyAll("created")
  /\ UNCHANGED <<app, want, busy, overtaken, senderVars, smq, connected, stopping, cleaned,
                 posted, roomVars, counts, aborted>>

\* Callbacks come until the peers are deleted and the connection is closed.
Listening == loop = "run" /\ app \in {"create", "idle", "clear"} \cup Joining

WakeupForgotten ==                                \* slip: flag set, no notify
  /\ connected' = TRUE
  /\ NoNotify
Wakeup ==
  /\ connected' = TRUE
  /\ NotifyAll("online")

GoOnline ==
  /\ Listening
  /\ ~connected
  /\ Wakeup
  /\ UNCHANGED <<app, want, loopVars, senderVars, smq, inited, stopping, cleaned,
                 posted, roomVars, counts, aborted>>

ConnectionError ==
  /\ Listening
  /\ connected
  /\ errors < MaxErrors
  /\ errors' = errors + 1
  /\ connected' = FALSE
  /\ UNCHANGED <<app, want, loopVars, senderVars, smq, wait, missed, inited,
                 stopping, cleaned, posted, roomVars, begun, aborted>>

\* A handler looks its room up, and goes on with the RoomUnit it finds; get
\* throws if there is none.
Find(r, next, by) ==
  IF r \in rooms
  THEN loop' = next /\ overtaken' = FALSE /\ UNCHANGED aborted
  ELSE Abort(by, r) /\ UNCHANGED <<loop, overtaken>>

GoOn(place) == loop' = place /\ UNCHANGED <<busy, overtaken, aborted>>

Return == loop' = "run" /\ busy' = Nothing /\ overtaken' = FALSE /\ UNCHANGED aborted

\* What the handler found was deleted since: using it may end the process.
UseOvertaken(by) == overtaken /\ Abort(by, busy.room) /\ UNCHANGED loopVars

\* A data channel opens: onCreatedConnection gets its room, which may have been
\* left, to read the announcement from it.
OnCreatedConnection(r) ==
  /\ Listening
  /\ r \in (rooms \cup left) \ opened
  /\ Count
  /\ opened' = opened \cup {r}
  /\ busy' = [room |-> r, to |-> "other"]
  /\ Find(r, "opened", "opening")
  /\ UNCHANGED <<app, want, senderVars, smq, wait, missed, flags, posted, rooms,
                 callbacks, left>>

\* The announcement is read, and send2client asks whether the room exists...
ReadRoom ==
  /\ loop = "opened"
  /\ \/ UseOvertaken("opening")
     \/ busy.room \in rooms /\ GoOn("announcing")
     \/ busy.room \notin rooms /\ Return
  /\ UNCHANGED <<app, want, senderVars, smq, wait, missed, flags, posted,
                 roomVars, counts>>

\* ... gets it once more...
GetToAnnounce ==
  /\ loop = "announcing"
  /\ Find(busy.room, "putting", "opening")
  /\ UNCHANGED <<app, want, busy, senderVars, smq, wait, missed, flags, posted,
                 roomVars, counts>>

\* ... puts the hash of the announcement, and pushes it.
PutAnnouncement ==
  /\ loop = "putting"
  /\ \/ UseOvertaken("opening") /\ UNCHANGED <<smq, wait, missed>>
     \/ Push(busy.room, "call") /\ NotifyAll("sMq") /\ Return
  /\ UNCHANGED <<app, want, senderVars, flags, posted, roomVars, counts>>

\* A message of the room came, for all, for another member or for this node: it
\* is dropped if the room does not exist.
KnowsAnyRoom(r) == TRUE                 \* slip: no test of the room
KnowsRoom(r) == r \in rooms

HandleLogic(r, to) ==
  /\ Listening
  /\ r \in opened
  /\ KnowsRoom(r)
  /\ IF to = "me" THEN UNCHANGED counts ELSE Count
  /\ loop' = "heard"
  /\ busy' = [room |-> r, to |-> to]
  /\ overtaken' = FALSE
  /\ UNCHANGED <<app, want, senderVars, smq, wait, missed, flags, posted,
                 roomVars, aborted>>

GetToHandle ==
  /\ loop = "heard"
  /\ Find(busy.room, "using", "handler")
  /\ UNCHANGED <<app, want, busy, senderVars, smq, wait, missed, flags, posted,
                 roomVars, counts>>

\* Its hash is looked for in the room, and put there.  A message seen before is
\* dropped, a new one is relayed without a notification.
UseRoom ==
  /\ loop = "using"
  /\ \/ UseOvertaken("handler") /\ UNCHANGED smq
     \/ Return /\ UNCHANGED smq
     \/ busy.to = "me" /\ GoOn("calling") /\ UNCHANGED smq
     \/ busy.to = "all" /\ GoOn("calling") /\ Push(busy.room, "relay")
     \/ busy.to = "other" /\ Return /\ Push(busy.room, "relay")
  /\ UNCHANGED <<app, want, senderVars, wait, missed, flags, posted, roomVars,
                 counts>>

\* The callbacks of the room are looked up, and called.
CallBack ==
  /\ loop = "calling"
  /\ \/ busy.room \in callbacks /\ Return
     \/ busy.room \notin callbacks /\ Abort("handler", busy.room) /\ UNCHANGED loopVars
  /\ UNCHANGED <<app, want, senderVars, smq, wait, missed, flags, posted,
                 roomVars, counts>>

\* The queued action: clean up, set the flag and notify.
RunCleanup ==
  /\ loop = "run"
  /\ posted
  /\ posted' = FALSE
  /\ cleaned' = TRUE
  /\ NotifyAll("cleaned")
  /\ UNCHANGED <<app, want, loopVars, senderVars, smq, inited, connected, stopping,
                 roomVars, counts, aborted>>

LoopEnds ==
  /\ loop = "run"
  /\ app \in {"join sender", "done"}
  /\ loop' = "ended"
  /\ UNCHANGED <<app, want, busy, overtaken, senderVars, smq, wait, missed, flags, posted,
                 roomVars, counts, aborted>>

----------------------------------------------------------------------------
(* The sender thread *)

Take ==
  /\ wait["sMq"] = "through"
  /\ ~stopping
  /\ smq # << >>
  /\ At("sMq", "idle")
  /\ sender' = "got"
  /\ task' = Head(smq)
  /\ smq' = Tail(smq)
  /\ UNCHANGED <<app, want, loopVars, freed, missed, flags, posted, roomVars,
                 counts, aborted>>

SenderEnds ==
  /\ wait["sMq"] = "through"
  /\ stopping
  /\ At("sMq", "idle")
  /\ sender' = "ended"
  /\ UNCHANGED <<app, want, loopVars, task, freed, smq, missed, flags, posted,
                 roomVars, counts, aborted>>

\* _roomManager->get throws if the room was left since.
LookUpRoom ==
  /\ sender = "got"
  /\ IF task.room \in rooms
     THEN /\ sender' = "sending"
          /\ freed' = PeersDeleted
          /\ UNCHANGED aborted
     ELSE /\ Abort("sender", task.room)
          /\ UNCHANGED <<sender, freed>>
  /\ UNCHANGED <<app, want, loopVars, task, smq, wait, missed, flags, posted,
                 roomVars, counts>>

Retried(t) == [t EXCEPT !.by = "sender"]

BackAtGate ==
  /\ At("sMq", "test")
  /\ sender' = "loop"
  /\ freed' = FALSE

KeepTask == UNCHANGED task                       \* slip: the task is kept
DropTask == task' = NoTask

\* The message is sent, or queued again while the channel is closed; a room that
\* was left once has no peers, and the message is dropped.  If the room or the
\* peer has been deleted meanwhile, the process may end instead.
Deliver ==
  /\ sender = "sending"
  /\ BackAtGate
  /\ DropTask
  /\ smq' = IF task.room \in opened \cup left
            THEN smq ELSE Append(smq, Retried(task))
  /\ UNCHANGED <<app, want, loopVars, missed, flags, posted, roomVars, counts,
                 aborted>>

UseDeleted ==
  /\ sender = "sending"
  /\ freed
  /\ Abort("deleted", task.room)
  /\ UNCHANGED <<app, want, loopVars, senderVars, smq, wait, missed, flags, posted,
                 roomVars, counts>>

----------------------------------------------------------------------------
AppStep == \/ Created \/ JoinRoomWS \/ LeaveRoomWS \/ ClearPeers \/ CancelIdler
           \/ PushCleanup \/ FutureReady \/ StopLoop \/ JoinSender
AppCall == \/ Stop
           \/ \E r \in Room : \/ Broadcast2Room(r)
                              \/ AddCallback(r)
                              \/ \E op \in Joining : WaitForOnline(r, op)
HandlerStep == \/ ReadRoom \/ GetToAnnounce \/ PutAnnouncement
               \/ GetToHandle \/ UseRoom \/ CallBack
LoopStep == Construct \/ HandlerStep \/ RunCleanup \/ LoopEnds
LoopEvent == \/ GoOnline
             \/ ConnectionError
             \/ \E r \in Room : \/ OnCreatedConnection(r)
                              \/ \E to \in Addressee : HandleLogic(r, to)
SenderStep == Take \/ SenderEnds \/ LookUpRoom \/ Deliver
WaiterStep(g) == Test(g) \/ Sleep(g)

Next ==
  /\ aborted = Running
  /\ \/ AppStep \/ AppCall \/ LoopStep \/ LoopEvent \/ SenderStep \/ UseDeleted
     \/ \E g \in Gate : WaiterStep(g) \/ WakeSpuriously(g)

Spec == Init /\ [][Next]_vars

Alive(A) == aborted = Running /\ A

\* Every thread runs; calls, network events and spurious wake-ups owe nothing.
Fairness ==
  /\ WF_vars(Alive(AppStep))
  /\ WF_vars(Alive(LoopStep))
  /\ WF_vars(Alive(SenderStep))
  /\ \A g \in Gate : WF_vars(Alive(WaiterStep(g)))

FairSpec == Spec /\ Fairness

----------------------------------------------------------------------------
TypeOK ==
  /\ app \in {"create", "idle", "done"} \cup Joining \cup Exiting
  /\ want \in Room \cup {NoRoom}
  /\ app \in Joining <=> want \in Room
  /\ loop \in {"construct", "run", "ended"} \cup Handling
  /\ busy \in [room : Room, to : Addressee] \cup {Nothing}
  /\ loop \in Handling => busy.room \in Room
  /\ overtaken \in BOOLEAN
  /\ sender \in {"loop", "got", "sending", "ended"}
  /\ sender = "loop" <=> wait["sMq"] # "idle"
  /\ task \in Task \cup {NoTask}
  /\ sender \in {"got", "sending"} <=> task \in Task
  /\ smq \in Seq(Task)
  /\ wait \in [Gate -> {"idle", "test", "gap", "asleep", "through"}]
  /\ missed \in [Gate -> Nat]
  /\ inited \in BOOLEAN /\ connected \in BOOLEAN
  /\ stopping \in BOOLEAN /\ cleaned \in BOOLEAN
  /\ posted \in BOOLEAN /\ freed \in BOOLEAN
  /\ rooms \subseteq Room /\ callbacks \subseteq Room
  /\ opened \subseteq Room /\ left \subseteq Room
  /\ begun \in Nat /\ errors \in Nat
  /\ aborted \in [by : {"nobody", "sender", "leaving", "deleted",
                        "opening", "handler"},
                  room : Room \cup {NoRoom}]

(* A thread sleeps over a condition that holds only if a notification fell *)
(* between its test and its wait, or, for the sender, if all that is queued*)
(* are relays, which are pushed without a notification.                    *)
SilentWork == \A i \in DOMAIN smq : smq[i].by = "relay"

AsleepOnlyIfMissed ==
  \A g \in Gate :
    wait[g] = "asleep" /\ Condition(g)
      => missed[g] > 0 \/ (g = "sMq" /\ ~stopping /\ SilentWork)

(* The process ends by an exception, or by using what was deleted, only    *)
(* over a room that was left or while the node is stopped; by the handler  *)
(* of a message only if the room was left since the handler last found it, *)
(* or if it has no callback yet.                                           *)
AbortHasCause ==
  aborted # Running =>
    \/ aborted.by = "handler" /\ (overtaken \/ aborted.room \in rooms \ callbacks)
    \/ aborted.by # "handler" /\ aborted.room \in left
    \/ aborted.by = "deleted" /\ stopping

(* exit() returns and the sender ends, whatever the threads were doing,    *)
(* unless the one notification of the future, or both notifications of the *)
(* sender, fell between a test and a wait.                                 *)
Stuck ==
  \/ app = "future" /\ wait["cleaned"] = "asleep" /\ missed["cleaned"] > 0
  \/ app = "join sender" /\ wait["sMq"] = "asleep" /\ missed["sMq"] > 1

=============================================================================
