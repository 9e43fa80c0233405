------------------------- MODULE NodeThreadsProofs -------------------------
(***************************************************************************)
(* For every set of rooms and every number of tasks and errors: a thread   *)
(* sleeps over its condition only after a missed notification, and the     *)
(* process is ended only for the reasons AbortHasCause lists.              *)
(***************************************************************************)
EXTENDS NodeThreads, TLAPS

States == {"idle", "test", "gap", "asleep", "through"}

(* The parts of TypeOK.                                                    *)
ControlOK ==
  /\ app \in {"create", "idle", "done"} \cup Joining \cup Exiting
  /\ want \in Room \cup {NoRoom}
  /\ app \in Joining <=> want \in Room
LoopOK ==
  /\ loop \in {"construct", "run", "ended"} \cup Handling
  /\ busy \in [room : Room, to : Addressee] \cup {Nothing}
  /\ loop \in Handling => busy.room \in Room
  /\ overtaken \in BOOLEAN
SenderOK ==
  /\ sender \in {"loop", "got", "sending", "ended"}
  /\ task \in Task \cup {NoTask}
  /\ sender \in {"got", "sending"} <=> task \in Task
  /\ smq \in Seq(Task)
  /\ freed \in BOOLEAN
GatesOK ==
  /\ wait \in [Gate -> States]
  /\ missed \in [Gate -> Nat]
  /\ sender = "loop" <=> wait["sMq"] # "idle"
FlagsOK ==
  /\ inited \in BOOLEAN /\ connected \in BOOLEAN
  /\ stopping \in BOOLEAN /\ cleaned \in BOOLEAN /\ posted \in BOOLEAN
RoomsOK ==
  /\ rooms \subseteq Room /\ callbacks \subseteq Room
  /\ opened \subseteq Room /\ left \subseteq Room
  /\ begun \in Nat /\ errors \in Nat
  /\ aborted \in [by : {"nobody", "sender", "leaving", "deleted",
                        "opening", "handler"},
                  room : Room \cup {NoRoom}]

(* Together they are TypeOK, and a step that leaves the variables of a part *)
(* alone keeps it.                                                         *)
LEMMA Parts ==
  TypeOK <=> ControlOK /\ LoopOK /\ SenderOK /\ GatesOK /\ FlagsOK /\ RoomsOK
  BY DEF TypeOK, ControlOK, LoopOK, SenderOK, GatesOK, FlagsOK, RoomsOK, States

LEMMA PartsNext ==
  TypeOK' <=> ControlOK' /\ LoopOK' /\ SenderOK' /\ GatesOK' /\ FlagsOK' /\ RoomsOK'
  BY Parts, PTL

LEMMA Frames ==
  /\ ControlOK /\ UNCHANGED <<app, want>> => ControlOK'
  /\ LoopOK /\ UNCHANGED <<loop, busy, overtaken>> => LoopOK'
  /\ SenderOK /\ UNCHANGED <<sender, task, smq, freed>> => SenderOK'
  /\ GatesOK /\ UNCHANGED <<sender, wait, missed>> => GatesOK'
  /\ FlagsOK /\ UNCHANGED <<inited, connected, stopping, cleaned, posted>>
       => FlagsOK'
  /\ RoomsOK /\ UNCHANGED <<rooms, callbacks, opened, left, begun, errors,
                            aborted>> => RoomsOK'
<1>0. LoopOK /\ UNCHANGED <<loop, busy, overtaken>> => LoopOK'
  BY DEF LoopOK
<1>1. ControlOK /\ UNCHANGED <<app, want>> => ControlOK'
  BY DEF ControlOK
<1>2. SenderOK /\ UNCHANGED <<sender, task, smq, freed>> => SenderOK'
  BY DEF SenderOK
<1>3. GatesOK /\ UNCHANGED <<sender, wait, missed>> => GatesOK'
  BY DEF GatesOK
<1>4. FlagsOK /\ UNCHANGED <<inited, connected, stopping, cleaned, posted>>
        => FlagsOK'
  BY DEF FlagsOK
<1>5. RoomsOK /\ UNCHANGED <<rooms, callbacks, opened, left, begun, errors,
                            aborted>> => RoomsOK'
  BY DEF RoomsOK
<1>6. QED
  BY <1>0, <1>1, <1>2, <1>3, <1>4, <1>5

LEMMA NoTaskIsNoTask == NoTask \notin Task
  BY NoRoomAssumption DEF NoTask, Task

LEMMA TypeInit == Init => TypeOK
<1> SUFFICES ASSUME Init PROVE TypeOK
  OBVIOUS
<1>1. wait \in [Gate -> States] /\ wait["sMq"] # "idle"
  BY DEF Init, Gate, States
<1>2. smq \in Seq(Task) /\ missed \in [Gate -> Nat]
  BY DEF Init, Gate
<1>3. QED
  BY <1>1, <1>2, NoTaskIsNoTask, NoRoomAssumption
  DEF Init, TypeOK, Joining, Exiting, Running, Handling, States

(* Notifying and moving the waiter of a gate keep the types, and nobody    *)
(* leaves a gate by being notified.                                        *)
LEMMA NotifyType ==
  ASSUME TypeOK, NEW g \in Gate, NotifyAll(g)
  PROVE  /\ wait' \in [Gate -> States]
         /\ missed' \in [Gate -> Nat]
         /\ \A h \in Gate : wait'[h] = "idle" <=> wait[h] = "idle"
<1>1. wait \in [Gate -> States] /\ missed \in [Gate -> Nat]
  BY DEF TypeOK, States
<1>2. missed[g] + 1 \in Nat
  BY <1>1
<1>3. QED
  BY <1>1, <1>2 DEF NotifyAll, States

LEMMA AtType ==
  ASSUME TypeOK, NEW g \in Gate, NEW w \in States, At(g, w)
  PROVE  /\ wait' \in [Gate -> States]
         /\ wait'[g] = w
         /\ \A h \in Gate \ {g} : wait'[h] = wait[h]
  BY DEF TypeOK, States, At

LEMMA PushType ==
  ASSUME TypeOK, NEW r \in Room, NEW by \in {"call", "relay", "sender"},
         Push(r, by)
  PROVE  /\ smq' \in Seq(Task)
         /\ smq' = Append(smq, [room |-> r, by |-> by])
  BY DEF TypeOK, Push, Task

LEMMA CountType ==
  ASSUME TypeOK, Count
  PROVE  begun' \in Nat /\ errors' = errors
  BY DEF TypeOK, Count

LEMMA GateNames == \A g \in {"created", "online", "sMq", "cleaned"} : g \in Gate
  BY DEF Gate

(* The steps of the application's thread keep the types.                   *)
LEMMA TypeApp ==
  ASSUME TypeOK, AppStep \/ AppCall
  PROVE  TypeOK'
<1> USE GateNames, NoRoomAssumption DEF loopVars
<1>0. wait \in [Gate -> States]
  BY DEF TypeOK, States
<1>1. CASE Created
  BY <1>0, <1>1, AtType DEF Created, TypeOK, States, flags, roomVars,
     senderVars, counts, Joining, Exiting
<1>2. CASE JoinRoomWS
  BY <1>0, <1>2, AtType DEF JoinRoomWS, TypeOK, States, flags, senderVars,
     counts, Joining, Exiting
<1>3. CASE LeaveRoomWS
  BY <1>0, <1>3, AtType DEF LeaveRoomWS, TypeOK, States, flags, Abort, Sending,
     counts, Joining, Exiting
<1>4. CASE ClearPeers
  BY <1>4 DEF ClearPeers, TypeOK, flags, roomVars, counts, Joining, Exiting
<1>5. CASE CancelIdler
  BY <1>0, <1>5, AtType DEF CancelIdler, TypeOK, States, flags, roomVars,
     senderVars, counts, Joining, Exiting
<1>6. CASE PushCleanup
  BY <1>6 DEF PushCleanup, TypeOK, flags, roomVars, senderVars, counts, Joining,
     Exiting
<1>7. CASE FutureReady
  BY <1>0, <1>7, AtType DEF FutureReady, TypeOK, States, flags, roomVars,
     senderVars, counts, Joining, Exiting
<1>8. CASE StopLoop
  <2>1. /\ wait' \in [Gate -> States] /\ missed' \in [Gate -> Nat]
        /\ wait'["sMq"] = "idle" <=> wait["sMq"] = "idle"
    BY <1>8, NotifyType DEF StopLoop
  <2>2. app' = "join sender" /\ app' \notin Joining /\ want' = want /\ want \notin Room
    BY <1>8 DEF StopLoop, TypeOK, Joining
  <2>3. ControlOK'
    BY <1>8, <2>2, Parts DEF StopLoop, ControlOK, Exiting
  <2>4. GatesOK'
    BY <1>8, <2>1, Parts DEF StopLoop, GatesOK, senderVars
  <2>5. LoopOK' /\ SenderOK' /\ FlagsOK' /\ RoomsOK'
    BY <1>8, Parts, Frames DEF StopLoop, flags, roomVars, senderVars, counts
  <2>6. QED
    BY <2>3, <2>4, <2>5, PartsNext
<1>9. CASE JoinSender
  <2>1. app' = "done" /\ app' \notin Joining /\ want' = want /\ want \notin Room
    BY <1>9 DEF JoinSender, TypeOK, Joining
  <2>2. ControlOK'
    BY <1>9, <2>1, Parts DEF JoinSender, ControlOK
  <2>3. LoopOK' /\ SenderOK' /\ GatesOK' /\ FlagsOK' /\ RoomsOK'
    BY <1>9, Parts, Frames DEF JoinSender, flags, roomVars, senderVars, counts
  <2>4. QED
    BY <2>2, <2>3, PartsNext
<1>10. CASE Stop
  <2>1. /\ wait' \in [Gate -> States] /\ missed' \in [Gate -> Nat]
        /\ wait'["sMq"] = "idle" <=> wait["sMq"] = "idle"
    BY <1>10, NotifyType DEF Stop
  <2>2. QED
    BY <1>10, <2>1 DEF Stop, TypeOK, States, flags, roomVars, senderVars,
       counts, Joining, Exiting
<1>11. ASSUME NEW r \in Room, Broadcast2Room(r)
       PROVE  TypeOK'
  <2>1. /\ wait' \in [Gate -> States] /\ missed' \in [Gate -> Nat]
        /\ wait'["sMq"] = "idle" <=> wait["sMq"] = "idle"
    BY <1>11, NotifyType DEF Broadcast2Room
  <2>2. smq' \in Seq(Task) /\ begun' \in Nat /\ errors' = errors
    BY <1>11, PushType, CountType DEF Broadcast2Room
  <2>3. QED
    BY <1>11, <2>1, <2>2 DEF Broadcast2Room, TypeOK, States, flags, roomVars,
       senderVars
<1>12. ASSUME NEW r \in Room, AddCallback(r)
       PROVE  TypeOK'
  BY <1>12 DEF AddCallback, TypeOK, flags, senderVars, counts
<1>13. ASSUME NEW r \in Room, NEW op \in Joining, WaitForOnline(r, op)
       PROVE  TypeOK'
  <2>1. /\ wait' \in [Gate -> States]
        /\ wait'["sMq"] = wait["sMq"]
    BY <1>13, AtType DEF WaitForOnline, States, Gate
  <2>2. app' \in Joining /\ want' \in Room
    BY <1>13 DEF WaitForOnline
  <2>3. QED
    BY <1>13, <2>1, <2>2 DEF WaitForOnline, TypeOK, States, flags, roomVars,
       senderVars, counts
<1>14. QED
  BY <1>1, <1>2, <1>3, <1>4, <1>5, <1>6, <1>7, <1>8, <1>9, <1>10, <1>11, <1>12,
     <1>13 DEF AppStep, AppCall

(* The ends of the process a handler can choose from, and what its steps   *)
(* leave behind.                                                           *)
EndOK(a) == a \in [by : {"nobody", "sender", "leaving", "deleted",
                         "opening", "handler"},
                   room : Room \cup {NoRoom}]

LEMMA HandlerDoes ==
  ASSUME TypeOK, HandlerStep
  PROVE  /\ busy.room \in Room
         /\ LoopOK' /\ EndOK(aborted')
         /\ \/ UNCHANGED <<smq, wait, missed>>
            \/ Push(busy.room, "relay") /\ UNCHANGED <<wait, missed>>
            \/ Push(busy.room, "call") /\ NotifyAll("sMq")
         /\ UNCHANGED <<app, want, sender, task, freed, inited, connected, stopping,
                       cleaned, posted, rooms, callbacks, opened, left, begun, errors>>
<1>0. /\ loop \in Handling /\ busy.room \in Room
      /\ UNCHANGED <<app, want, sender, task, freed, inited, connected, stopping,
                    cleaned, posted, rooms, callbacks, opened, left, begun, errors>>
  BY DEF HandlerStep, ReadRoom, GetToAnnounce, PutAnnouncement, GetToHandle, UseRoom,
     CallBack, Handling, TypeOK, senderVars, flags, roomVars, counts
<1>1. LoopOK /\ EndOK(aborted)
  BY Parts DEF RoomsOK, EndOK
<1>2. \/ \E next \in {"putting", "using"}, by \in {"opening", "handler"} :
            Find(busy.room, next, by) /\ busy' = busy
      \/ \E by \in {"opening", "handler"} : Abort(by, busy.room) /\ UNCHANGED loopVars
      \/ \E place \in {"announcing", "calling"} : GoOn(place)
      \/ Return
  BY DEF HandlerStep, ReadRoom, GetToAnnounce, PutAnnouncement, GetToHandle, UseRoom,
     CallBack, UseOvertaken
<1>3. LoopOK'
  <2>1. CASE Return
    BY <2>1 DEF Return, LoopOK, Handling
  <2>2. CASE ~Return
    BY <1>0, <1>1, <1>2, <2>2 DEF Find, GoOn, LoopOK, loopVars, Handling
  <2>3. QED
    BY <2>1, <2>2
<1>4. EndOK(aborted')
  BY <1>0, <1>1, <1>2 DEF Find, Abort, GoOn, Return, EndOK
<1>5. \/ UNCHANGED <<smq, wait, missed>>
      \/ Push(busy.room, "relay") /\ UNCHANGED <<wait, missed>>
      \/ Push(busy.room, "call") /\ NotifyAll("sMq")
  BY DEF HandlerStep, ReadRoom, GetToAnnounce, PutAnnouncement, GetToHandle, UseRoom,
     CallBack
<1>6. QED
  BY <1>0, <1>3, <1>4, <1>5

LEMMA TypeHandler ==
  ASSUME TypeOK, HandlerStep
  PROVE  TypeOK'
<1>1. ControlOK' /\ LoopOK' /\ FlagsOK' /\ RoomsOK'
  <2>1. ControlOK' /\ LoopOK' /\ FlagsOK'
    BY HandlerDoes, Parts, Frames
  <2>2. RoomsOK'
    BY HandlerDoes, Parts DEF RoomsOK, EndOK
  <2>3. QED
    BY <2>1, <2>2
<1>2. SenderOK'
  <2>1. smq' \in Seq(Task)
    BY HandlerDoes, PushType DEF TypeOK
  <2>2. QED
    BY <2>1, HandlerDoes, Parts DEF SenderOK
<1>3. GatesOK'
  <2>1. CASE UNCHANGED <<wait, missed>>
    BY <2>1, HandlerDoes, Parts, Frames
  <2>2. CASE NotifyAll("sMq")
    <3>1. /\ wait' \in [Gate -> States] /\ missed' \in [Gate -> Nat]
          /\ wait'["sMq"] = "idle" <=> wait["sMq"] = "idle"
      BY <2>2, NotifyType, GateNames
    <3>2. QED
      BY <3>1, HandlerDoes, Parts DEF GatesOK
  <2>3. QED
    BY <2>1, <2>2, HandlerDoes
<1>4. QED
  BY <1>1, <1>2, <1>3, PartsNext

(* The steps of the loop thread keep the types.                            *)
LEMMA TypeLoop ==
  ASSUME TypeOK, LoopStep \/ LoopEvent
  PROVE  TypeOK'
<1> USE GateNames, NoRoomAssumption DEF loopVars
<1>1. CASE Construct
  <2>1. /\ wait' \in [Gate -> States] /\ missed' \in [Gate -> Nat]
        /\ wait'["sMq"] = "idle" <=> wait["sMq"] = "idle"
    BY <1>1, NotifyType DEF Construct
  <2>2. QED
    BY <1>1, <2>1 DEF Construct, TypeOK, States, Handling, roomVars, senderVars, counts
<1>2. CASE RunCleanup
  <2>1. /\ wait' \in [Gate -> States] /\ missed' \in [Gate -> Nat]
        /\ wait'["sMq"] = "idle" <=> wait["sMq"] = "idle"
    BY <1>2, NotifyType DEF RunCleanup
  <2>2. GatesOK' /\ FlagsOK'
    BY <1>2, <2>1, Parts DEF RunCleanup, GatesOK, FlagsOK, senderVars
  <2>3. ControlOK' /\ LoopOK' /\ SenderOK' /\ RoomsOK'
    BY <1>2, Parts, Frames DEF RunCleanup, roomVars, senderVars, counts
  <2>4. QED
    BY <2>2, <2>3, PartsNext
<1>3. CASE LoopEnds
  <2>1. LoopOK'
    BY <1>3, Parts DEF LoopEnds, LoopOK, Handling
  <2>2. ControlOK' /\ SenderOK' /\ GatesOK' /\ FlagsOK' /\ RoomsOK'
    BY <1>3, Parts, Frames DEF LoopEnds, flags, roomVars, senderVars, counts
  <2>3. QED
    BY <2>1, <2>2, PartsNext
<1>4. CASE GoOnline
  <2>1. /\ wait' \in [Gate -> States] /\ missed' \in [Gate -> Nat]
        /\ wait'["sMq"] = "idle" <=> wait["sMq"] = "idle"
    BY <1>4, NotifyType DEF GoOnline, Wakeup
  <2>2. GatesOK' /\ FlagsOK'
    BY <1>4, <2>1, Parts DEF GoOnline, Wakeup, GatesOK, FlagsOK, senderVars
  <2>3. ControlOK' /\ LoopOK' /\ SenderOK' /\ RoomsOK'
    BY <1>4, Parts, Frames DEF GoOnline, Wakeup, roomVars, senderVars, counts
  <2>4. QED
    BY <2>2, <2>3, PartsNext
<1>5. CASE ConnectionError
  <2>1. FlagsOK'
    BY <1>5, Parts DEF ConnectionError, FlagsOK
  <2>2. errors' \in Nat
    BY <1>5, Parts DEF ConnectionError, RoomsOK
  <2>3. RoomsOK'
    BY <1>5, <2>2, Parts DEF ConnectionError, RoomsOK, roomVars
  <2>4. ControlOK' /\ LoopOK' /\ SenderOK' /\ GatesOK'
    BY <1>5, Parts, Frames DEF ConnectionError, senderVars
  <2>5. QED
    BY <2>1, <2>3, <2>4, PartsNext
<1>6. ASSUME NEW r \in Room, OnCreatedConnection(r)
      PROVE  TypeOK'
  <2>1. begun' \in Nat /\ errors' = errors
    BY <1>6, CountType DEF OnCreatedConnection
  <2>2. LoopOK' /\ EndOK(aborted')
    <3>1. LoopOK /\ EndOK(aborted) /\ loop = "run"
      BY <1>6, Parts DEF OnCreatedConnection, Listening, RoomsOK, EndOK
    <3>2. busy' \in [room : Room, to : Addressee] /\ busy'.room \in Room
      BY <1>6 DEF OnCreatedConnection, Addressee
    <3>3. CASE r \in rooms
      BY <1>6, <3>1, <3>2, <3>3 DEF OnCreatedConnection, Find, LoopOK, Handling
    <3>4. CASE r \notin rooms
      <4>1. loop' = loop /\ overtaken' = overtaken /\ Abort("opening", r)
        BY <1>6, <3>4 DEF OnCreatedConnection, Find
      <4>2. LoopOK'
        BY <3>1, <3>2, <4>1 DEF LoopOK, Handling
      <4>3. EndOK(aborted')
        BY <4>1 DEF Abort, EndOK
      <4>4. QED
        BY <4>2, <4>3
    <3>5. QED
      BY <3>3, <3>4
  <2>3. RoomsOK'
    BY <1>6, <2>1, <2>2, Parts DEF OnCreatedConnection, RoomsOK, EndOK
  <2>4. ControlOK' /\ SenderOK' /\ GatesOK' /\ FlagsOK'
    BY <1>6, Parts, Frames DEF OnCreatedConnection, flags, senderVars
  <2>5. QED
    BY <2>2, <2>3, <2>4, PartsNext
<1>7. ASSUME NEW r \in Room, NEW to \in Addressee, HandleLogic(r, to)
      PROVE  TypeOK'
  <2>1. begun' \in Nat /\ errors' \in Nat
    BY <1>7, CountType, Parts DEF HandleLogic, RoomsOK, counts
  <2>2. LoopOK'
    BY <1>7, Parts DEF HandleLogic, LoopOK, Handling
  <2>3. RoomsOK'
    BY <1>7, <2>1, Parts DEF HandleLogic, RoomsOK, roomVars
  <2>4. ControlOK' /\ SenderOK' /\ GatesOK' /\ FlagsOK'
    BY <1>7, Parts, Frames DEF HandleLogic, flags, senderVars
  <2>5. QED
    BY <2>2, <2>3, <2>4, PartsNext
<1>8. CASE HandlerStep
  BY <1>8, TypeHandler
<1>9. QED
  BY <1>1, <1>2, <1>3, <1>4, <1>5, <1>6, <1>7, <1>8 DEF LoopStep, LoopEvent

(* The steps of the sender keep the types.                                 *)
LEMMA TypeSender ==
  ASSUME TypeOK, SenderStep \/ UseDeleted
  PROVE  TypeOK'
<1> USE GateNames, NoRoomAssumption DEF loopVars
<1>0. wait \in [Gate -> States]
  BY DEF TypeOK, States
<1>1. CASE Take
  <2>1. Head(smq) \in Task /\ Tail(smq) \in Seq(Task)
    BY <1>1 DEF Take, TypeOK
  <2>2. QED
    BY <1>0, <1>1, <2>1, AtType DEF Take, TypeOK, States, flags, roomVars, counts
<1>2. CASE SenderEnds
  BY <1>0, <1>2, AtType DEF SenderEnds, TypeOK, States, flags, roomVars, counts
<1>3. CASE LookUpRoom
  <2>1. sender = "got" /\ task \in Task /\ task.room \in Room
    BY <1>3 DEF LookUpRoom, TypeOK, Task
  <2>2. /\ sender' \in {"got", "sending"} /\ freed' \in BOOLEAN
        /\ aborted' \in [by : {"nobody", "sender", "leaving", "deleted",
                               "opening", "handler"},
                         room : Room \cup {NoRoom}]
    <3>1. CASE task.room \in rooms
      BY <1>3, <3>1 DEF LookUpRoom, PeersDeleted, TypeOK
    <3>2. CASE task.room \notin rooms
      BY <1>3, <2>1, <3>2 DEF LookUpRoom, Abort, TypeOK
    <3>3. QED
      BY <3>1, <3>2
  <2>3. QED
    BY <1>3, <2>1, <2>2 DEF LookUpRoom, TypeOK, flags, roomVars, counts
<1>4. CASE Deliver
  <2>1. task \in Task
    BY <1>4 DEF Deliver, TypeOK
  <2>2. Retried(task) \in Task
    BY <2>1 DEF Retried, Task
  <2>3. smq' \in Seq(Task)
    BY <1>4, <2>2 DEF Deliver, TypeOK
  <2>4. wait' \in [Gate -> States] /\ wait'["sMq"] = "test"
    BY <1>4, AtType DEF Deliver, BackAtGate, States
  <2>5. task' = NoTask /\ task' \notin Task /\ sender' = "loop" /\ freed' = FALSE
    BY <1>4, NoTaskIsNoTask DEF Deliver, BackAtGate, DropTask
  <2>6. SenderOK' /\ GatesOK'
    BY <1>4, <2>3, <2>4, <2>5, Parts DEF Deliver, SenderOK, GatesOK
  <2>7. ControlOK' /\ LoopOK' /\ FlagsOK' /\ RoomsOK'
    BY <1>4, Parts, Frames DEF Deliver, flags, roomVars, counts
  <2>8. QED
    BY <2>6, <2>7, PartsNext
<1>5. CASE UseDeleted
  BY <1>5 DEF UseDeleted, Abort, TypeOK, flags, roomVars, senderVars, counts, Task
<1>6. QED
  BY <1>1, <1>2, <1>3, <1>4, <1>5 DEF SenderStep

(* The steps at a gate keep the types.                                     *)
LEMMA TypeGate ==
  ASSUME TypeOK, NEW g \in Gate, WaiterStep(g) \/ WakeSpuriously(g)
  PROVE  TypeOK'
<1>0. wait \in [Gate -> States]
  BY DEF TypeOK, States
<1>1. CASE Test(g)
  <2>1. \E w \in {"through", "gap"} : At(g, w)
    BY <1>1 DEF Test
  <2>2. missed' \in [Gate -> Nat]
    BY <1>1 DEF Test, TypeOK
  <2>3. QED
    BY <1>0, <1>1, <2>1, <2>2, AtType, GateNames
    DEF Test, TypeOK, States, loopVars, flags, roomVars, senderVars, counts
<1>2. CASE Sleep(g)
  BY <1>0, <1>2, AtType, GateNames
  DEF Sleep, TypeOK, States, loopVars, flags, roomVars, senderVars, counts
<1>3. CASE WakeSpuriously(g)
  BY <1>0, <1>3, AtType, GateNames
  DEF WakeSpuriously, TypeOK, States, loopVars, flags, roomVars, senderVars, counts
<1>4. QED
  BY <1>1, <1>2, <1>3 DEF WaiterStep

LEMMA TypeStep == TypeOK /\ [Next]_vars => TypeOK'
<1> SUFFICES ASSUME TypeOK, [Next]_vars PROVE TypeOK'
  OBVIOUS
<1>1. CASE UNCHANGED vars
  BY <1>1 DEF vars, TypeOK, loopVars, flags, roomVars, senderVars, counts
<1>2. CASE Next
  BY <1>2, TypeApp, TypeLoop, TypeSender, TypeGate DEF Next
<1>3. QED
  BY <1>1, <1>2

(* The types of the model hold throughout.                                 *)
THEOREM TypeCorrect == Spec => []TypeOK
  BY TypeInit, TypeStep, PTL DEF Spec

----------------------------------------------------------------------------
(* Sleeping: what AsleepOnlyIfMissed says of who sleeps holds of who is    *)
(* about to sleep already.                                                 *)
Waiting == {"gap", "asleep"}

Held(g) ==
  wait[g] \in Waiting /\ Condition(g)
    => missed[g] > 0 \/ (g = "sMq" /\ ~stopping /\ SilentWork)

SleepInv == \A g \in Gate : Held(g)

LEMMA Conditions ==
  /\ Condition("created") = inited
  /\ Condition("online") = connected
  /\ Condition("sMq") = (smq # << >> \/ stopping)
  /\ Condition("cleaned") = cleaned
  BY DEF Condition

(* A gate whose waiter, notifications and condition a step leaves alone,   *)
(* or makes false, is held as before.                                      *)
LEMMA StillHeld ==
  ASSUME SleepInv, NEW h \in Gate,
         \/ wait'[h] \notin Waiting
         \/ /\ wait'[h] = wait[h] /\ missed'[h] = missed[h]
            /\ Condition(h)' => Condition(h)
            /\ UNCHANGED <<smq, stopping>>
  PROVE  Held(h)'
  BY DEF SleepInv, Held, SilentWork

(* No condition of a gate but g becomes true in a step that leaves the     *)
(* variables of the other conditions alone.                                *)
LEMMA ConditionFrame ==
  ASSUME NEW h \in Gate, UNCHANGED <<smq, stopping>>,
         h = "created" => inited' = inited,
         h = "online" => (connected' => connected),
         h = "cleaned" => cleaned' = cleaned
  PROVE  Condition(h)' => Condition(h)
<1>1. CASE h = "created"
  BY <1>1 DEF Condition
<1>2. CASE h = "online"
  <2>1. connected' => connected
    BY <1>2
  <2>2. QED
    BY <1>2, <2>1 DEF Condition
<1>3. CASE h = "sMq"
  BY <1>3 DEF Condition
<1>4. CASE h = "cleaned"
  BY <1>4 DEF Condition
<1>5. QED
  BY <1>1, <1>2, <1>3, <1>4 DEF Gate

(* Who is notified is awake, or has missed it.                             *)
LEMMA NotifiedHeld ==
  ASSUME TypeOK, NEW g \in Gate, NotifyAll(g)
  PROVE  Held(g)'
<1>1. wait \in [Gate -> States] /\ missed \in [Gate -> Nat]
  BY DEF TypeOK, States
<1>2. CASE wait[g] = "gap"
  <2>1. missed'[g] = missed[g] + 1 /\ missed[g] \in Nat
    BY <1>1, <1>2 DEF NotifyAll
  <2>2. missed'[g] > 0
    BY <2>1
  <2>3. QED
    BY <2>2 DEF Held
<1>3. CASE wait[g] # "gap"
  <2>1. wait'[g] \notin Waiting
    BY <1>1, <1>3 DEF NotifyAll, Waiting
  <2>2. QED
    BY <2>1 DEF Held
<1>4. QED
  BY <1>2, <1>3

LEMMA NotifyOthers ==
  ASSUME TypeOK, NEW g \in Gate, NotifyAll(g), NEW h \in Gate \ {g}
  PROVE  wait'[h] = wait[h] /\ missed'[h] = missed[h]
  BY DEF TypeOK, NotifyAll

(* The waiter of g moves on, and no condition changes.                     *)
LEMMA MovedHeld ==
  ASSUME TypeOK, SleepInv, NEW g \in Gate, NEW w \in States \ Waiting, At(g, w),
         UNCHANGED <<missed, flags, smq>>
  PROVE  SleepInv'
<1> SUFFICES ASSUME NEW h \in Gate PROVE Held(h)'
  BY DEF SleepInv
<1>1. CASE h = g
  BY <1>1, AtType, StillHeld
<1>2. CASE h # g
  BY <1>2, AtType, StillHeld, ConditionFrame DEF flags
<1>3. QED
  BY <1>1, <1>2

LEMMA UnmovedHeld ==
  ASSUME SleepInv, UNCHANGED <<wait, missed, flags, smq>>
  PROVE  SleepInv'
  BY StillHeld, ConditionFrame DEF SleepInv, flags

(* A step that notifies the sender may change its queue and tell it to     *)
(* stop.                                                                   *)
LEMMA SenderNotifiedHeld ==
  ASSUME TypeOK, SleepInv, NotifyAll("sMq"), UNCHANGED <<inited, connected, cleaned>>
  PROVE  SleepInv'
<1> SUFFICES ASSUME NEW h \in Gate PROVE Held(h)'
  BY DEF SleepInv
<1>1. CASE h = "sMq"
  BY <1>1, NotifiedHeld
<1>2. CASE h # "sMq"
  <2>1. wait'[h] = wait[h] /\ missed'[h] = missed[h]
    BY <1>2, NotifyOthers, GateNames
  <2>2. Condition(h)' = Condition(h)
    BY <1>2 DEF Condition, Gate
  <2>3. QED
    BY <1>2, <2>1, <2>2 DEF SleepInv, Held
<1>3. QED
  BY <1>1, <1>2

(* Setting the flag of one of the other gates and notifying it.            *)
LEMMA OtherNotifiedHeld ==
  ASSUME TypeOK, SleepInv, NEW g \in Gate \ {"sMq"}, NotifyAll(g),
         UNCHANGED <<smq, stopping>>,
         g # "created" => inited' = inited,
         g # "online" => connected' = connected,
         g # "cleaned" => cleaned' = cleaned
  PROVE  SleepInv'
<1> SUFFICES ASSUME NEW h \in Gate PROVE Held(h)'
  BY DEF SleepInv
<1>1. CASE h = g
  BY <1>1, NotifiedHeld
<1>2. CASE h # g
  <2>1. wait'[h] = wait[h] /\ missed'[h] = missed[h]
    BY <1>2, NotifyOthers
  <2>2. Condition(h)' => Condition(h)
    BY <1>2, ConditionFrame
  <2>3. QED
    BY <2>1, <2>2, StillHeld
<1>3. QED
  BY <1>1, <1>2

(* A relay is pushed and nobody is notified: the sender may sleep over it. *)
LEMMA RelayHeld ==
  ASSUME TypeOK, SleepInv, NEW r \in Room, Push(r, "relay"),
         UNCHANGED <<wait, missed, flags>>
  PROVE  SleepInv'
<1> SUFFICES ASSUME NEW h \in Gate PROVE Held(h)'
  BY DEF SleepInv
<1>1. /\ smq' = Append(smq, [room |-> r, by |-> "relay"])
      /\ smq \in Seq(Task) /\ stopping' = stopping
  BY DEF Push, TypeOK, flags
<1>2. CASE h # "sMq"
  <2>1. Condition(h)' = Condition(h)
    BY <1>2 DEF Condition, Gate, flags
  <2>2. QED
    BY <1>2, <2>1 DEF SleepInv, Held
<1>3. CASE h = "sMq" /\ wait[h] \in Waiting
  <2>1. SilentWork => SilentWork'
    BY <1>1 DEF SilentWork
  <2>2. smq = << >> => SilentWork
    BY DEF SilentWork
  <2>3. missed[h] > 0 \/ (~stopping /\ SilentWork)
    BY <1>3, <2>2, Conditions DEF SleepInv, Held
  <2>4. QED
    BY <1>1, <1>3, <2>1, <2>3 DEF Held
<1>4. CASE h = "sMq" /\ wait[h] \notin Waiting
  BY <1>4 DEF Held
<1>5. QED
  BY <1>2, <1>3, <1>4

LEMMA SleepInit == Init => SleepInv
<1> SUFFICES ASSUME Init, NEW g \in Gate PROVE Held(g)
  BY DEF SleepInv
<1>1. wait[g] \notin Waiting
  BY DEF Init, Waiting
<1>2. QED
  BY <1>1 DEF Held

LEMMA SleepApp ==
  ASSUME TypeOK, SleepInv, AppStep \/ AppCall
  PROVE  SleepInv'
<1> USE GateNames
<1>1. CASE Created
  BY <1>1, MovedHeld DEF Created, States, Waiting
<1>2. CASE JoinRoomWS
  BY <1>2, MovedHeld DEF JoinRoomWS, States, Waiting
<1>3. CASE LeaveRoomWS
  BY <1>3, MovedHeld DEF LeaveRoomWS, States, Waiting
<1>4. CASE ClearPeers
  BY <1>4, UnmovedHeld DEF ClearPeers
<1>5. CASE CancelIdler
  BY <1>5, MovedHeld DEF CancelIdler, States, Waiting
<1>6. CASE PushCleanup
  BY <1>6, UnmovedHeld DEF PushCleanup
<1>7. CASE FutureReady
  BY <1>7, MovedHeld DEF FutureReady, States, Waiting
<1>8. CASE StopLoop
  BY <1>8, SenderNotifiedHeld DEF StopLoop, flags
<1>9. CASE JoinSender
  BY <1>9, UnmovedHeld DEF JoinSender
<1>10. CASE Stop
  BY <1>10, SenderNotifiedHeld DEF Stop
<1>11. ASSUME NEW r \in Room, Broadcast2Room(r)
       PROVE  SleepInv'
  BY <1>11, SenderNotifiedHeld DEF Broadcast2Room, flags
<1>12. ASSUME NEW r \in Room, AddCallback(r)
       PROVE  SleepInv'
  BY <1>12, UnmovedHeld DEF AddCallback
<1>13. ASSUME NEW r \in Room, NEW op \in Joining, WaitForOnline(r, op)
       PROVE  SleepInv'
  BY <1>13, MovedHeld DEF WaitForOnline, States, Waiting
<1>14. QED
  BY <1>1, <1>2, <1>3, <1>4, <1>5, <1>6, <1>7, <1>8, <1>9, <1>10, <1>11, <1>12,
     <1>13 DEF AppStep, AppCall

LEMMA SleepLoop ==
  ASSUME TypeOK, SleepInv, LoopStep \/ LoopEvent
  PROVE  SleepInv'
<1> USE GateNames
<1>1. CASE Construct
  BY <1>1, OtherNotifiedHeld DEF Construct
<1>2. CASE RunCleanup
  BY <1>2, OtherNotifiedHeld DEF RunCleanup
<1>3. CASE LoopEnds
  BY <1>3, UnmovedHeld DEF LoopEnds
<1>4. CASE GoOnline
  BY <1>4, OtherNotifiedHeld DEF GoOnline, Wakeup
<1>5. CASE ConnectionError
  <2> SUFFICES ASSUME NEW h \in Gate PROVE Held(h)'
    BY DEF SleepInv
  <2>1. Condition(h)' => Condition(h)
    BY <1>5, ConditionFrame DEF ConnectionError
  <2>2. QED
    BY <1>5, <2>1, StillHeld DEF ConnectionError
<1>6. ASSUME NEW r \in Room, OnCreatedConnection(r)
      PROVE  SleepInv'
  BY <1>6, UnmovedHeld DEF OnCreatedConnection
<1>7. ASSUME NEW r \in Room, NEW to \in Addressee, HandleLogic(r, to)
      PROVE  SleepInv'
  BY <1>7, UnmovedHeld DEF HandleLogic
<1>8. CASE HandlerStep
  <2>1. CASE UNCHANGED <<smq, wait, missed>>
    BY <1>8, <2>1, HandlerDoes, UnmovedHeld DEF flags
  <2>2. CASE Push(busy.room, "relay") /\ UNCHANGED <<wait, missed>>
    BY <1>8, <2>2, HandlerDoes, RelayHeld DEF flags
  <2>3. CASE Push(busy.room, "call") /\ NotifyAll("sMq")
    BY <1>8, <2>3, HandlerDoes, SenderNotifiedHeld
  <2>4. QED
    BY <1>8, <2>1, <2>2, <2>3, HandlerDoes
<1>9. QED
  BY <1>1, <1>2, <1>3, <1>4, <1>5, <1>6, <1>7, <1>8 DEF LoopStep, LoopEvent

(* The sender changes its queue only on the way through its gate.          *)
LEMMA SleepSender ==
  ASSUME TypeOK, SleepInv, SenderStep \/ UseDeleted
  PROVE  SleepInv'
<1> USE GateNames
<1>1. CASE LookUpRoom
  BY <1>1, UnmovedHeld DEF LookUpRoom
<1>2. CASE UseDeleted
  BY <1>2, UnmovedHeld DEF UseDeleted
<1>3. CASE Take \/ SenderEnds \/ Deliver
  <2> SUFFICES ASSUME NEW h \in Gate PROVE Held(h)'
    BY DEF SleepInv
  <2>1. /\ \E w \in {"idle", "test"} : At("sMq", w)
        /\ UNCHANGED <<missed, flags>>
    BY <1>3 DEF Take, SenderEnds, Deliver, BackAtGate
  <2>2. wait'["sMq"] \notin Waiting /\ \A g \in Gate \ {"sMq"} : wait'[g] = wait[g]
    BY <2>1, AtType DEF States, Waiting
  <2>3. CASE h = "sMq"
    BY <2>2, <2>3 DEF Held
  <2>4. CASE h # "sMq"
    <3>1. Condition(h)' = Condition(h)
      BY <2>1, <2>4 DEF Condition, Gate, flags
    <3>2. QED
      BY <2>1, <2>2, <2>4, <3>1 DEF SleepInv, Held
  <2>5. QED
    BY <2>3, <2>4
<1>4. QED
  BY <1>1, <1>2, <1>3 DEF SenderStep

LEMMA SleepGate ==
  ASSUME TypeOK, SleepInv, NEW g \in Gate, WaiterStep(g) \/ WakeSpuriously(g)
  PROVE  SleepInv'
<1>1. CASE Test(g)
  <2> SUFFICES ASSUME NEW h \in Gate PROVE Held(h)'
    BY DEF SleepInv
  <2>1. \A k \in Gate : Condition(k)' = Condition(k)
    BY <1>1 DEF Test, flags, Condition, Gate
  <2>2. CASE h = g
    <3>1. Condition(g) => wait'[g] = "through"
      BY <1>1, AtType DEF Test, States
    <3>2. QED
      BY <2>1, <2>2, <3>1 DEF Held, Waiting
  <2>3. CASE h # g
    <3>1. wait'[h] = wait[h] /\ missed'[h] = missed[h]
      BY <1>1, <2>3, AtType DEF Test, States, TypeOK
    <3>2. QED
      BY <1>1, <2>1, <3>1, StillHeld DEF Test, flags
  <2>4. QED
    BY <2>2, <2>3
<1>2. CASE Sleep(g)
  <2> SUFFICES ASSUME NEW h \in Gate PROVE Held(h)'
    BY DEF SleepInv
  <2>1. Condition(h)' = Condition(h) /\ missed' = missed
    BY <1>2 DEF Sleep, flags, Condition, Gate
  <2>2. wait'[h] \in Waiting => wait[h] \in Waiting
    BY <1>2, AtType DEF Sleep, States, Waiting
  <2>3. SilentWork' = SilentWork /\ stopping' = stopping
    BY <1>2 DEF Sleep, SilentWork, flags
  <2>4. QED
    BY <2>1, <2>2, <2>3 DEF SleepInv, Held
<1>3. CASE WakeSpuriously(g)
  BY <1>3, MovedHeld DEF WakeSpuriously, States, Waiting
<1>4. QED
  BY <1>1, <1>2, <1>3 DEF WaiterStep

LEMMA SleepStep == TypeOK /\ SleepInv /\ [Next]_vars => SleepInv'
<1> SUFFICES ASSUME TypeOK, SleepInv, [Next]_vars PROVE SleepInv'
  OBVIOUS
<1>1. CASE UNCHANGED vars
  BY <1>1, UnmovedHeld DEF vars
<1>2. CASE Next
  BY <1>2, SleepApp, SleepLoop, SleepSender, SleepGate DEF Next
<1>3. QED
  BY <1>1, <1>2

(* The application's thread, the sender and the future of stopapp sleep    *)
(* over a condition that holds only after a notification fell between test *)
(* and wait, or, the sender, over relays alone.                            *)
THEOREM SleepersMissed == Spec => []AsleepOnlyIfMissed
<1>1. SleepInv => AsleepOnlyIfMissed
  BY DEF SleepInv, Held, AsleepOnlyIfMissed, Waiting
<1>2. QED
  BY <1>1, SleepInit, SleepStep, TypeInit, TypeStep, PTL DEF Spec

----------------------------------------------------------------------------
(* Ending: a task in the queue or in the sender's hands is about a room    *)
(* the node is in or has left; a handler is busy with a room the node is   *)
(* in, unless it has been left since; the steps of exit() come after the   *)
(* stop; what the sender uses is deleted only by leaving its room or by    *)
(* exit().                                                                 *)
Known == rooms \cup left

QueueKnown == \A i \in DOMAIN smq : smq[i].room \in Known
TaskKnown == sender \in {"got", "sending"} => task.room \in Known
BusyKnown ==
  loop \in Handling => IF overtaken THEN busy.room \in left ELSE busy.room \in rooms
ExitStops == app \in Exiting \cup {"done"} => stopping
FreedHasCause == freed => sender = "sending" /\ (task.room \in left \/ stopping)

CauseInv == QueueKnown /\ TaskKnown /\ BusyKnown /\ ExitStops /\ FreedHasCause

LEMMA CauseFrame ==
  ASSUME CauseInv, UNCHANGED loopVars,
         UNCHANGED <<smq, sender, task, app, stopping, freed, rooms, left>>
  PROVE  CauseInv'
  BY DEF CauseInv, QueueKnown, TaskKnown, BusyKnown, ExitStops, FreedHasCause, Known,
     loopVars

(* A task about a room the node is in, or has left, is queued.             *)
LEMMA PushKnown ==
  ASSUME TypeOK, CauseInv, NEW r \in Known, NEW by \in {"call", "relay", "sender"},
         Push(r, by), UNCHANGED <<rooms, left>>
  PROVE  QueueKnown'
<1>1. smq \in Seq(Task) /\ r \in Room
  BY DEF TypeOK, Known
<1>2. smq' = Append(smq, [room |-> r, by |-> by])
  BY DEF Push
<1>3. SUFFICES ASSUME NEW i \in DOMAIN smq' PROVE smq'[i].room \in Known'
  BY DEF QueueKnown
<1>4. CASE i \in DOMAIN smq
  BY <1>1, <1>2, <1>4 DEF CauseInv, QueueKnown, Known
<1>5. CASE i = Len(smq) + 1
  BY <1>1, <1>2, <1>5 DEF Known
<1>6. QED
  BY <1>1, <1>2, <1>4, <1>5

LEMMA CauseInit == Init => CauseInv
  BY DEF Init, CauseInv, QueueKnown, TaskKnown, BusyKnown, ExitStops, FreedHasCause, Exiting,
     Handling

LEMMA CauseApp ==
  ASSUME TypeOK, CauseInv, AppStep \/ AppCall
  PROVE  CauseInv'
<1> USE DEF loopVars
<1>1. CASE Created \/ JoinSender \/ CancelIdler \/ PushCleanup \/ FutureReady \/ StopLoop
  <2>1. ExitStops'
    BY <1>1 DEF Created, JoinSender, CancelIdler, PushCleanup, FutureReady, StopLoop,
       CauseInv, ExitStops, Exiting, flags
  <2>2. UNCHANGED <<smq, sender, task, freed, stopping, rooms, left>>
    BY <1>1 DEF Created, JoinSender, CancelIdler, PushCleanup, FutureReady, StopLoop,
       flags, roomVars, senderVars
  <2>3. UNCHANGED loopVars
    BY <1>1 DEF Created, JoinSender, CancelIdler, PushCleanup, FutureReady, StopLoop
  <2>4. QED
    BY <2>1, <2>2, <2>3 DEF CauseInv, QueueKnown, TaskKnown, BusyKnown, FreedHasCause, Known
<1>2. CASE JoinRoomWS
  <2>1. ExitStops'
    BY <1>2 DEF JoinRoomWS, ExitStops, Exiting
  <2>2. QED
    BY <1>2, <2>1 DEF JoinRoomWS, CauseInv, QueueKnown, TaskKnown, BusyKnown, FreedHasCause,
       Known, flags, senderVars
<1>3. CASE LeaveRoomWS
  <2>1. ExitStops'
    BY <1>3 DEF LeaveRoomWS, ExitStops, Exiting
  <2>2. Known' = Known
    BY <1>3 DEF LeaveRoomWS, Known
  <2>3. UNCHANGED <<smq, sender, task, stopping>>
    BY <1>3 DEF LeaveRoomWS, flags
  <2>4. FreedHasCause'
    BY <1>3, <2>3 DEF LeaveRoomWS, CauseInv, FreedHasCause, Sending
  <2>5. BusyKnown'
    BY <1>3 DEF LeaveRoomWS, CauseInv, BusyKnown, Handling
  <2>6. QED
    BY <2>1, <2>2, <2>3, <2>4, <2>5 DEF CauseInv, QueueKnown, TaskKnown
<1>4. CASE ClearPeers
  <2>1. ExitStops' /\ stopping' = stopping /\ stopping
    BY <1>4 DEF ClearPeers, CauseInv, ExitStops, Exiting, flags
  <2>2. FreedHasCause'
    BY <1>4, <2>1 DEF ClearPeers, CauseInv, FreedHasCause
  <2>3. QED
    BY <1>4, <2>1, <2>2 DEF ClearPeers, CauseInv, QueueKnown, TaskKnown, BusyKnown, Known,
       roomVars
<1>5. CASE Stop
  BY <1>5 DEF Stop, CauseInv, QueueKnown, TaskKnown, BusyKnown, ExitStops, FreedHasCause, Known,
     roomVars, senderVars
<1>6. ASSUME NEW r \in Room, Broadcast2Room(r)
      PROVE  CauseInv'
  <2>1. QueueKnown'
    BY <1>6, PushKnown DEF Broadcast2Room, Known, roomVars
  <2>2. QED
    BY <1>6, <2>1 DEF Broadcast2Room, CauseInv, TaskKnown, BusyKnown, ExitStops, FreedHasCause,
       Known, flags, roomVars, senderVars
<1>7. ASSUME NEW r \in Room, AddCallback(r)
      PROVE  CauseInv'
  BY <1>7, CauseFrame DEF AddCallback, flags, senderVars
<1>8. ASSUME NEW r \in Room, NEW op \in Joining, WaitForOnline(r, op)
      PROVE  CauseInv'
  <2>1. ExitStops'
    BY <1>8 DEF WaitForOnline, ExitStops, Exiting, Joining
  <2>2. QED
    BY <1>8, <2>1 DEF WaitForOnline, CauseInv, QueueKnown, TaskKnown, BusyKnown, FreedHasCause,
       Known, flags, roomVars, senderVars
<1>9. QED
  BY <1>1, <1>2, <1>3, <1>4, <1>5, <1>6, <1>7, <1>8 DEF AppStep, AppCall

LEMMA CauseLoop ==
  ASSUME TypeOK, CauseInv, LoopStep \/ LoopEvent
  PROVE  CauseInv'
<1> USE DEF loopVars
<1>1. CASE Construct \/ RunCleanup \/ LoopEnds \/ GoOnline \/ ConnectionError
  <2>1. UNCHANGED <<smq, sender, task, app, stopping, freed, rooms, left>>
    BY <1>1 DEF Construct, RunCleanup, LoopEnds, GoOnline, Wakeup, ConnectionError,
       flags, roomVars, senderVars
  <2>2. BusyKnown'
    <3>1. UNCHANGED loopVars \/ loop' \notin Handling
      BY <1>1 DEF Construct, RunCleanup, LoopEnds, GoOnline, ConnectionError, Handling
    <3>2. QED
      BY <2>1, <3>1 DEF CauseInv, BusyKnown
  <2>3. QED
    BY <2>1, <2>2 DEF CauseInv, QueueKnown, TaskKnown, ExitStops, FreedHasCause, Known
<1>2. ASSUME NEW r \in Room,
             \/ OnCreatedConnection(r)
             \/ \E to \in Addressee : HandleLogic(r, to)
      PROVE  CauseInv'
  <2>1. UNCHANGED <<smq, sender, task, app, stopping, freed, rooms, left>>
    BY <1>2 DEF OnCreatedConnection, HandleLogic, flags, roomVars, senderVars
  <2>2. BusyKnown'
    BY <1>2, <2>1 DEF OnCreatedConnection, HandleLogic, Find, KnowsRoom, Listening,
       BusyKnown, Handling
  <2>3. QED
    BY <2>1, <2>2 DEF CauseInv, QueueKnown, TaskKnown, ExitStops, FreedHasCause, Known
<1>3. CASE HandlerStep
  <2>1. UNCHANGED <<sender, task, app, stopping, freed, rooms, left>>
    BY <1>3, HandlerDoes
  <2>2. busy.room \in Known
    BY <1>3 DEF CauseInv, BusyKnown, Known, HandlerStep, ReadRoom, GetToAnnounce,
       PutAnnouncement, GetToHandle, UseRoom, CallBack, Handling
  <2>3. QueueKnown'
    <3>1. CASE smq' = smq
      BY <2>1, <3>1 DEF CauseInv, QueueKnown, Known
    <3>2. CASE \E by \in {"call", "relay"} : Push(busy.room, by)
      BY <2>1, <2>2, <3>2, PushKnown
    <3>3. QED
      BY <1>3, <3>1, <3>2, HandlerDoes
  <2>4. BusyKnown'
    BY <1>3, <2>1 DEF CauseInv, BusyKnown, HandlerStep, ReadRoom, GetToAnnounce,
       PutAnnouncement, GetToHandle, UseRoom, CallBack, UseOvertaken, Find, GoOn, Return,
       loopVars, Handling
  <2>5. QED
    BY <2>1, <2>3, <2>4 DEF CauseInv, TaskKnown, ExitStops, FreedHasCause, Known
<1>4. QED
  BY <1>1, <1>2, <1>3 DEF LoopStep, LoopEvent

LEMMA CauseSender ==
  ASSUME TypeOK, CauseInv, SenderStep \/ UseDeleted
  PROVE  CauseInv'
<1> USE DEF loopVars
<1>1. CASE Take
  <2>1. smq \in Seq(Task) /\ smq # << >> /\ sender # "sending"
    BY <1>1 DEF Take, TypeOK
  <2>2. smq[1].room \in Known /\ task' = smq[1]
    BY <1>1, <2>1 DEF Take, CauseInv, QueueKnown
  <2>3. QueueKnown'
    <3>1. \A i \in DOMAIN smq' : smq'[i] = smq[i + 1] /\ i + 1 \in DOMAIN smq
      BY <1>1, <2>1 DEF Take
    <3>2. QED
      BY <1>1, <3>1 DEF Take, CauseInv, QueueKnown, Known, roomVars
  <2>4. QED
    BY <1>1, <2>1, <2>2, <2>3 DEF Take, CauseInv, TaskKnown, BusyKnown, ExitStops,
       FreedHasCause, Known, flags, roomVars
<1>2. CASE SenderEnds
  <2>1. sender # "sending"
    BY <1>2 DEF SenderEnds, TypeOK
  <2>2. QED
    BY <1>2, <2>1 DEF SenderEnds, CauseInv, QueueKnown, TaskKnown, BusyKnown, ExitStops,
       FreedHasCause, Known, flags, roomVars
<1>3. CASE LookUpRoom
  <2>1. UNCHANGED <<smq, task, app, stopping, rooms, left, loop, busy, overtaken>>
    BY <1>3 DEF LookUpRoom, flags, roomVars
  <2>2. sender = "got" /\ sender' \in {"got", "sending"}
    BY <1>3 DEF LookUpRoom
  <2>3. PeersDeleted => stopping
    BY DEF PeersDeleted, CauseInv, ExitStops
  <2>4. FreedHasCause'
    BY <1>3, <2>1, <2>2, <2>3 DEF LookUpRoom, CauseInv, FreedHasCause
  <2>5. QED
    BY <2>1, <2>2, <2>4 DEF CauseInv, QueueKnown, TaskKnown, BusyKnown, ExitStops, Known
<1>4. CASE Deliver
  <2>1. /\ task \in Task /\ task.room \in Known /\ smq \in Seq(Task)
    BY <1>4 DEF Deliver, TypeOK, CauseInv, TaskKnown
  <2>2. /\ sender' = "loop" /\ freed' = FALSE
        /\ UNCHANGED <<app, stopping, rooms, left, loop, busy, overtaken>>
    BY <1>4 DEF Deliver, BackAtGate, flags, roomVars
  <2>3. Retried(task).room = task.room /\ Retried(task) \in Task
    BY <2>1 DEF Retried, Task
  <2>4. QueueKnown'
    <3>1. CASE smq' = smq
      BY <2>2, <3>1 DEF CauseInv, QueueKnown, Known
    <3>2. CASE smq' = Append(smq, Retried(task))
      <4> SUFFICES ASSUME NEW i \in DOMAIN smq' PROVE smq'[i].room \in Known
        BY <2>2 DEF QueueKnown, Known
      <4>1. CASE i \in DOMAIN smq
        BY <2>1, <2>3, <3>2, <4>1 DEF CauseInv, QueueKnown
      <4>2. CASE i = Len(smq) + 1
        BY <2>1, <2>3, <3>2, <4>2
      <4>3. QED
        BY <2>1, <2>3, <3>2, <4>1, <4>2
    <3>3. QED
      BY <1>4, <3>1, <3>2 DEF Deliver
  <2>5. QED
    BY <2>2, <2>4 DEF CauseInv, TaskKnown, BusyKnown, ExitStops, FreedHasCause
<1>5. CASE UseDeleted
  BY <1>5, CauseFrame DEF UseDeleted, flags, roomVars, senderVars
<1>6. QED
  BY <1>1, <1>2, <1>3, <1>4, <1>5 DEF SenderStep

LEMMA CauseStep == TypeOK /\ CauseInv /\ [Next]_vars => CauseInv'
<1> SUFFICES ASSUME TypeOK, CauseInv, [Next]_vars PROVE CauseInv'
  OBVIOUS
<1>1. CASE UNCHANGED vars
  BY <1>1, CauseFrame DEF vars, flags, roomVars, senderVars
<1>2. ASSUME NEW g \in Gate, WaiterStep(g) \/ WakeSpuriously(g)
      PROVE  CauseInv'
  BY <1>2, CauseFrame DEF WaiterStep, Test, Sleep, WakeSpuriously, flags, roomVars,
     senderVars
<1>3. QED
  BY <1>1, <1>2, CauseApp, CauseLoop, CauseSender DEF Next

(* A step that ends the process does so for a reason AbortHasCause allows. *)
LEMMA AbortStep ==
  ASSUME TypeOK, CauseInv, AbortHasCause, [Next]_vars
  PROVE  AbortHasCause'
<1>1. CASE UNCHANGED vars
  BY <1>1 DEF vars, AbortHasCause, Running, loopVars, flags, roomVars
<1>2. CASE aborted' = Running
  BY <1>2 DEF AbortHasCause, Running
<1>3. CASE aborted = Running /\ aborted' # Running /\ LeaveRoomWS
  BY <1>3 DEF LeaveRoomWS, Abort, AbortHasCause
<1>4. ASSUME NEW r \in Room, aborted = Running, aborted' # Running,
             OnCreatedConnection(r)
      PROVE  AbortHasCause'
  BY <1>4 DEF OnCreatedConnection, Find, Abort, AbortHasCause
<1>5. CASE aborted = Running /\ aborted' # Running /\ HandlerStep
  <2>1. UNCHANGED <<rooms, callbacks, left>>
    BY <1>5, HandlerDoes
  <2>2. loop \in Handling /\ (overtaken => busy.room \in left)
        /\ (~overtaken => busy.room \in rooms)
    BY <1>5 DEF CauseInv, BusyKnown, HandlerStep, ReadRoom, GetToAnnounce,
       PutAnnouncement, GetToHandle, UseRoom, CallBack, Handling
  <2>3. CASE ReadRoom \/ GetToAnnounce \/ PutAnnouncement
    <3>1. Abort("opening", busy.room) /\ busy.room \in left
      BY <1>5, <2>2, <2>3 DEF ReadRoom, GetToAnnounce, PutAnnouncement, UseOvertaken,
         Find, GoOn, Return
    <3>2. QED
      BY <2>1, <3>1 DEF Abort, AbortHasCause
  <2>4. CASE GetToHandle \/ UseRoom \/ CallBack
    <3>1. /\ Abort("handler", busy.room) /\ overtaken' = overtaken
          /\ overtaken \/ busy.room \in rooms \ callbacks
      BY <1>5, <2>2, <2>4 DEF GetToHandle, UseRoom, CallBack, UseOvertaken, Find, GoOn,
         Return, loopVars
    <3>2. QED
      BY <2>1, <3>1 DEF Abort, AbortHasCause
  <2>5. QED
    BY <1>5, <2>3, <2>4 DEF HandlerStep
<1>6. CASE aborted = Running /\ aborted' # Running /\ LookUpRoom
  BY <1>6 DEF LookUpRoom, Abort, AbortHasCause, CauseInv, TaskKnown, Known, roomVars
<1>7. CASE aborted = Running /\ aborted' # Running /\ UseDeleted
  BY <1>7 DEF UseDeleted, Abort, AbortHasCause, CauseInv, FreedHasCause, roomVars, flags
<1>8. CASE \/ Created \/ JoinRoomWS \/ ClearPeers \/ CancelIdler \/ PushCleanup
           \/ FutureReady \/ StopLoop \/ JoinSender \/ AppCall
           \/ Construct \/ RunCleanup \/ LoopEnds \/ GoOnline \/ ConnectionError
           \/ \E r \in Room, to \in Addressee : HandleLogic(r, to)
           \/ Take \/ SenderEnds \/ Deliver
           \/ \E g \in Gate : WaiterStep(g) \/ WakeSpuriously(g)
  <2>1. aborted' = aborted
    BY <1>8 DEF Created, JoinRoomWS, ClearPeers, CancelIdler, PushCleanup, FutureReady,
       StopLoop, JoinSender, AppCall, Stop, Broadcast2Room, AddCallback, WaitForOnline,
       Construct, RunCleanup, LoopEnds, GoOnline, ConnectionError, HandleLogic, Take,
       SenderEnds, Deliver, WaiterStep, Test, Sleep, WakeSpuriously
  <2>2. QED
    BY <1>1, <1>2, <2>1 DEF Next
<1>9. QED
  BY <1>1, <1>2, <1>3, <1>4, <1>5, <1>6, <1>7, <1>8
  DEF Next, AppStep, LoopStep, LoopEvent, SenderStep

(* The process is ended only over a room that was left, while the node is  *)
(* stopped, or by the handler of a message whose room was left since the   *)
(* handler last found it, or has no callback yet.                          *)
THEOREM AbortsCaused == Spec => []AbortHasCause
<1>1. Init => AbortHasCause
  BY DEF Init, AbortHasCause
<1>2. QED
  BY <1>1, CauseInit, CauseStep, AbortStep, TypeInit, TypeStep, PTL DEF Spec
=============================================================================
