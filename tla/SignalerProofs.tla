--------------------------- MODULE SignalerProofs ---------------------------
(***************************************************************************)
(* Critical[room] is a lock, a user has one document, a member that was    *)
(* freed stays away, and the degree of a member counts its links and is    *)
(* bounded; for every number of sockets, users and joins.                  *)
(***************************************************************************)
EXTENDS Signaler, FiniteSetTheorems, Functions, TLAPS

JoinPCs == {"none", "indexing", "joining", "retry", "done", "failed"} \cup JoinSection
FreePCs == {"none", "wait", "done", "failed"} \cup FreeSection

(* The types the arguments below rest on; of a document only whose it is   *)
(* matters.                                                                *)
Typed ==
  /\ status \in [Sockets -> {"connected", "announced", "gone"}]
  /\ critical \in BOOLEAN
  /\ jpc \in [Joins -> JoinPCs]
  /\ fpc \in [Sockets -> FreePCs]

DocOf(d) == d.addr \in Sockets /\ d.sock_id = UserOf[d.addr]
DocsTyped == \A d \in docs : DocOf(d)

(* Updates other than an insertion or a deletion keep whose documents      *)
(* there are.                                                              *)
SameOwner(d, e) == d.addr = e.addr /\ d.sock_id = e.sock_id

LEMMA JoinType ==
  ASSUME NEW t \in Joins
  PROVE  t[1] \in Sockets /\ User(t) \in Users
<1>1. PICK s \in Sockets : t \in {s} \X (1 .. MaxJoins[s])
  BY DEF Joins
<1>2. t[1] = s
  BY <1>1
<1>3. QED
  BY <1>1, <1>2, UserOfAssumption DEF User

LEMMA TypedInit == Init => Typed /\ OneSectionAtATime
  BY DEF Init, Typed, OneSectionAtATime, JoinsInside, FreesInside,
         JoinSection, FreeSection, JoinPCs, FreePCs

(* The shape all steps of joins share: one join moves, enters its section  *)
(* only from the unlocked state, and unlocks only when it leaves it.       *)
LEMMA JoinMove ==
  ASSUME Typed, OneSectionAtATime, NEW t \in Joins, NEW v \in JoinPCs,
         jpc' = [jpc EXCEPT ![t] = v], fpc' = fpc, status' = status,
         critical' \in BOOLEAN,
         v \in JoinSection => critical' /\ (jpc[t] \in JoinSection \/ ~critical),
         critical => critical' \/ (jpc[t] \in JoinSection /\ v \notin JoinSection)
  PROVE  Typed' /\ OneSectionAtATime'
<1>1. Typed'
  BY DEF Typed
<1>2. FreesInside' = FreesInside
  BY DEF FreesInside
<1>3. JoinsInside' = IF v \in JoinSection THEN JoinsInside \cup {t}
                                          ELSE JoinsInside \ {t}
  BY DEF JoinsInside, Typed
<1>4. jpc[t] \in JoinSection <=> t \in JoinsInside
  BY DEF JoinsInside
<1>5. OneSectionAtATime'
  BY <1>2, <1>3, <1>4 DEF OneSectionAtATime
<1>6. QED
  BY <1>1, <1>5

(* The same of the steps of free(); only Disconnect changes the status.    *)
LEMMA FreeMove ==
  ASSUME Typed, OneSectionAtATime, NEW s \in Sockets, NEW v \in FreePCs,
         fpc' = [fpc EXCEPT ![s] = v], jpc' = jpc,
         status' \in [Sockets -> {"connected", "announced", "gone"}],
         critical' \in BOOLEAN,
         v \in FreeSection => critical' /\ (fpc[s] \in FreeSection \/ ~critical),
         critical => critical' \/ (fpc[s] \in FreeSection /\ v \notin FreeSection)
  PROVE  Typed' /\ OneSectionAtATime'
<1>1. Typed'
  BY DEF Typed
<1>2. JoinsInside' = JoinsInside
  BY DEF JoinsInside
<1>3. FreesInside' = IF v \in FreeSection THEN FreesInside \cup {s}
                                          ELSE FreesInside \ {s}
  BY DEF FreesInside, Typed
<1>4. fpc[s] \in FreeSection <=> s \in FreesInside
  BY DEF FreesInside
<1>5. OneSectionAtATime'
  BY <1>2, <1>3, <1>4 DEF OneSectionAtATime
<1>6. QED
  BY <1>1, <1>5

(* A step of a join keeps the lock.                                        *)
LEMMA LockJoinStep ==
  ASSUME Typed, OneSectionAtATime, NEW t \in Joins,
         JoinRequest(t) \/ JoinStep(t) \/ JoinDbError(t)
  PROVE  Typed' /\ OneSectionAtATime'
<1> USE JoinMove
<1>1. CASE JoinRequest(t)
  BY <1>1 DEF JoinRequest, EnterRoom, freeVars, JoinPCs, JoinSection, Typed
<1>2. CASE Indexed(t)
  BY <1>2 DEF Indexed, EnterRoom, freeVars, JoinPCs, JoinSection, Typed
<1>3. CASE BroadcastInRoom(t)
  BY <1>3 DEF BroadcastInRoom, freeVars, JoinPCs, JoinSection, Typed
<1>4. CASE Pick(t)
  <2>1. critical
    BY <1>4 DEF Pick, OneSectionAtATime, JoinsInside, JoinSection
  <2>2. QED
    BY <1>4, <2>1 DEF Pick, freeVars, JoinPCs, JoinSection, Typed
<1>5. CASE UpdateOwn(t)
  <2>1. critical
    BY <1>5 DEF UpdateOwn, OneSectionAtATime, JoinsInside, JoinSection
  <2>2. QED
    BY <1>5, <2>1 DEF UpdateOwn, FinishJoin, freeVars, JoinPCs, JoinSection, Typed
<1>6. CASE InsertOwn(t)
  BY <1>6 DEF InsertOwn, FinishJoin, freeVars, JoinPCs, JoinSection, Typed
<1>7. CASE JoinDbError(t)
  BY <1>7 DEF JoinDbError, freeVars, JoinPCs, JoinSection, Typed
<1>8. QED
  BY <1>1, <1>2, <1>3, <1>4, <1>5, <1>6, <1>7 DEF JoinStep

(* So does a step of a socket or of its free().                            *)
LEMMA LockSocketStep ==
  ASSUME Typed, OneSectionAtATime, NEW s \in Sockets,
         SocketStep(s) \/ FreeStep(s) \/ FreeDbError(s)
  PROVE  Typed' /\ OneSectionAtATime'
<1> USE FreeMove DEF joinVars, FreePCs, FreeSection, Typed
<1>0. fpc[s] \in FreeSection => critical
  BY DEF OneSectionAtATime, FreesInside
<1>1. CASE Announce(s)
  BY <1>1 DEF Announce, freeVars, OneSectionAtATime, JoinsInside, FreesInside
<1>2. CASE Leave(s)
  BY <1>2 DEF Leave, freeVars, OneSectionAtATime, JoinsInside, FreesInside
<1>3. CASE Disconnect(s)
  <2>1. CASE FreeStart(s)
    BY <1>3, <2>1 DEF Disconnect, FreeStart
  <2>2. CASE UNCHANGED <<fpc, critical>>
    BY <1>3, <2>2 DEF Disconnect, OneSectionAtATime, JoinsInside, FreesInside
  <2>3. QED
    BY <1>3, <2>1, <2>2 DEF Disconnect
<1>4. CASE FreeRetry(s)
  BY <1>4 DEF FreeRetry, FreeStart
<1>5. CASE FreeDelete(s)
  BY <1>5, <1>0 DEF FreeDelete
<1>6. CASE FreeAggregate(s)
  BY <1>6, <1>0 DEF FreeAggregate, FinishFree
<1>7. CASE FreePull(s)
  BY <1>7, <1>0 DEF FreePull
<1>8. CASE FreeRepick(s)
  <2>1. PICK m \in work[s].repick : RepickNone(s, m) \/ RepickOne(s, m)
    BY <1>8 DEF FreeRepick
  <2>2. fpc[s] = "repick" /\ jpc' = jpc /\ status' = status
    BY <1>8 DEF FreeRepick
  <2>3. CASE RepickNone(s, m)
    BY <2>2, <2>3, <1>0 DEF RepickNone, NextRepick, FinishFree
  <2>4. CASE RepickOne(s, m)
    BY <2>2, <2>4, <1>0 DEF RepickOne
  <2>5. QED
    BY <2>1, <2>3, <2>4
<1>9. CASE FreeLink(s)
  BY <1>9, <1>0 DEF FreeLink, NextRepick, FinishFree
<1>10. CASE FreeDbError(s)
  BY <1>10 DEF FreeDbError
<1>11. QED
  BY <1>1, <1>2, <1>3, <1>4, <1>5, <1>6, <1>7, <1>8, <1>9, <1>10
     DEF SocketStep, FreeStep

LEMMA LockStep ==
  Typed /\ OneSectionAtATime /\ [Next]_vars => Typed' /\ OneSectionAtATime'
<1> SUFFICES ASSUME Typed, OneSectionAtATime, [Next]_vars
             PROVE  Typed' /\ OneSectionAtATime'
  OBVIOUS
<1>1. CASE UNCHANGED vars
  BY <1>1 DEF vars, joinVars, freeVars, Typed, OneSectionAtATime,
              JoinsInside, FreesInside
<1>2. QED
  BY <1>1, LockJoinStep, LockSocketStep DEF Next

(* Critical[room] excludes: at most one join or free of the room is        *)
(* between its database calls.                                             *)
THEOREM MutualExclusion == Spec => []OneSectionAtATime
  BY TypedInit, LockStep, PTL DEF Spec

----------------------------------------------------------------------------
(* Whose documents there are.                                              *)

\* free() has deleted the document of its socket.
Deleted == {"aggregate", "pull", "repick", "link", "done"}

\* Between findOneAndUpdate and insertOne nobody else inserts.
InsertIsNew ==
  \A t \in Joins : jpc[t] = "insert" => \A d \in docs : d.sock_id # User(t)

\* What was deleted stays deleted, because a socket that is gone does not
\* enter the section of a join again.
DeletedStayOut ==
  \A s \in Sockets :
    /\ fpc[s] # "none" => status[s] = "gone"
    /\ fpc[s] \in Deleted => \A d \in docs : d.addr # s
    /\ fpc[s] = "done" => \A t \in Joins : t[1] = s => jpc[t] \notin JoinSection

\* Del is only set while free() is inside its section.
DelInside ==
  /\ del \in [Sockets -> BOOLEAN]
  /\ \A s \in Sockets : fpc[s] \in {"none", "wait", "done"} => ~del[s]

RegInv ==
  /\ Typed /\ OneSectionAtATime
  /\ DocsTyped /\ OneDocPerUser
  /\ InsertIsNew /\ DeletedStayOut /\ DelInside

\* A step that brings in nobody's document.
NoNewOwner == \A d \in docs' : \E e \in docs : SameOwner(d, e)

(* $inc and $push on one document change no owner.                         *)
LEMMA ReplaceKeepsOwners ==
  ASSUME OneDocPerUser, NEW cl \in docs, NEW us,
         docs' = (docs \ {cl}) \cup {Pushed(cl, us)}
  PROVE  OneDocPerUser' /\ NoNewOwner
  BY DEF OneDocPerUser, NoNewOwner, SameOwner, Pushed, Relinked

LEMMA UpdateOneKeepsOwners ==
  ASSUME OneDocPerUser, NEW matching \in SUBSET docs, NEW us, UpdateOne(matching, us)
  PROVE  OneDocPerUser' /\ NoNewOwner
<1>1. CASE docs' = docs
  BY <1>1 DEF OneDocPerUser, NoNewOwner, SameOwner
<1>2. CASE \E d \in matching : docs' = (docs \ {d}) \cup {Pushed(d, us)}
  BY <1>2, ReplaceKeepsOwners
<1>3. QED
  BY <1>1, <1>2 DEF UpdateOne

(* Every step of a join but its insertion.                                 *)
LEMMA JoinKeepsOwners ==
  ASSUME OneDocPerUser, NEW t \in Joins,
         JoinRequest(t) \/ (JoinStep(t) /\ ~InsertOwn(t)) \/ JoinDbError(t)
  PROVE  OneDocPerUser' /\ NoNewOwner
<1>1. CASE docs' = docs
  BY <1>1 DEF OneDocPerUser, NoNewOwner, SameOwner
<1>2. CASE Pick(t)
  <2>1. CASE \E cl \in Pickable(User(t)) :
               docs' = (docs \ {cl}) \cup {Pushed(cl, {User(t)})}
    BY <2>1, ReplaceKeepsOwners DEF Pickable
  <2>2. QED
    BY <1>1, <1>2, <2>1 DEF Pick
<1>3. CASE UpdateOwn(t)
  BY <1>3, UpdateOneKeepsOwners DEF UpdateOwn
<1>4. QED
  BY <1>1, <1>2, <1>3
     DEF JoinStep, JoinRequest, Indexed, BroadcastInRoom, JoinDbError

(* Every step of a socket and of its free().                               *)
LEMMA FreeKeepsOwners ==
  ASSUME OneDocPerUser, NEW s \in Sockets,
         SocketStep(s) \/ FreeStep(s) \/ FreeDbError(s)
  PROVE  OneDocPerUser' /\ NoNewOwner
<1>1. CASE docs' \in SUBSET docs
  BY <1>1 DEF OneDocPerUser, NoNewOwner, SameOwner
<1>2. CASE FreePull(s)
  <2>1. PICK m \in work[s].pull :
          docs' = {IF d.addr = m.addr /\ d.sock_id = m.sock_id THEN Pulled(d, m.rest) ELSE d :
                   d \in docs}
    BY <1>2 DEF FreePull
  <2>2. QED
    BY <2>1 DEF OneDocPerUser, NoNewOwner, SameOwner, Pulled, Relinked
<1>3. CASE FreeRepick(s)
  <2>1. PICK m \in work[s].repick : RepickNone(s, m) \/ RepickOne(s, m)
    BY <1>3 DEF FreeRepick
  <2>2. CASE RepickNone(s, m)
    BY <1>1, <2>2 DEF RepickNone
  <2>3. CASE RepickOne(s, m)
    BY <2>3, ReplaceKeepsOwners DEF RepickOne, Pickable
  <2>4. QED
    BY <2>1, <2>2, <2>3
<1>4. CASE FreeLink(s)
  <2>1. PICK l \in work[s].link : UpdateOne({d \in docs : d.sock_id = l.of.addr}, {l.user})
    BY <1>4 DEF FreeLink
  <2>2. QED
    BY <2>1, UpdateOneKeepsOwners
<1>5. CASE FreeDelete(s)
  BY <1>1, <1>5 DEF FreeDelete
<1>6. QED
  BY <1>1, <1>2, <1>3, <1>4, <1>5
     DEF SocketStep, FreeStep, Announce, Leave, Disconnect, FreeRetry,
         FreeAggregate, FreeDbError

LEMMA RegInit == Init => RegInv
<1> SUFFICES ASSUME Init PROVE RegInv
  OBVIOUS
<1>1. Typed /\ OneSectionAtATime
  BY TypedInit
<1>2. DocsTyped /\ OneDocPerUser /\ InsertIsNew /\ DelInside
  BY DEF Init, DocsTyped, OneDocPerUser, InsertIsNew, DelInside
<1>3. DeletedStayOut
  BY DEF Init, DeletedStayOut, Deleted
<1>4. QED
  BY <1>1, <1>2, <1>3 DEF RegInv

(* Steps of a join: only insertOne adds an owner, and it adds a socket     *)
(* that is not being freed and a user without a document.                  *)
LEMMA RegJoinStep ==
  ASSUME RegInv, NEW t \in Joins,
         JoinRequest(t) \/ JoinStep(t) \/ JoinDbError(t)
  PROVE  RegInv'
<1> USE DEF RegInv
<1>1. Typed' /\ OneSectionAtATime'
  BY LockJoinStep
<1>2. UNCHANGED <<status, del, fpc>>
  BY DEF JoinStep, JoinRequest, Indexed, BroadcastInRoom, Pick, UpdateOwn, InsertOwn,
         JoinDbError, freeVars
<1>3. \A u \in Joins : u # t => jpc'[u] = jpc[u]
  BY DEF JoinStep, JoinRequest, Indexed, EnterRoom, BroadcastInRoom, Pick, UpdateOwn,
         InsertOwn, FinishJoin, JoinDbError, Typed
<1>4. t[1] \in Sockets /\ User(t) = UserOf[t[1]]
  BY JoinType DEF User
<1>5. DelInside'
  BY <1>2 DEF DelInside
<1>6. ASSUME jpc'[t] \in JoinSection
      PROVE  fpc[t[1]] # "done"
  <2>1. CASE jpc[t] \in JoinSection
    BY <2>1, <1>4 DEF DeletedStayOut
  <2>2. CASE jpc[t] \notin JoinSection
    <3>1. BroadcastInRoom(t)
      BY <1>6, <2>2 DEF JoinStep, JoinRequest, Indexed, EnterRoom, Pick, UpdateOwn,
                        InsertOwn, JoinDbError, Typed, JoinSection
    <3>2. Connected(t[1])
      BY <1>6, <2>2, <3>1 DEF BroadcastInRoom, Typed, JoinSection
    <3>3. QED
      BY <3>2, <1>4 DEF Connected, DeletedStayOut
  <2>3. QED
    BY <2>1, <2>2
<1>7. CASE ~InsertOwn(t)
  <2>1. OneDocPerUser' /\ NoNewOwner
    BY <1>7, JoinKeepsOwners
  <2>2. DocsTyped'
    BY <2>1 DEF DocsTyped, DocOf, NoNewOwner, SameOwner
  <2>3. InsertIsNew'
    <3>1. ASSUME NEW u \in Joins, jpc[u] = "insert"
          PROVE  \A d \in docs' : d.sock_id # User(u)
      BY <3>1, <2>1 DEF InsertIsNew, NoNewOwner, SameOwner
    <3>2. ASSUME jpc'[t] = "insert", jpc[t] # "insert"
          PROVE  \A d \in docs' : d.sock_id # User(t)
      <4>1. UpdateOwn(t) /\ {d \in docs : d.sock_id = User(t)} = {}
        BY <3>2, <1>7 DEF JoinStep, JoinRequest, Indexed, EnterRoom, BroadcastInRoom,
                          Pick, UpdateOwn, FinishJoin, JoinDbError, Typed
      <4>2. docs' = docs
        BY <4>1 DEF UpdateOwn, UpdateOne
      <4>3. QED
        BY <4>1, <4>2
    <3>3. QED
      BY <3>1, <3>2, <1>3 DEF InsertIsNew, User
  <2>4. DeletedStayOut'
    BY <2>1, <1>2, <1>3, <1>6 DEF DeletedStayOut, NoNewOwner, SameOwner
  <2>5. QED
    BY <1>1, <1>5, <2>1, <2>2, <2>3, <2>4
<1>8. CASE InsertOwn(t)
  <2>1. /\ jpc[t] = "insert" /\ jpc'[t] = "done"
        /\ docs' = docs \cup {NewDoc(t)}
    BY <1>8 DEF InsertOwn, FinishJoin, Typed
  <2>2. /\ NewDoc(t).addr = t[1] /\ NewDoc(t).sock_id = User(t)
        /\ \A d \in docs : d.sock_id # User(t)
    BY <2>1 DEF NewDoc, InsertIsNew
  <2>3. FreesInside = {} /\ \A u \in Joins : jpc[u] \in JoinSection => u = t
    BY <2>1 DEF OneSectionAtATime, JoinsInside, JoinSection
  <2>4. OneDocPerUser' /\ DocsTyped'
    BY <2>1, <2>2, <1>4 DEF OneDocPerUser, DocsTyped, DocOf
  <2>5. InsertIsNew'
    BY <2>1, <2>3, <1>3 DEF InsertIsNew, JoinSection
  <2>6. DeletedStayOut'
    <3>1. fpc[t[1]] \notin Deleted
      BY <2>1, <2>3, <1>4 DEF FreesInside, FreeSection, Deleted, DeletedStayOut, JoinSection
    <3>2. QED
      BY <3>1, <2>1, <2>2, <1>2, <1>3 DEF DeletedStayOut, JoinSection
  <2>7. QED
    BY <1>1, <1>5, <2>4, <2>5, <2>6
<1>9. QED
  BY <1>7, <1>8

(* Steps of a socket and its free(): only deleteOne enters Deleted.        *)
LEMMA RegFreeStep ==
  ASSUME RegInv, NEW s \in Sockets,
         SocketStep(s) \/ FreeStep(s) \/ FreeDbError(s)
  PROVE  RegInv'
<1> USE DEF RegInv
<1>1. Typed' /\ OneSectionAtATime'
  BY LockSocketStep
<1>2. OneDocPerUser' /\ NoNewOwner
  BY FreeKeepsOwners
<1>3. jpc' = jpc
  BY DEF SocketStep, FreeStep, Announce, Leave, Disconnect, FreeRetry, FreeDelete,
         FreeAggregate, FreePull, FreeRepick, FreeLink, FreeDbError, joinVars
<1>4. DocsTyped' /\ InsertIsNew'
  BY <1>2, <1>3 DEF DocsTyped, DocOf, InsertIsNew, NoNewOwner, SameOwner
<1>5. /\ \A r \in Sockets : r # s => fpc'[r] = fpc[r] /\ del'[r] = del[r]
      /\ \A r \in Sockets : status[r] = "gone" => status'[r] = "gone"
      /\ del' \in [Sockets -> BOOLEAN]
  <2>1. CASE SocketStep(s)
    BY <2>1 DEF SocketStep, Announce, Leave, Disconnect, Connected, FreeStart, freeVars,
                Typed, DelInside
  <2>2. CASE FreeRetry(s) \/ FreeDelete(s) \/ FreeAggregate(s) \/ FreePull(s)
    BY <2>2 DEF FreeRetry, FreeDelete, FreeAggregate, FreePull, FreeStart, FinishFree,
                Typed, DelInside
  <2>3. CASE FreeRepick(s)
    <3>1. PICK m \in work[s].repick : RepickNone(s, m) \/ RepickOne(s, m)
      BY <2>3 DEF FreeRepick
    <3>2. QED
      BY <2>3, <3>1 DEF FreeRepick, RepickNone, RepickOne, NextRepick, FinishFree,
                        Typed, DelInside
  <2>4. CASE FreeLink(s)
    BY <2>4 DEF FreeLink, NextRepick, FinishFree, Typed, DelInside
  <2>5. CASE FreeDbError(s)
    BY <2>5 DEF FreeDbError, Typed, DelInside
  <2>6. QED
    BY <2>1, <2>2, <2>3, <2>4, <2>5 DEF FreeStep
<1>6. /\ fpc'[s] # "none" => status'[s] = "gone"
      /\ fpc'[s] \in {"none", "wait", "done"} => ~del'[s]
      /\ fpc'[s] \in Deleted /\ fpc[s] \notin Deleted
           => fpc'[s] # "done" /\ \A d \in docs' : d.addr # s
      /\ fpc'[s] = "done" => fpc[s] = "done" \/ s \in FreesInside
  <2>1. CASE SocketStep(s)
    BY <2>1 DEF SocketStep, Announce, Leave, Disconnect, Connected, FreeStart, freeVars,
                Typed, DelInside, DeletedStayOut, Deleted
  <2>2. CASE FreeRetry(s)
    BY <2>2 DEF FreeRetry, FreeStart, Typed, DelInside, DeletedStayOut, Deleted
  <2>3. CASE FreeDelete(s)
    <3>1. CASE {d \in docs : d.addr = s} = {}
      BY <2>3, <3>1 DEF FreeDelete, Typed, DelInside, DeletedStayOut, Deleted
    <3>2. CASE {d \in docs : d.addr = s} # {}
      <4>1. PICK d \in docs : d.addr = s /\ docs' = docs \ {d}
        BY <2>3, <3>2 DEF FreeDelete
      <4>2. \A e \in docs : e.addr = s => e = d
        BY <4>1 DEF OneDocPerUser, DocsTyped, DocOf
      <4>3. fpc'[s] = "aggregate" /\ status' = status /\ fpc[s] = "delete"
        BY <2>3, <3>2 DEF FreeDelete, Typed
      <4>4. QED
        BY <4>1, <4>2, <4>3 DEF DeletedStayOut, Deleted
    <3>3. QED
      BY <3>1, <3>2
  <2>4. CASE FreeAggregate(s)
    BY <2>4 DEF FreeAggregate, FinishFree, Typed, DelInside, DeletedStayOut, Deleted,
                FreesInside, FreeSection
  <2>5. CASE FreePull(s)
    BY <2>5 DEF FreePull, Typed, DelInside, DeletedStayOut, Deleted
  <2>6. CASE FreeRepick(s)
    <3>1. PICK m \in work[s].repick : RepickNone(s, m) \/ RepickOne(s, m)
      BY <2>6 DEF FreeRepick
    <3>2. QED
      BY <2>6, <3>1 DEF FreeRepick, RepickNone, RepickOne, NextRepick, FinishFree, Typed,
                        DelInside, DeletedStayOut, Deleted, FreesInside, FreeSection
  <2>7. CASE FreeLink(s)
    BY <2>7 DEF FreeLink, NextRepick, FinishFree, Typed, DelInside, DeletedStayOut,
                Deleted, FreesInside, FreeSection
  <2>8. CASE FreeDbError(s)
    BY <2>8 DEF FreeDbError, Typed, DelInside, DeletedStayOut, Deleted, FreeSection
  <2>9. QED
    BY <2>1, <2>2, <2>3, <2>4, <2>5, <2>6, <2>7, <2>8 DEF FreeStep
<1>7. DelInside'
  BY <1>5, <1>6 DEF DelInside
<1>8. DeletedStayOut'
  <2> SUFFICES ASSUME NEW r \in Sockets
               PROVE  /\ fpc'[r] # "none" => status'[r] = "gone"
                      /\ fpc'[r] \in Deleted => \A d \in docs' : d.addr # r
                      /\ fpc'[r] = "done" =>
                           \A t \in Joins : t[1] = r => jpc[t] \notin JoinSection
    BY <1>3 DEF DeletedStayOut
  <2>1. fpc[r] \in Deleted => \A d \in docs' : d.addr # r
    BY <1>2 DEF DeletedStayOut, NoNewOwner, SameOwner
  <2>2. CASE r # s
    BY <2>1, <2>2, <1>5 DEF DeletedStayOut
  <2>3. CASE r = s
    <3>1. s \in FreesInside => \A t \in Joins : jpc[t] \notin JoinSection
      BY DEF OneSectionAtATime, JoinsInside
    <3>2. QED
      BY <2>1, <2>3, <3>1, <1>6 DEF DeletedStayOut
  <2>4. QED
    BY <2>2, <2>3
<1>9. QED
  BY <1>1, <1>2, <1>4, <1>7, <1>8

LEMMA RegStep == RegInv /\ [Next]_vars => RegInv'
<1> SUFFICES ASSUME RegInv, [Next]_vars PROVE RegInv'
  OBVIOUS
<1>1. CASE UNCHANGED vars
  <2>1. Typed' /\ OneSectionAtATime'
    BY <1>1, LockStep DEF RegInv
  <2>2. DocsTyped' /\ OneDocPerUser'
    BY <1>1 DEF vars, RegInv, DocsTyped, OneDocPerUser
  <2>3. InsertIsNew' /\ DelInside'
    BY <1>1 DEF vars, joinVars, freeVars, RegInv, InsertIsNew, DelInside
  <2>4. DeletedStayOut'
    BY <1>1 DEF vars, joinVars, freeVars, RegInv, DeletedStayOut
  <2>5. QED
    BY <2>1, <2>2, <2>3, <2>4 DEF RegInv
<1>2. QED
  BY <1>1, RegJoinStep, RegFreeStep DEF Next

(* A user has one document in a room.                                      *)
THEOREM OneDocument == Spec => []OneDocPerUser
<1>1. RegInv => OneDocPerUser
  BY DEF RegInv
<1>2. QED
  BY RegInit, RegStep, <1>1, PTL DEF Spec

(* No document of a socket comes back once it has been freed.              *)
THEOREM Freed == Spec => []FreedForGood
<1>1. RegInv => FreedForGood
  BY DEF RegInv, DocsTyped, DocOf, DeletedStayOut, Deleted, FreedForGood
<1>2. QED
  BY RegInit, RegStep, <1>1, PTL DEF Spec

----------------------------------------------------------------------------
(* Counting links.                                                         *)

Links == [Users -> Nat]

LEMMA EntriesOf ==
  ASSUME NEW c, NEW x
  PROVE  x \in Entries(c) <=> \E u \in Users : x \in {u} \X (1 .. c[u])
  BY DEF Entries

(* The links of a document are finitely many.                              *)
LEMMA EntriesFinite ==
  ASSUME NEW c \in Links
  PROVE  IsFiniteSet(Entries(c)) /\ Total(c) \in Nat
<1> DEFINE Part == {{u} \X (1 .. c[u]) : u \in Users}
           f == [u \in Users |-> {u} \X (1 .. c[u])]
<1>1. f \in Surjection(Users, Part)
  BY DEF Surjection
<1>2. IsFiniteSet(Part)
  BY <1>1, FS_Surjection, FiniteAssumption
<1>3. ASSUME NEW u \in Users
      PROVE  IsFiniteSet({u} \X (1 .. c[u]))
  <2>1. c[u] \in Int
    BY DEF Links
  <2>2. IsFiniteSet(1 .. c[u])
    BY <2>1, FS_Interval
  <2>3. QED
    BY <2>2, FS_Singleton, FS_Product
<1>4. IsFiniteSet(UNION Part)
  BY <1>2, <1>3, FS_UNION
<1>5. QED
  BY <1>4, FS_CardinalityType DEF Entries, Total

LEMMA TotalNone == Total(NoLinks) = 0
<1>1. Entries(NoLinks) = {}
  BY DEF Entries, NoLinks
<1>2. QED
  BY <1>1, FS_EmptySet DEF Total

(* A $push of each of us adds that many links.                             *)
LEMMA TotalLink ==
  ASSUME NEW c \in Links, NEW us \in SUBSET Users
  PROVE  /\ Link(c, us) \in Links
         /\ IsFiniteSet(us) /\ Cardinality(us) \in Nat
         /\ Total(Link(c, us)) = Total(c) + Cardinality(us)
<1> DEFINE new == {<<u, c[u] + 1>> : u \in us}
           f == [u \in us |-> <<u, c[u] + 1>>]
<1>1. IsFiniteSet(us) /\ Cardinality(us) \in Nat
  BY FS_Subset, FS_CardinalityType, FiniteAssumption
<1>2. \A u \in Users : c[u] \in Nat
  BY DEF Links
<1>3. Link(c, us) \in Links
  BY <1>2 DEF Link, Links
<1>4. f \in Bijection(us, new)
  <2>1. f \in [us -> new] /\ \A u \in us : f[u] = <<u, c[u] + 1>>
    OBVIOUS
  <2>2. \A u, v \in us : f[u] = f[v] => u = v
    BY <2>1
  <2>3. \A x \in new : \E u \in us : f[u] = x
    BY <2>1
  <2>4. QED
    BY <2>1, <2>2, <2>3 DEF Bijection, Injection, Surjection, IsInjective
<1>5. IsFiniteSet(new) /\ Cardinality(new) = Cardinality(us)
  BY <1>1, <1>4, FS_Bijection DEF ExistsBijection
<1>6. Entries(Link(c, us)) = Entries(c) \cup new
  <2>1. ASSUME NEW x \in Entries(Link(c, us))
        PROVE  x \in Entries(c) \cup new
    <3>1. PICK u \in Users : x \in {u} \X (1 .. Link(c, us)[u])
      BY EntriesOf
    <3>2. PICK n \in 1 .. Link(c, us)[u] : x = <<u, n>>
      BY <3>1
    <3>3. CASE u \in us /\ n = c[u] + 1
      BY <3>2, <3>3
    <3>4. CASE ~(u \in us /\ n = c[u] + 1)
      <4>1. n \in 1 .. c[u]
        BY <3>4, <1>2 DEF Link
      <4>2. QED
        BY <3>2, <4>1, EntriesOf
    <3>5. QED
      BY <3>3, <3>4
  <2>2. ASSUME NEW x \in Entries(c)
        PROVE  x \in Entries(Link(c, us))
    <3>1. PICK u \in Users : x \in {u} \X (1 .. c[u])
      BY EntriesOf
    <3>2. x \in {u} \X (1 .. Link(c, us)[u])
      BY <3>1, <1>2 DEF Link
    <3>3. QED
      BY <3>2, EntriesOf
  <2>3. ASSUME NEW u \in us
        PROVE  <<u, c[u] + 1>> \in Entries(Link(c, us))
    <3>1. u \in Users /\ c[u] + 1 \in 1 .. Link(c, us)[u]
      BY <1>2 DEF Link
    <3>2. QED
      BY <3>1, EntriesOf
  <2>4. QED
    BY <2>1, <2>2, <2>3
<1>7. Entries(c) \cap new = {}
  <2>1. ASSUME NEW u \in us, <<u, c[u] + 1>> \in Entries(c)
        PROVE  FALSE
    <3>1. PICK v \in Users : <<u, c[u] + 1>> \in {v} \X (1 .. c[v])
      BY <2>1, EntriesOf
    <3>2. v = u /\ c[u] + 1 \in 1 .. c[u]
      BY <3>1
    <3>3. QED
      BY <3>2, <1>2
  <2>2. QED
    BY <2>1
<1>8. Cardinality(Entries(c) \cap new) = 0
  BY <1>7, FS_EmptySet
<1>9. Total(Link(c, us)) = Cardinality(Entries(c)) + Cardinality(new)
                            - Cardinality(Entries(c) \cap new)
  BY <1>5, <1>6, EntriesFinite, FS_Union DEF Total
<1>10. QED
  BY <1>1, <1>3, <1>5, <1>8, <1>9, EntriesFinite DEF Total

(* A member never has more links after it forgot one.                      *)
LEMMA TotalUnlink ==
  ASSUME NEW c \in Links, NEW v \in Users
  PROVE  /\ Unlink(c, v) \in Links
         /\ Kept(c, Unlink(c, v)) = Unlink(c, v)
         /\ Total(Unlink(c, v)) <= Total(c)
<1>1. Unlink(c, v) \in Links
  BY DEF Unlink, Links
<1>2. \A u \in Users : Unlink(c, v)[u] = IF u = v THEN 0 ELSE c[u]
  BY DEF Unlink, Links
<1>3. Kept(c, Unlink(c, v)) = Unlink(c, v)
  <2>1. \A u \in Users : c[u] \in Nat
    BY DEF Links
  <2>2. \A u \in Users : Kept(c, Unlink(c, v))[u] = Unlink(c, v)[u]
    BY <1>2, <2>1 DEF Kept
  <2>3. QED
    BY <1>1, <2>2 DEF Kept, Links
<1>4. Entries(Unlink(c, v)) \in SUBSET Entries(c)
  <2>1. ASSUME NEW x \in Entries(Unlink(c, v))
        PROVE  x \in Entries(c)
    <3>1. PICK u \in Users : x \in {u} \X (1 .. Unlink(c, v)[u])
      BY EntriesOf
    <3>2. x \in {u} \X (1 .. c[u])
      BY <3>1, <1>2
    <3>3. QED
      BY <3>2, EntriesOf
  <2>2. QED
    BY <2>1
<1>5. QED
  BY <1>1, <1>3, <1>4, EntriesFinite, FS_Subset DEF Total

----------------------------------------------------------------------------
(* The types of the registry.                                              *)

Documents == [addr : Sockets, sock_id : Users, connects : Links, nconnects : Nat]
Works == [pull : SUBSET Members, repick : SUBSET Members,
          link : SUBSET [of : Members, to : Sockets, user : Users]]

\* The part of the types that the documents are concerned with.
DataTyped ==
  /\ docs \in SUBSET Documents
  /\ picked \in [Joins -> SUBSET (Users \X Sockets)]
  /\ work \in [Sockets -> Works]
  /\ intros \in SUBSET (Sockets \X Sockets)
  /\ replaced \in SUBSET (Users \X Users)

\* The part that is no concern of theirs.
FlagsTyped ==
  /\ rooms2 \in [Sockets -> BOOLEAN]
  /\ indexed \in BOOLEAN

LEMMA PushedType ==
  ASSUME NEW d \in Documents, NEW us \in SUBSET Users
  PROVE  /\ Pushed(d, us) \in Documents
         /\ Pushed(d, us).addr = d.addr /\ Pushed(d, us).sock_id = d.sock_id
         /\ Pushed(d, us).connects = Link(d.connects, us)
         /\ Pushed(d, us).nconnects = d.nconnects + Cardinality(us)
<1>1. Link(d.connects, us) \in Links /\ Cardinality(us) \in Nat
  BY TotalLink DEF Documents
<1>2. QED
  BY <1>1 DEF Pushed, Relinked, Documents

LEMMA PulledType ==
  ASSUME NEW d \in Documents, NEW rest \in Links
  PROVE  Pulled(d, rest) \in Documents
<1>1. Kept(d.connects, rest) \in Links
  BY DEF Kept, Links, Documents
<1>2. Total(rest) \in Nat
  BY EntriesFinite
<1>3. QED
  BY <1>1, <1>2 DEF Pulled, Relinked, Documents

LEMMA PickedFinite ==
  ASSUME NEW P \in SUBSET (Users \X Sockets)
  PROVE  IsFiniteSet(P) /\ Cardinality(P) \in Nat
<1>1. IsFiniteSet(Users \X Sockets)
  BY FiniteAssumption, FS_Product
<1>2. QED
  BY <1>1, FS_Subset, FS_CardinalityType

LEMMA PickedUsersType ==
  ASSUME DataTyped, NEW t \in Joins
  PROVE  PickedUsers(t) \in SUBSET Users
  BY DEF DataTyped, PickedUsers

LEMMA NewDocType ==
  ASSUME DataTyped, NEW t \in Joins
  PROVE  /\ NewDoc(t) \in Documents
         /\ NewDoc(t).addr = t[1] /\ NewDoc(t).sock_id = User(t)
         /\ NewDoc(t).connects = Link(NoLinks, PickedUsers(t))
         /\ NewDoc(t).nconnects = Cardinality(picked[t])
<1>1. NoLinks \in Links
  BY DEF NoLinks, Links
<1>2. Link(NoLinks, PickedUsers(t)) \in Links
  BY <1>1, PickedUsersType, TotalLink
<1>3. Cardinality(picked[t]) \in Nat
  BY PickedFinite DEF DataTyped
<1>4. t[1] \in Sockets /\ User(t) \in Users
  BY JoinType
<1>5. QED
  BY <1>2, <1>3, <1>4 DEF NewDoc, Documents

LEMMA UpdateOneType ==
  ASSUME docs \in SUBSET Documents, NEW us \in SUBSET Users,
         NEW matching \in SUBSET docs, UpdateOne(matching, us)
  PROVE  docs' \in SUBSET Documents
  BY PushedType DEF UpdateOne

LEMMA FinishJoinType ==
  ASSUME DataTyped, NEW t \in Joins, FinishJoin(t)
  PROVE  /\ picked' \in [Joins -> SUBSET (Users \X Sockets)]
         /\ intros' \in SUBSET (Sockets \X Sockets)
<1>1. picked' \in [Joins -> SUBSET (Users \X Sockets)]
  BY DEF FinishJoin, DataTyped
<1>2. intros' \in SUBSET (Sockets \X Sockets)
  <2>1. t[1] \in Sockets
    BY JoinType
  <2>2. \A p \in picked[t] : p[2] \in Sockets
    BY DEF DataTyped
  <2>3. {<<t[1], p[2]>> : p \in {q \in picked[t] : Connected(q[2])}}
          \in SUBSET (Sockets \X Sockets)
    BY <2>1, <2>2
  <2>4. QED
    BY <2>3 DEF FinishJoin, DataTyped
<1>3. QED
  BY <1>1, <1>2

LEMMA DataJoinStep ==
  ASSUME DataTyped, NEW t \in Joins,
         JoinRequest(t) \/ JoinStep(t) \/ JoinDbError(t)
  PROVE  DataTyped'
<1>1. CASE JoinRequest(t) \/ Indexed(t) \/ BroadcastInRoom(t) \/ JoinDbError(t)
  BY <1>1 DEF JoinRequest, Indexed, BroadcastInRoom, JoinDbError, freeVars, history,
              DataTyped
<1>2. CASE Pick(t)
  <2>1. work' = work /\ intros' = intros /\ replaced' = replaced
    BY <1>2 DEF Pick, freeVars, history
  <2>2. CASE docs' = docs /\ picked' = picked
    BY <2>1, <2>2 DEF DataTyped
  <2>3. ASSUME NEW cl \in Pickable(User(t)),
               docs' = (docs \ {cl}) \cup {Pushed(cl, {User(t)})},
               picked' = [picked EXCEPT ![t] = @ \cup {<<cl.sock_id, cl.addr>>}]
        PROVE  DataTyped'
    <3>1. cl \in Documents /\ {User(t)} \in SUBSET Users
      BY JoinType DEF Pickable, DataTyped
    <3>2. docs' \in SUBSET Documents
      BY <2>3, <3>1, PushedType DEF DataTyped
    <3>3. <<cl.sock_id, cl.addr>> \in Users \X Sockets
      BY <3>1 DEF Documents
    <3>4. picked' \in [Joins -> SUBSET (Users \X Sockets)]
      BY <2>3, <3>3 DEF DataTyped
    <3>5. QED
      BY <2>1, <3>2, <3>4 DEF DataTyped
  <2>4. QED
    BY <1>2, <2>2, <2>3 DEF Pick
<1>3. CASE UpdateOwn(t)
  <2>1. docs' \in SUBSET Documents
    BY <1>3, PickedUsersType, UpdateOneType DEF UpdateOwn, DataTyped
  <2>2. work' = work /\ replaced' = replaced
    BY <1>3 DEF UpdateOwn, freeVars
  <2>3. FinishJoin(t) \/ (picked' = picked /\ intros' = intros)
    BY <1>3 DEF UpdateOwn
  <2>4. QED
    BY <2>1, <2>2, <2>3, FinishJoinType DEF DataTyped
<1>4. CASE InsertOwn(t)
  BY <1>4, NewDocType, FinishJoinType DEF InsertOwn, freeVars, DataTyped
<1>5. QED
  BY <1>1, <1>2, <1>3, <1>4 DEF JoinStep

LEMMA LinkedType ==
  ASSUME DataTyped, NEW s \in Sockets
  PROVE  Linked(s) \in SUBSET Members
<1>1. UserOf[s] \in Users
  BY UserOfAssumption
<1>2. \A d \in docs : d.addr \in Sockets /\ d.sock_id \in Users /\ d.connects \in Links
  BY DEF DataTyped, Documents
<1>3. \A d \in docs : Unlink(d.connects, UserOf[s]) \in [Users -> Nat]
  BY <1>1, <1>2 DEF Unlink, Links
<1>4. QED
  BY <1>2, <1>3 DEF Linked, Members

LEMMA DataFreeStep ==
  ASSUME DataTyped, NEW s \in Sockets,
         SocketStep(s) \/ FreeStep(s) \/ FreeDbError(s)
  PROVE  DataTyped'
<1>1. CASE SocketStep(s) \/ FreeRetry(s) \/ FreeDbError(s)
  BY <1>1 DEF SocketStep, Announce, Leave, Disconnect, FreeRetry, FreeDbError,
              joinVars, freeVars, history, DataTyped
<1>2. CASE FreeDelete(s)
  BY <1>2 DEF FreeDelete, joinVars, history, DataTyped
<1>3. CASE FreeAggregate(s)
  <2>1. work' \in [Sockets -> Works]
    BY <1>3, LinkedType DEF FreeAggregate, DataTyped, Works
  <2>2. QED
    BY <1>3, <2>1 DEF FreeAggregate, joinVars, history, DataTyped
<1>4. CASE FreePull(s)
  <2>1. PICK m \in work[s].pull :
          /\ docs' = {IF d.addr = m.addr /\ d.sock_id = m.sock_id
                      THEN Pulled(d, m.rest) ELSE d : d \in docs}
          /\ work' = [work EXCEPT ![s].pull = @ \ {m}]
    BY <1>4 DEF FreePull
  <2>2. m.rest \in Links
    BY DEF DataTyped, Works, Members, Links
  <2>3. docs' \in SUBSET Documents
    BY <2>1, <2>2, PulledType DEF DataTyped
  <2>4. work' \in [Sockets -> Works]
    BY <2>1 DEF DataTyped, Works
  <2>5. QED
    BY <1>4, <2>3, <2>4 DEF FreePull, joinVars, history, DataTyped
<1>5. CASE FreeRepick(s)
  <2>1. PICK m \in work[s].repick : RepickNone(s, m) \/ RepickOne(s, m)
    BY <1>5 DEF FreeRepick
  <2>2. picked' = picked /\ intros' = intros
    BY <1>5 DEF FreeRepick, joinVars
  <2>3. CASE RepickNone(s, m)
    BY <2>2, <2>3 DEF RepickNone, DataTyped, Works
  <2>4. CASE RepickOne(s, m)
    <3>1. PICK cl \in Pickable(m.sock_id) :
            /\ docs' = (docs \ {cl}) \cup {Pushed(cl, {m.sock_id})}
            /\ replaced' = replaced \cup {<<cl.sock_id, m.sock_id>>}
            /\ work' = [work EXCEPT ![s].link =
                          {[of |-> m, to |-> cl.addr, user |-> cl.sock_id]}]
      BY <2>4 DEF RepickOne
    <3>2. cl \in Documents /\ m \in Members /\ m.sock_id \in Users
      BY DEF Pickable, DataTyped, Works, Members
    <3>3. docs' \in SUBSET Documents
      BY <3>1, <3>2, PushedType DEF DataTyped
    <3>4. cl.addr \in Sockets /\ cl.sock_id \in Users
      BY <3>2 DEF Documents
    <3>5. work' \in [Sockets -> Works]
      BY <3>1, <3>2, <3>4 DEF DataTyped, Works
    <3>6. replaced' \in SUBSET (Users \X Users)
      BY <3>1, <3>2, <3>4 DEF DataTyped
    <3>7. QED
      BY <2>2, <3>3, <3>5, <3>6 DEF DataTyped
  <2>5. QED
    BY <2>1, <2>3, <2>4
<1>6. CASE FreeLink(s)
  <2>1. PICK l \in work[s].link :
          /\ UpdateOne({d \in docs : d.sock_id = l.of.addr}, {l.user})
          /\ intros' = IF Connected(l.of.addr) /\ Connected(l.to)
                       THEN intros \cup {<<l.of.addr, l.to>>} ELSE intros
          /\ work' = [work EXCEPT ![s].link = {}, ![s].repick = @ \ {l.of}]
    BY <1>6 DEF FreeLink
  <2>2. l.of.addr \in Sockets /\ l.to \in Sockets /\ l.user \in Users
    BY DEF DataTyped, Works, Members
  <2>3. docs' \in SUBSET Documents
    BY <2>1, <2>2, UpdateOneType DEF DataTyped
  <2>4. work' \in [Sockets -> Works]
    BY <2>1 DEF DataTyped, Works
  <2>5. intros' \in SUBSET (Sockets \X Sockets)
    BY <2>1, <2>2 DEF DataTyped
  <2>6. QED
    BY <1>6, <2>3, <2>4, <2>5 DEF FreeLink, joinVars, DataTyped
<1>7. QED
  BY <1>1, <1>2, <1>3, <1>4, <1>5, <1>6 DEF FreeStep

LEMMA FlagsStep ==
  ASSUME FlagsTyped, Next
  PROVE  FlagsTyped'
<1>1. ASSUME NEW t \in Joins, JoinRequest(t) \/ JoinStep(t) \/ JoinDbError(t)
      PROVE  FlagsTyped'
  BY <1>1, JoinType DEF JoinStep, JoinRequest, Indexed, EnterRoom, BroadcastInRoom,
       Pick, UpdateOwn, InsertOwn, JoinDbError, FlagsTyped
<1>2. ASSUME NEW s \in Sockets, SocketStep(s) \/ FreeStep(s) \/ FreeDbError(s)
      PROVE  FlagsTyped'
  BY <1>2 DEF SocketStep, FreeStep, Announce, Leave, Disconnect, FreeRetry, FreeDelete,
       FreeAggregate, FreePull, FreeRepick, FreeLink, FreeDbError, FlagsTyped
<1>3. QED
  BY <1>1, <1>2 DEF Next

TypeInv == RegInv /\ DataTyped /\ FlagsTyped

LEMMA TypeInvInit == Init => TypeInv
<1> SUFFICES ASSUME Init PROVE TypeInv
  OBVIOUS
<1>1. DataTyped
  BY DEF Init, DataTyped, Works
<1>2. FlagsTyped
  BY DEF Init, FlagsTyped
<1>3. QED
  BY <1>1, <1>2, RegInit DEF TypeInv

LEMMA TypeInvStep == TypeInv /\ [Next]_vars => TypeInv'
<1> SUFFICES ASSUME TypeInv, [Next]_vars PROVE TypeInv'
  OBVIOUS
<1>1. RegInv'
  BY RegStep DEF TypeInv
<1>2. CASE UNCHANGED vars
  BY <1>1, <1>2 DEF vars, joinVars, freeVars, history, TypeInv, DataTyped, FlagsTyped
<1>3. CASE Next
  <2>1. DataTyped'
    BY <1>3, DataJoinStep, DataFreeStep DEF TypeInv, Next
  <2>2. QED
    BY <1>1, <1>3, <2>1, FlagsStep DEF TypeInv
<1>4. QED
  BY <1>2, <1>3

(* Every variable of the registry keeps its type.                          *)
THEOREM TypeCorrect == Spec => []TypeOK
<1>1. TypeInv => TypeOK
  <2> SUFFICES ASSUME TypeInv PROVE TypeOK
    OBVIOUS
  <2>1. RegInv /\ DataTyped /\ FlagsTyped
    BY DEF TypeInv
  <2>2. status \in [Sockets -> {"connected", "announced", "gone"}] /\ critical \in BOOLEAN
    BY <2>1 DEF RegInv, Typed
  <2>3. /\ jpc \in [Joins -> {"none", "indexing", "joining", "retry", "done", "failed"}
                             \cup JoinSection]
        /\ fpc \in [Sockets -> {"none", "wait", "done", "failed"} \cup FreeSection]
    BY <2>1 DEF RegInv, Typed, JoinPCs, FreePCs
  <2>4. del \in [Sockets -> BOOLEAN]
    BY <2>1 DEF RegInv, DelInside
  <2>5. rooms2 \in [Sockets -> BOOLEAN] /\ indexed \in BOOLEAN
    BY <2>1 DEF FlagsTyped
  <2>6. /\ docs \subseteq [addr : Sockets, sock_id : Users,
                           connects : [Users -> Nat], nconnects : Nat]
        /\ picked \in [Joins -> SUBSET (Users \X Sockets)]
        /\ intros \subseteq Sockets \X Sockets
        /\ replaced \subseteq Users \X Users
    BY <2>1 DEF DataTyped, Documents, Links
  <2>7. work \in [Sockets -> [pull : SUBSET Members, repick : SUBSET Members,
                              link : SUBSET [of : Members, to : Sockets, user : Users]]]
    BY <2>1 DEF DataTyped, Works
  <2>8. QED
    BY <2>2, <2>3, <2>4, <2>5, <2>6, <2>7 DEF TypeOK
<1>2. QED
  BY TypeInvInit, TypeInvStep, <1>1, PTL DEF Spec

----------------------------------------------------------------------------
(* The degree of a member is the number of its links.                      *)

Degree(d) == d.nconnects = Total(d.connects) /\ d.connects[d.sock_id] = 0
Degrees == \A d \in docs : Degree(d)

\* Outside its section a join has picked nobody, unless a call failed.
PickedSizes ==
  \A t \in Joins :
    /\ jpc[t] \notin JoinSection \cup {"failed"} => picked[t] = {}
    /\ jpc[t] = "pick" => Cardinality(picked[t]) < Picks
    /\ jpc[t] \in JoinSection => Cardinality(picked[t]) <= Picks

\* Those a join has picked are members other than itself, linked to it once.
PickedDoc(t, p) ==
  \E d \in docs : /\ d.sock_id = p[1] /\ d.addr = p[2]
                  /\ d.connects[User(t)] = 1
PickedHold ==
  \A t \in Joins : jpc[t] \in JoinSection =>
    \A p \in picked[t] : p[1] # User(t) /\ PickedDoc(t, p)

\* What free() found remains what it finds: the links but those to the user
\* that left.
PullMatches ==
  \A s \in Sockets : fpc[s] = "pull" =>
    \A m \in work[s].pull, d \in docs :
      SameOwner(d, m) => m.rest = Unlink(d.connects, UserOf[s])

DegreeInv == TypeInv /\ Degrees /\ PickedSizes /\ PickedHold /\ PullMatches

LEMMA PushedDegree ==
  ASSUME NEW d \in Documents, Degree(d), NEW us \in SUBSET Users, d.sock_id \notin us
  PROVE  Degree(Pushed(d, us))
<1>1. d.connects \in Links /\ d.sock_id \in Users /\ d.nconnects \in Nat
  BY DEF Documents
<1>2. Total(Link(d.connects, us)) = d.nconnects + Cardinality(us)
  BY <1>1, TotalLink DEF Degree
<1>3. Link(d.connects, us)[d.sock_id] = 0
  BY <1>1 DEF Link, Degree
<1>4. QED
  BY <1>2, <1>3, PushedType DEF Degree

LEMMA PulledDegree ==
  ASSUME NEW d \in Documents, Degree(d), NEW v \in Users
  PROVE  LET e == Pulled(d, Unlink(d.connects, v))
         IN  /\ Degree(e) /\ e.connects = Unlink(d.connects, v)
             /\ e.nconnects <= d.nconnects
             /\ e.addr = d.addr /\ e.sock_id = d.sock_id
<1> DEFINE rest == Unlink(d.connects, v)
<1>1. d.connects \in Links /\ d.sock_id \in Users
  BY DEF Documents
<1>2. Kept(d.connects, rest) = rest /\ Total(rest) <= Total(d.connects)
  BY <1>1, TotalUnlink
<1>3. rest[d.sock_id] = 0
  BY <1>1 DEF Unlink, Links, Degree
<1>4. QED
  BY <1>2, <1>3 DEF Pulled, Relinked, Degree

(* Nobody is picked twice.                                                 *)
LEMMA PickedCount ==
  ASSUME DegreeInv, NEW t \in Joins, jpc[t] \in JoinSection
  PROVE  /\ Cardinality(PickedUsers(t)) = Cardinality(picked[t])
         /\ Cardinality(picked[t]) \in Nat
         /\ PickedUsers(t) \in SUBSET Users
         /\ User(t) \notin PickedUsers(t)
<1> DEFINE f == [p \in picked[t] |-> p[1]]
<1>1. picked[t] \in SUBSET (Users \X Sockets)
  BY DEF DegreeInv, TypeInv, DataTyped
<1>2. IsFiniteSet(picked[t]) /\ Cardinality(picked[t]) \in Nat
  BY <1>1, PickedFinite
<1>3. \A p, q \in picked[t] : p[1] = q[1] => p = q
  <2>1. ASSUME NEW p \in picked[t], NEW q \in picked[t], p[1] = q[1]
        PROVE  p = q
    <3>1. PICK d \in docs : d.sock_id = p[1] /\ d.addr = p[2]
      BY DEF DegreeInv, PickedHold, PickedDoc
    <3>2. PICK e \in docs : e.sock_id = q[1] /\ e.addr = q[2]
      BY DEF DegreeInv, PickedHold, PickedDoc
    <3>3. d = e
      BY <2>1, <3>1, <3>2 DEF DegreeInv, TypeInv, RegInv, OneDocPerUser
    <3>4. QED
      BY <1>1, <2>1, <3>1, <3>2, <3>3
  <2>2. QED
    BY <2>1
<1>4. f \in [picked[t] -> PickedUsers(t)] /\ \A p \in picked[t] : f[p] = p[1]
  BY DEF PickedUsers
<1>5. \A x \in PickedUsers(t) : \E p \in picked[t] : f[p] = x
  BY <1>4 DEF PickedUsers
<1>6. f \in Bijection(picked[t], PickedUsers(t))
  BY <1>3, <1>4, <1>5 DEF Bijection, Injection, Surjection, IsInjective
<1>7. Cardinality(PickedUsers(t)) = Cardinality(picked[t])
  BY <1>2, <1>6, FS_Bijection DEF ExistsBijection
<1>8. PickedUsers(t) \in SUBSET Users
  BY PickedUsersType DEF DegreeInv, TypeInv
<1>9. User(t) \notin PickedUsers(t)
  BY DEF DegreeInv, PickedHold, PickedUsers
<1>10. QED
  BY <1>2, <1>7, <1>8, <1>9

(* Who is in its section is there alone.                                   *)
LEMMA JoinAlone ==
  ASSUME OneSectionAtATime, NEW t \in Joins, jpc[t] \in JoinSection
  PROVE  /\ \A u \in Joins : jpc[u] \in JoinSection => u = t
         /\ \A s \in Sockets : fpc[s] \notin FreeSection
         /\ critical
  BY DEF OneSectionAtATime, JoinsInside, FreesInside

LEMMA FreeAlone ==
  ASSUME OneSectionAtATime, NEW s \in Sockets, fpc[s] \in FreeSection
  PROVE  /\ \A r \in Sockets : fpc[r] \in FreeSection => r = s
         /\ \A t \in Joins : jpc[t] \notin JoinSection
         /\ critical
  BY DEF OneSectionAtATime, JoinsInside, FreesInside

(* The steps that touch no document and no list.                           *)
QuietJoin(t) == JoinRequest(t) \/ Indexed(t) \/ BroadcastInRoom(t) \/ JoinDbError(t)
QuietFree(s) == SocketStep(s) \/ FreeRetry(s) \/ FreeDbError(s)

LEMMA QuietJoinMoves ==
  ASSUME Typed, NEW t \in Joins, QuietJoin(t)
  PROVE  /\ UNCHANGED <<docs, picked, fpc, work, intros, replaced>>
         /\ \A u \in Joins : u # t => jpc'[u] = jpc[u]
         /\ jpc[t] \notin {"done", "failed"}
         /\ jpc'[t] \in JoinSection =>
              jpc'[t] = "pick" /\ jpc[t] \notin JoinSection \cup {"failed"} /\ ~critical
         /\ jpc'[t] \notin JoinSection => jpc'[t] = "failed" \/ jpc[t] \notin JoinSection
         /\ critical => critical'
<1>1. CASE JoinRequest(t)
  BY <1>1 DEF JoinRequest, EnterRoom, freeVars, history, JoinSection, Typed
<1>2. CASE Indexed(t)
  BY <1>2 DEF Indexed, EnterRoom, freeVars, history, JoinSection, Typed
<1>3. CASE BroadcastInRoom(t)
  BY <1>3 DEF BroadcastInRoom, freeVars, history, JoinSection, Typed
<1>4. CASE JoinDbError(t)
  BY <1>4 DEF JoinDbError, freeVars, history, JoinSection, Typed
<1>5. QED
  BY <1>1, <1>2, <1>3, <1>4 DEF QuietJoin

LEMMA QuietFreeMoves ==
  ASSUME Typed, NEW s \in Sockets, QuietFree(s)
  PROVE  /\ UNCHANGED <<docs, picked, jpc, work, intros, replaced>>
         /\ \A r \in Sockets : r # s => fpc'[r] = fpc[r]
         /\ fpc'[s] \in FreeSection =>
              fpc'[s] = fpc[s] \/ (fpc'[s] = "delete" /\ ~critical)
         /\ critical => critical'
<1>1. CASE Announce(s) \/ Leave(s)
  BY <1>1 DEF Announce, Leave, joinVars, freeVars, history, Typed
<1>2. CASE Disconnect(s)
  BY <1>2 DEF Disconnect, FreeStart, joinVars, history, FreeSection, Typed
<1>3. CASE FreeRetry(s)
  BY <1>3 DEF FreeRetry, FreeStart, joinVars, history, FreeSection, Typed
<1>4. CASE FreeDbError(s)
  BY <1>4 DEF FreeDbError, joinVars, history, FreeSection, Typed
<1>5. QED
  BY <1>1, <1>2, <1>3, <1>4 DEF QuietFree, SocketStep

(* A step of a join that adds a member to those it picked.                 *)
LEMMA PickMoves ==
  ASSUME Typed, NEW t \in Joins, Pick(t)
  PROVE  /\ UNCHANGED <<critical, fpc, work, intros, replaced>>
         /\ \A u \in Joins : u # t => jpc'[u] = jpc[u]
         /\ jpc[t] = "pick" /\ jpc'[t] \in {"pick", "update"}
         /\ \/ UNCHANGED <<docs, picked>> /\ jpc'[t] = "update"
            \/ \E cl \in Pickable(User(t)) :
                 /\ docs' = (docs \ {cl}) \cup {Pushed(cl, {User(t)})}
                 /\ picked' = [picked EXCEPT ![t] = @ \cup {<<cl.sock_id, cl.addr>>}]
                 /\ jpc'[t] = "pick" => Cardinality(picked[t]) + 1 < Picks
  BY DEF Pick, freeVars, history, Typed

\* Whether the user of a join has a document.
HasDoc(t) == \E d \in docs : d.sock_id = User(t)

LEMMA UpdateMoves ==
  ASSUME Typed, NEW t \in Joins, UpdateOwn(t)
  PROVE  /\ UNCHANGED <<fpc, work, replaced>>
         /\ \A u \in Joins : u # t => jpc'[u] = jpc[u]
         /\ jpc[t] = "update"
         /\ \/ /\ ~HasDoc(t) /\ jpc'[t] = "insert"
               /\ UNCHANGED <<critical, docs, picked, intros>>
            \/ /\ FinishJoin(t) /\ jpc'[t] = "done"
               /\ \E d \in docs : /\ d.sock_id = User(t)
                                  /\ docs' = (docs \ {d}) \cup {Pushed(d, PickedUsers(t))}
<1>1. CASE {d \in docs : d.sock_id = User(t)} = {}
  BY <1>1 DEF UpdateOwn, UpdateOne, HasDoc, freeVars, Typed
<1>2. CASE {d \in docs : d.sock_id = User(t)} # {}
  BY <1>2 DEF UpdateOwn, UpdateOne, FinishJoin, freeVars, Typed
<1>3. QED
  BY <1>1, <1>2

LEMMA InsertMoves ==
  ASSUME Typed, NEW t \in Joins, InsertOwn(t)
  PROVE  /\ UNCHANGED <<fpc, work, replaced>>
         /\ \A u \in Joins : u # t => jpc'[u] = jpc[u]
         /\ jpc[t] = "insert" /\ jpc'[t] = "done" /\ FinishJoin(t)
         /\ docs' = docs \cup {NewDoc(t)}
  BY DEF InsertOwn, FinishJoin, freeVars, Typed

(* The document that FreeLink looks for does not exist: a socket id is no  *)
(* user name.                                                              *)
LEMMA LinkFindsNothing ==
  ASSUME DataTyped, NEW s \in Sockets, FreeLink(s)
  PROVE  docs' = docs
<1>1. PICK l \in work[s].link : UpdateOne({d \in docs : d.sock_id = l.of.addr}, {l.user})
  BY DEF FreeLink
<1>2. l.of.addr \in Sockets
  BY DEF DataTyped, Works, Members
<1>3. \A d \in docs : d.sock_id \in Users
  BY DEF DataTyped, Documents
<1>4. {d \in docs : d.sock_id = l.of.addr} = {}
  BY <1>2, <1>3, DisjointAssumption
<1>5. QED
  BY <1>1, <1>4 DEF UpdateOne

(* What the steps between the calls of free() have in common.              *)
LEMMA FreeWorkMoves ==
  ASSUME Typed, NEW s \in Sockets,
         FreeDelete(s) \/ FreeAggregate(s) \/ FreePull(s) \/ FreeRepick(s) \/ FreeLink(s)
  PROVE  /\ UNCHANGED <<jpc, picked>>
         /\ fpc[s] \in FreeSection
         /\ \A r \in Sockets : r # s => fpc'[r] = fpc[r]
<1>1. CASE FreeDelete(s) \/ FreeAggregate(s) \/ FreePull(s)
  BY <1>1 DEF FreeDelete, FreeAggregate, FinishFree, FreePull, joinVars, FreeSection, Typed
<1>2. CASE FreeRepick(s)
  <2>1. PICK m \in work[s].repick : RepickNone(s, m) \/ RepickOne(s, m)
    BY <1>2 DEF FreeRepick
  <2>2. QED
    BY <1>2, <2>1 DEF FreeRepick, RepickNone, RepickOne, NextRepick, FinishFree,
                      joinVars, FreeSection, Typed
<1>3. CASE FreeLink(s)
  BY <1>3 DEF FreeLink, NextRepick, FinishFree, joinVars, FreeSection, Typed
<1>4. QED
  BY <1>1, <1>2, <1>3

LEMMA DegreeInvInit == Init => DegreeInv
<1> SUFFICES ASSUME Init PROVE DegreeInv
  OBVIOUS
<1>1. Degrees
  BY DEF Init, Degrees
<1>2. PickedSizes /\ PickedHold /\ PullMatches
  BY DEF Init, PickedSizes, PickedHold, PullMatches, JoinSection
<1>3. QED
  BY <1>1, <1>2, TypeInvInit DEF DegreeInv

(* While a join is in its section no free() pulls.                         *)
LEMMA NobodyPulls ==
  ASSUME OneSectionAtATime, NEW t \in Joins, jpc[t] \in JoinSection, fpc' = fpc
  PROVE  PullMatches'
<1>1. \A s \in Sockets : fpc[s] # "pull"
  BY JoinAlone DEF FreeSection
<1>2. QED
  BY <1>1 DEF PullMatches

LEMMA DegreePick ==
  ASSUME DegreeInv, NEW t \in Joins, Pick(t)
  PROVE  Degrees' /\ PickedSizes' /\ PickedHold' /\ PullMatches'
<1>1. Typed /\ OneSectionAtATime /\ DataTyped
  BY DEF DegreeInv, TypeInv, RegInv
<1>2. /\ \A u \in Joins : u # t => jpc'[u] = jpc[u]
      /\ jpc[t] = "pick" /\ jpc'[t] \in {"pick", "update"} /\ fpc' = fpc
  BY <1>1, PickMoves
<1>3. jpc[t] \in JoinSection /\ \A u \in Joins : jpc[u] \in JoinSection => u = t
  BY <1>1, <1>2, JoinAlone DEF JoinSection
<1>4. PullMatches'
  BY <1>1, <1>2, <1>3, NobodyPulls
<1>5. picked[t] \in SUBSET (Users \X Sockets) /\ picked \in [Joins -> SUBSET (Users \X Sockets)]
  BY <1>1 DEF DataTyped
<1>6. IsFiniteSet(picked[t]) /\ Cardinality(picked[t]) \in Nat
  BY <1>5, PickedFinite
<1>7. Cardinality(picked[t]) < Picks /\ Picks \in Nat
  BY <1>2, BoundAssumption DEF DegreeInv, PickedSizes
<1>8. CASE UNCHANGED <<docs, picked>> /\ jpc'[t] = "update"
  <2>1. Degrees'
    BY <1>8 DEF DegreeInv, Degrees, Degree
  <2>2. PickedSizes'
    BY <1>2, <1>6, <1>7, <1>8 DEF DegreeInv, PickedSizes, JoinSection
  <2>3. PickedHold'
    BY <1>2, <1>3, <1>8 DEF DegreeInv, PickedHold, PickedDoc, User
  <2>4. QED
    BY <1>4, <2>1, <2>2, <2>3
<1>9. ASSUME NEW cl \in Pickable(User(t)),
             docs' = (docs \ {cl}) \cup {Pushed(cl, {User(t)})},
             picked' = [picked EXCEPT ![t] = @ \cup {<<cl.sock_id, cl.addr>>}],
             jpc'[t] = "pick" => Cardinality(picked[t]) + 1 < Picks
      PROVE  Degrees' /\ PickedSizes' /\ PickedHold'
  <2>1. cl \in docs /\ cl.connects[User(t)] = 0 /\ cl.sock_id # User(t)
    BY DEF Pickable
  <2>2. cl \in Documents /\ User(t) \in Users /\ {User(t)} \in SUBSET Users
    BY <1>1, <2>1, JoinType DEF DataTyped
  <2>3. Degrees'
    <3>1. Degree(Pushed(cl, {User(t)}))
      BY <2>1, <2>2, PushedDegree DEF DegreeInv, Degrees
    <3>2. \A d \in docs' : Degree(d)
      BY <1>9, <3>1 DEF DegreeInv, Degrees
    <3>3. QED
      BY <3>2 DEF Degrees, Degree
  <2>4. /\ picked'[t] = picked[t] \cup {<<cl.sock_id, cl.addr>>}
        /\ \A u \in Joins : u # t => picked'[u] = picked[u]
    BY <1>5, <1>9
  <2>5. Cardinality(picked'[t]) \in Nat /\ Cardinality(picked'[t]) <= Cardinality(picked[t]) + 1
    <3>1. Cardinality(picked[t] \cup {<<cl.sock_id, cl.addr>>}) =
            IF <<cl.sock_id, cl.addr>> \in picked[t] THEN Cardinality(picked[t])
                                                     ELSE Cardinality(picked[t]) + 1
      BY <1>6, FS_AddElement
    <3>2. QED
      BY <1>6, <2>4, <3>1
  <2>6. PickedSizes'
    <3> SUFFICES ASSUME NEW u \in Joins
                 PROVE  /\ jpc'[u] \notin JoinSection \cup {"failed"} => picked'[u] = {}
                        /\ jpc'[u] = "pick" => Cardinality(picked'[u]) < Picks
                        /\ jpc'[u] \in JoinSection => Cardinality(picked'[u]) <= Picks
      BY DEF PickedSizes
    <3>1. CASE u # t
      BY <1>2, <2>4, <3>1 DEF DegreeInv, PickedSizes
    <3>2. CASE u = t
      BY <1>2, <1>6, <1>7, <1>9, <2>5, <3>2 DEF JoinSection
    <3>3. QED
      BY <3>1, <3>2
  <2>7. PickedHold'
    <3>1. ASSUME NEW p \in picked[t]
          PROVE  p[1] # User(t) /\ PickedDoc(t, p)'
      <4>1. PICK d \in docs : d.sock_id = p[1] /\ d.addr = p[2] /\ d.connects[User(t)] = 1
        BY <1>3 DEF DegreeInv, PickedHold, PickedDoc
      <4>2. d # cl
        BY <2>1, <4>1
      <4>3. d \in docs'
        BY <1>9, <4>1, <4>2
      <4>4. p[1] # User(t)
        BY <1>3 DEF DegreeInv, PickedHold
      <4>5. QED
        BY <4>1, <4>3, <4>4 DEF PickedDoc, User
    <3>2. PickedDoc(t, <<cl.sock_id, cl.addr>>)'
      <4>1. Pushed(cl, {User(t)}) \in docs'
        BY <1>9
      <4>2. Pushed(cl, {User(t)}).connects[User(t)] = 1
        <5>1. Pushed(cl, {User(t)}).connects = Link(cl.connects, {User(t)})
          BY <2>2, PushedType
        <5>2. Link(cl.connects, {User(t)})[User(t)] = 0 + 1
          BY <2>1, <2>2 DEF Link
        <5>3. QED
          BY <5>1, <5>2
      <4>3. QED
        BY <2>2, <4>1, <4>2, PushedType DEF PickedDoc, User
    <3>3. \A p \in picked'[t] : p[1] # User(t) /\ PickedDoc(t, p)'
      BY <2>1, <2>4, <3>1, <3>2
    <3>4. \A u \in Joins : jpc'[u] \in JoinSection => u = t
      BY <1>2, <1>3
    <3>5. QED
      BY <3>3, <3>4 DEF PickedHold, User
  <2>8. QED
    BY <2>3, <2>6, <2>7
<1>10. QED
  BY <1>1, <1>4, <1>8, <1>9, PickMoves

(* A join that is done holds nobody picked.                                *)
LEMMA DegreeDone ==
  ASSUME DegreeInv, NEW t \in Joins, jpc[t] \in JoinSection,
         FinishJoin(t), jpc'[t] = "done",
         \A u \in Joins : u # t => jpc'[u] = jpc[u]
  PROVE  PickedSizes' /\ PickedHold'
<1>1. OneSectionAtATime /\ picked \in [Joins -> SUBSET (Users \X Sockets)]
  BY DEF DegreeInv, TypeInv, RegInv, DataTyped
<1>2. picked'[t] = {} /\ \A u \in Joins : u # t => picked'[u] = picked[u]
  BY <1>1 DEF FinishJoin
<1>3. PickedSizes'
  BY <1>2 DEF DegreeInv, PickedSizes, JoinSection
<1>4. \A u \in Joins : jpc'[u] \notin JoinSection
  BY <1>1, JoinAlone DEF JoinSection
<1>5. PickedHold'
  BY <1>4 DEF PickedHold
<1>6. QED
  BY <1>3, <1>5

LEMMA DegreeUpdate ==
  ASSUME DegreeInv, NEW t \in Joins, UpdateOwn(t)
  PROVE  Degrees' /\ PickedSizes' /\ PickedHold' /\ PullMatches'
<1>1. Typed /\ OneSectionAtATime /\ DataTyped
  BY DEF DegreeInv, TypeInv, RegInv
<1>2. /\ \A u \in Joins : u # t => jpc'[u] = jpc[u]
      /\ jpc[t] = "update" /\ fpc' = fpc /\ jpc[t] \in JoinSection
  BY <1>1, UpdateMoves DEF JoinSection
<1>3. PullMatches'
  BY <1>1, <1>2, NobodyPulls
<1>4. CASE jpc'[t] = "insert" /\ UNCHANGED <<docs, picked>>
  <2>1. Degrees'
    BY <1>4 DEF DegreeInv, Degrees, Degree
  <2>2. PickedSizes'
    BY <1>2, <1>4 DEF DegreeInv, PickedSizes, JoinSection
  <2>3. PickedHold'
    BY <1>2, <1>4 DEF DegreeInv, PickedHold, PickedDoc, User
  <2>4. QED
    BY <1>3, <2>1, <2>2, <2>3
<1>5. ASSUME FinishJoin(t), jpc'[t] = "done", NEW d \in docs, d.sock_id = User(t),
             docs' = (docs \ {d}) \cup {Pushed(d, PickedUsers(t))}
      PROVE  Degrees' /\ PickedSizes' /\ PickedHold'
  <2>1. d \in Documents
    BY <1>1 DEF DataTyped
  <2>2. Degree(Pushed(d, PickedUsers(t)))
    BY <1>2, <1>5, <2>1, PickedCount, PushedDegree DEF DegreeInv, Degrees
  <2>3. \A e \in docs' : Degree(e)
    BY <1>5, <2>2 DEF DegreeInv, Degrees
  <2>4. Degrees'
    BY <2>3 DEF Degrees, Degree
  <2>5. QED
    BY <1>2, <1>5, <2>4, DegreeDone
<1>6. QED
  BY <1>1, <1>3, <1>4, <1>5, UpdateMoves

LEMMA DegreeInsert ==
  ASSUME DegreeInv, NEW t \in Joins, InsertOwn(t)
  PROVE  Degrees' /\ PickedSizes' /\ PickedHold' /\ PullMatches'
<1>1. Typed /\ OneSectionAtATime /\ DataTyped
  BY DEF DegreeInv, TypeInv, RegInv
<1>2. /\ \A u \in Joins : u # t => jpc'[u] = jpc[u]
      /\ jpc[t] = "insert" /\ jpc'[t] = "done" /\ fpc' = fpc /\ jpc[t] \in JoinSection
      /\ FinishJoin(t) /\ docs' = docs \cup {NewDoc(t)}
  BY <1>1, InsertMoves DEF JoinSection
<1>3. Degree(NewDoc(t))
  <2>1. NoLinks \in Links
    BY DEF NoLinks, Links
  <2>2. /\ Cardinality(PickedUsers(t)) = Cardinality(picked[t])
        /\ Cardinality(picked[t]) \in Nat
        /\ PickedUsers(t) \in SUBSET Users
        /\ User(t) \notin PickedUsers(t)
    BY <1>2, PickedCount
  <2>3. Total(Link(NoLinks, PickedUsers(t))) = Cardinality(picked[t])
    BY <2>1, <2>2, TotalLink, TotalNone
  <2>4. User(t) \in Users
    BY JoinType
  <2>5. Link(NoLinks, PickedUsers(t))[User(t)] = 0
    BY <2>2, <2>4 DEF Link, NoLinks
  <2>6. QED
    BY <1>1, <2>3, <2>5, NewDocType DEF Degree
<1>4. \A e \in docs' : Degree(e)
  BY <1>2, <1>3 DEF DegreeInv, Degrees
<1>5. Degrees'
  BY <1>4 DEF Degrees, Degree
<1>6. QED
  BY <1>1, <1>2, <1>5, DegreeDone, NobodyPulls

LEMMA DegreeQuietJoin ==
  ASSUME DegreeInv, NEW t \in Joins, QuietJoin(t)
  PROVE  Degrees' /\ PickedSizes' /\ PickedHold' /\ PullMatches'
<1>1. Typed /\ OneSectionAtATime /\ DataTyped
  BY DEF DegreeInv, TypeInv, RegInv
<1>2. /\ UNCHANGED <<docs, picked, fpc, work>>
      /\ \A u \in Joins : u # t => jpc'[u] = jpc[u]
      /\ jpc'[t] \in JoinSection =>
           jpc'[t] = "pick" /\ jpc[t] \notin JoinSection \cup {"failed"}
      /\ jpc'[t] \notin JoinSection => jpc'[t] = "failed" \/ jpc[t] \notin JoinSection
      /\ jpc[t] # "failed"
  BY <1>1, QuietJoinMoves
<1>3. Degrees' /\ PullMatches'
  BY <1>2 DEF DegreeInv, Degrees, Degree, PullMatches, SameOwner
<1>4. jpc'[t] # "failed" => picked[t] = {}
  BY <1>2 DEF DegreeInv, PickedSizes
<1>5. PickedSizes'
  <2>1. Cardinality({}) = 0 /\ Picks \in Nat /\ Picks > 0
    BY FS_EmptySet, BoundAssumption
  <2>2. QED
    BY <1>2, <1>4, <2>1 DEF DegreeInv, PickedSizes, JoinSection
<1>6. PickedHold'
  <2>1. jpc'[t] \in JoinSection => picked[t] = {}
    BY <1>4 DEF JoinSection
  <2>2. QED
    BY <1>2, <2>1 DEF DegreeInv, PickedHold, PickedDoc, User
<1>7. QED
  BY <1>3, <1>5, <1>6

LEMMA DegreeQuietFree ==
  ASSUME DegreeInv, NEW s \in Sockets, QuietFree(s)
  PROVE  Degrees' /\ PickedSizes' /\ PickedHold' /\ PullMatches'
<1>1. /\ UNCHANGED <<docs, picked, jpc, work>>
      /\ \A r \in Sockets : r # s => fpc'[r] = fpc[r]
      /\ fpc'[s] = "pull" => fpc[s] = "pull"
  BY QuietFreeMoves DEF DegreeInv, TypeInv, RegInv, FreeSection
<1>2. Degrees' /\ PickedSizes'
  BY <1>1 DEF DegreeInv, Degrees, Degree, PickedSizes
<1>3. PickedHold'
  BY <1>1 DEF DegreeInv, PickedHold, PickedDoc
<1>4. PullMatches'
  BY <1>1 DEF DegreeInv, PullMatches, SameOwner
<1>5. QED
  BY <1>2, <1>3, <1>4

(* During free() no join is in its section.                                *)
LEMMA NobodyPicks ==
  ASSUME DegreeInv, NEW s \in Sockets, fpc[s] \in FreeSection, UNCHANGED <<jpc, picked>>
  PROVE  PickedSizes' /\ PickedHold'
<1>1. \A t \in Joins : jpc[t] \notin JoinSection
  BY FreeAlone DEF DegreeInv, TypeInv, RegInv
<1>2. QED
  BY <1>1 DEF DegreeInv, PickedSizes, PickedHold

LEMMA DegreeFreeWork ==
  ASSUME DegreeInv, NEW s \in Sockets,
         FreeDelete(s) \/ FreeAggregate(s) \/ FreePull(s) \/ FreeRepick(s) \/ FreeLink(s)
  PROVE  Degrees' /\ PickedSizes' /\ PickedHold' /\ PullMatches'
<1>1. Typed /\ OneSectionAtATime /\ DataTyped /\ OneDocPerUser
  BY DEF DegreeInv, TypeInv, RegInv
<1>2. /\ UNCHANGED <<jpc, picked>> /\ fpc[s] \in FreeSection
      /\ \A r \in Sockets : r # s => fpc'[r] = fpc[r]
  BY <1>1, FreeWorkMoves
<1>3. PickedSizes' /\ PickedHold'
  BY <1>2, NobodyPicks
<1>4. \A r \in Sockets : r # s => fpc'[r] # "pull"
  BY <1>1, <1>2, FreeAlone DEF FreeSection
<1>5. ASSUME fpc'[s] # "pull" PROVE PullMatches'
  BY <1>4, <1>5 DEF PullMatches
<1>6. ASSUME docs' \in SUBSET docs PROVE Degrees'
  BY <1>6 DEF DegreeInv, Degrees, Degree
<1>7. CASE FreeDelete(s)
  <2>1. docs' \in SUBSET docs /\ fpc'[s] # "pull"
    BY <1>1, <1>7 DEF FreeDelete, Typed
  <2>2. QED
    BY <1>3, <1>5, <1>6, <2>1
<1>8. CASE FreeAggregate(s)
  <2>1. docs' = docs
    BY <1>8 DEF FreeAggregate
  <2>2. CASE Linked(s) = {}
    <3>1. fpc'[s] # "pull"
      BY <1>1, <1>8, <2>2 DEF FreeAggregate, FinishFree, Typed
    <3>2. QED
      BY <1>3, <1>5, <1>6, <2>1, <3>1
  <2>3. CASE Linked(s) # {}
    <3>1. work'[s].pull = Linked(s)
      BY <1>1, <1>8, <2>3 DEF FreeAggregate, DataTyped, Works
    <3>2. ASSUME NEW m \in Linked(s), NEW d \in docs, SameOwner(d, m)
          PROVE  m.rest = Unlink(d.connects, UserOf[s])
      <4>1. PICK e \in docs : /\ m.sock_id = e.sock_id
                              /\ m.rest = Unlink(e.connects, UserOf[s])
        BY DEF Linked
      <4>2. d = e
        BY <1>1, <3>2, <4>1 DEF OneDocPerUser, SameOwner
      <4>3. QED
        BY <4>1, <4>2
    <3>3. PullMatches'
      BY <1>4, <2>1, <3>1, <3>2 DEF PullMatches, SameOwner
    <3>4. QED
      BY <1>3, <1>6, <2>1, <3>3
  <2>4. QED
    BY <2>2, <2>3
<1>9. CASE FreePull(s)
  <2>1. PICK m \in work[s].pull :
          /\ docs' = {IF d.addr = m.addr /\ d.sock_id = m.sock_id
                      THEN Pulled(d, m.rest) ELSE d : d \in docs}
          /\ work' = [work EXCEPT ![s].pull = @ \ {m}]
    BY <1>9 DEF FreePull
  <2>2. fpc[s] = "pull" /\ UserOf[s] \in Users
    BY <1>9, UserOfAssumption DEF FreePull
  <2>3. \A d \in docs, k \in work[s].pull :
          SameOwner(d, k) => k.rest = Unlink(d.connects, UserOf[s])
    BY <2>2 DEF DegreeInv, PullMatches
  <2>4. \A d \in docs : d \in Documents /\ Degree(d)
    BY <1>1 DEF DataTyped, DegreeInv, Degrees
  <2>5. \A d \in docs : SameOwner(d, m) => Degree(Pulled(d, m.rest))
    BY <2>2, <2>3, <2>4, PulledDegree
  <2>6. \A e \in docs' : Degree(e)
    BY <2>1, <2>4, <2>5 DEF SameOwner
  <2>7. Degrees'
    BY <2>6 DEF Degrees, Degree
  <2>8. ASSUME NEW k \in work'[s].pull, NEW e \in docs', SameOwner(e, k)
        PROVE  k.rest = Unlink(e.connects, UserOf[s])
    <3>1. k \in work[s].pull /\ k # m
      BY <1>1, <2>1 DEF DataTyped, Works
    <3>2. PICK d \in docs : e = IF d.addr = m.addr /\ d.sock_id = m.sock_id
                                THEN Pulled(d, m.rest) ELSE d
      BY <2>1
    <3>3. CASE SameOwner(d, m)
      <4>1. e.addr = d.addr /\ e.sock_id = d.sock_id
        BY <3>2, <3>3 DEF SameOwner, Pulled, Relinked
      <4>2. k.rest = m.rest
        BY <2>3, <2>8, <3>1, <3>3, <4>1 DEF SameOwner
      <4>3. k \in Members /\ m \in Members
        BY <1>1, <3>1 DEF DataTyped, Works
      <4>4. k = m
        <5>1. k.addr = m.addr /\ k.sock_id = m.sock_id
          BY <2>8, <3>3, <4>1 DEF SameOwner
        <5>2. \A n \in Members :
                n = [addr |-> n.addr, sock_id |-> n.sock_id, rest |-> n.rest]
          BY DEF Members
        <5>3. k = [addr |-> k.addr, sock_id |-> k.sock_id, rest |-> k.rest]
          BY <4>3, <5>2
        <5>4. m = [addr |-> m.addr, sock_id |-> m.sock_id, rest |-> m.rest]
          BY <4>3, <5>2
        <5>5. QED
          BY <4>2, <5>1, <5>3, <5>4
      <4>5. QED
        BY <3>1, <4>4
    <3>4. CASE ~SameOwner(d, m)
      <4>1. e = d
        BY <3>2, <3>4 DEF SameOwner
      <4>2. QED
        BY <2>3, <2>8, <3>1, <4>1
    <3>5. QED
      BY <3>3, <3>4
  <2>9. PullMatches'
    BY <1>4, <2>8 DEF PullMatches, SameOwner
  <2>10. QED
    BY <1>3, <2>7, <2>9
<1>10. CASE FreeRepick(s)
  <2>1. PICK m \in work[s].repick : RepickNone(s, m) \/ RepickOne(s, m)
    BY <1>10 DEF FreeRepick
  <2>2. fpc'[s] # "pull"
    BY <1>1, <2>1 DEF RepickNone, RepickOne, NextRepick, FinishFree, Typed
  <2>3. CASE RepickNone(s, m)
    BY <1>3, <1>5, <1>6, <2>2, <2>3 DEF RepickNone
  <2>4. CASE RepickOne(s, m)
    <3>1. PICK cl \in Pickable(m.sock_id) :
            docs' = (docs \ {cl}) \cup {Pushed(cl, {m.sock_id})}
      BY <2>4 DEF RepickOne
    <3>2. cl \in Documents /\ Degree(cl) /\ cl.sock_id # m.sock_id
      BY <1>1 DEF Pickable, DataTyped, DegreeInv, Degrees
    <3>3. m.sock_id \in Users
      BY <1>1 DEF DataTyped, Works, Members
    <3>4. Degree(Pushed(cl, {m.sock_id}))
      BY <3>2, <3>3, PushedDegree
    <3>5. \A e \in docs' : Degree(e)
      BY <3>1, <3>4 DEF DegreeInv, Degrees
    <3>6. Degrees'
      BY <3>5 DEF Degrees, Degree
    <3>7. QED
      BY <1>3, <1>5, <2>2, <3>6
  <2>5. QED
    BY <2>1, <2>3, <2>4
<1>11. CASE FreeLink(s)
  <2>1. docs' = docs
    BY <1>1, <1>11, LinkFindsNothing
  <2>2. fpc'[s] # "pull"
    BY <1>1, <1>11 DEF FreeLink, NextRepick, FinishFree, Typed
  <2>3. QED
    BY <1>3, <1>5, <1>6, <2>1, <2>2
<1>12. QED
  BY <1>7, <1>8, <1>9, <1>10, <1>11

LEMMA DegreeInvStep == DegreeInv /\ [Next]_vars => DegreeInv'
<1> SUFFICES ASSUME DegreeInv, [Next]_vars PROVE DegreeInv'
  OBVIOUS
<1>1. TypeInv'
  BY TypeInvStep DEF DegreeInv
<1>2. CASE UNCHANGED vars
  <2>1. Degrees' /\ PickedSizes'
    BY <1>2 DEF vars, joinVars, DegreeInv, Degrees, Degree, PickedSizes
  <2>2. PickedHold' /\ PullMatches'
    BY <1>2 DEF vars, joinVars, freeVars, DegreeInv, PickedHold, PickedDoc, PullMatches,
                SameOwner
  <2>3. QED
    BY <1>1, <2>1, <2>2 DEF DegreeInv
<1>3. ASSUME NEW t \in Joins, JoinRequest(t) \/ JoinStep(t) \/ JoinDbError(t)
      PROVE  DegreeInv'
  BY <1>1, <1>3, DegreeQuietJoin, DegreePick, DegreeUpdate, DegreeInsert
     DEF JoinStep, QuietJoin, DegreeInv
<1>4. ASSUME NEW s \in Sockets, SocketStep(s) \/ FreeStep(s) \/ FreeDbError(s)
      PROVE  DegreeInv'
  BY <1>1, <1>4, DegreeQuietFree, DegreeFreeWork DEF FreeStep, QuietFree, DegreeInv
<1>5. QED
  BY <1>2, <1>3, <1>4 DEF Next

(* nconnects counts the links in connects, and nobody is linked to itself. *)
THEOREM DegreesCount == Spec => []DegreeMatchesLinks
<1>1. DegreeInv => DegreeMatchesLinks
  BY DEF DegreeInv, Degrees, Degree, DegreeMatchesLinks
<1>2. QED
  BY DegreeInvInit, DegreeInvStep, <1>1, PTL DEF Spec

----------------------------------------------------------------------------
(* The degree of a member is bounded.                                      *)

\* The joins of a user that have ended, when pc says where joins are.
Ended(u, pc) == {t \in Joins : User(t) = u /\ pc[t] \in {"done", "failed"}}
Cap(k) == MaxConnects + Picks * (k - 1)

\* A member is within the cap of the joins it is the result of.
Capped(d, pc) ==
  Ended(d.sock_id, pc) # {} /\ d.nconnects <= Cap(Cardinality(Ended(d.sock_id, pc)))
DegreeCap == \A d \in docs : Capped(d, jpc)

LEMMA JoinsFinite == IsFiniteSet(Joins)
<1> DEFINE Part == {{s} \X (1 .. MaxJoins[s]) : s \in Sockets}
           f == [s \in Sockets |-> {s} \X (1 .. MaxJoins[s])]
<1>1. f \in Surjection(Sockets, Part)
  BY DEF Surjection
<1>2. IsFiniteSet(Part)
  BY <1>1, FS_Surjection, FiniteAssumption
<1>3. ASSUME NEW s \in Sockets
      PROVE  IsFiniteSet({s} \X (1 .. MaxJoins[s]))
  <2>1. MaxJoins[s] \in Int
    BY MaxJoinsAssumption
  <2>2. IsFiniteSet(1 .. MaxJoins[s])
    BY <2>1, FS_Interval
  <2>3. QED
    BY <2>2, FS_Singleton, FS_Product
<1>4. IsFiniteSet(UNION Part)
  BY <1>2, <1>3, FS_UNION
<1>5. QED
  BY <1>4 DEF Joins

LEMMA EndedFinite ==
  ASSUME NEW u, NEW pc
  PROVE  /\ IsFiniteSet(Ended(u, pc)) /\ Cardinality(Ended(u, pc)) \in Nat
         /\ Ended(u, pc) # {} => Cardinality(Ended(u, pc)) >= 1
<1>1. Ended(u, pc) \in SUBSET Joins
  BY DEF Ended
<1>2. IsFiniteSet(Ended(u, pc)) /\ Cardinality(Ended(u, pc)) \in Nat
  BY <1>1, JoinsFinite, FS_Subset, FS_CardinalityType
<1>3. Ended(u, pc) # {} => Cardinality(Ended(u, pc)) # 0
  BY <1>2, FS_EmptySet
<1>4. QED
  BY <1>2, <1>3

LEMMA CapGrows ==
  ASSUME NEW k \in Nat, NEW l \in Nat, k >= 1, l >= k
  PROVE  /\ Cap(k) \in Int /\ Cap(l) \in Int
         /\ MaxConnects <= Cap(k) /\ Cap(k) <= Cap(l)
         /\ l > k => Cap(k) + Picks <= Cap(l)
<1>1. MaxConnects \in Nat /\ Picks \in Nat
  BY BoundAssumption
<1>2. PICK i \in Nat : k = i + 1
  <2>1. k - 1 \in Nat /\ k = (k - 1) + 1
    OBVIOUS
  <2>2. QED
    BY <2>1
<1>3. PICK j \in Nat : l = i + j + 1
  <2>1. l - k \in Nat /\ l = i + (l - k) + 1
    BY <1>2
  <2>2. QED
    BY <2>1
<1>4. Picks * i \in Nat /\ Picks * j \in Nat /\ Picks * (i + j) = Picks * i + Picks * j
  BY <1>1
<1>5. j > 0 => Picks * j >= Picks
  BY <1>1
<1>6. k - 1 = i /\ l - 1 = i + j
  BY <1>2, <1>3
<1>7. Cap(k) = MaxConnects + Picks * i /\ Cap(l) = MaxConnects + Picks * (i + j)
  BY <1>6 DEF Cap
<1>8. l > k => j > 0
  BY <1>2, <1>3
<1>9. QED
  BY <1>1, <1>4, <1>5, <1>7, <1>8

(* A document that is within the cap, or within MaxConnects, stays so.     *)
LEMMA CapKept ==
  ASSUME NEW d \in Documents, NEW e \in Documents, NEW pc, NEW qc,
         \A t \in Joins : pc[t] \in {"done", "failed"} => qc[t] \in {"done", "failed"},
         Capped(e, pc), e.sock_id = d.sock_id,
         d.nconnects <= e.nconnects \/ d.nconnects <= MaxConnects
  PROVE  Capped(d, qc)
<1> DEFINE before == Ended(d.sock_id, pc)
           after == Ended(d.sock_id, qc)
<1>1. before \in SUBSET after
  BY DEF Ended
<1>2. before # {} /\ after # {} /\ e.nconnects <= Cap(Cardinality(before))
  BY <1>1 DEF Capped
<1>3. /\ Cardinality(before) \in Nat /\ Cardinality(before) >= 1
      /\ Cardinality(after) \in Nat /\ IsFiniteSet(after)
  BY <1>2, EndedFinite
<1>4. Cardinality(before) <= Cardinality(after)
  BY <1>1, <1>3, FS_Subset
<1>5. /\ Cap(Cardinality(before)) \in Int /\ Cap(Cardinality(after)) \in Int
      /\ Cap(Cardinality(before)) <= Cap(Cardinality(after))
      /\ MaxConnects <= Cap(Cardinality(before))
  BY <1>3, <1>4, CapGrows
<1>6. d.nconnects \in Nat /\ e.nconnects \in Nat /\ MaxConnects \in Nat
  BY BoundAssumption DEF Documents
<1>7. d.nconnects <= Cap(Cardinality(after))
  BY <1>2, <1>5, <1>6
<1>8. QED
  BY <1>2, <1>7 DEF Capped

(* The end of a further join allows for Picks more.                        *)
LEMMA CapRaised ==
  ASSUME NEW d \in Documents, NEW e \in Documents, NEW pc, NEW qc,
         NEW t \in Joins, User(t) = d.sock_id,
         pc[t] \notin {"done", "failed"}, qc[t] = "done",
         \A u \in Joins : u # t => qc[u] = pc[u],
         Capped(e, pc), e.sock_id = d.sock_id,
         NEW n \in Nat, n <= Picks, d.nconnects = e.nconnects + n
  PROVE  Capped(d, qc)
<1> DEFINE before == Ended(d.sock_id, pc)
           after == Ended(d.sock_id, qc)
<1>1. after = before \cup {t} /\ t \notin before
  BY DEF Ended
<1>2. before # {} /\ after # {} /\ e.nconnects <= Cap(Cardinality(before))
  BY <1>1 DEF Capped
<1>3. Cardinality(before) \in Nat /\ Cardinality(before) >= 1 /\ IsFiniteSet(before)
  BY <1>2, EndedFinite
<1>4. Cardinality(after) = Cardinality(before) + 1
  BY <1>1, <1>3, FS_AddElement
<1>5. /\ Cap(Cardinality(before)) \in Int /\ Cap(Cardinality(after)) \in Int
      /\ Cap(Cardinality(before)) + Picks <= Cap(Cardinality(after))
  BY <1>3, <1>4, CapGrows
<1>6. e.nconnects \in Nat /\ Picks \in Nat
  BY BoundAssumption DEF Documents
<1>7. d.nconnects <= Cap(Cardinality(after))
  BY <1>2, <1>5, <1>6
<1>8. QED
  BY <1>2, <1>7 DEF Capped

(* So does the end of the first one, whose document is new.                *)
LEMMA CapNew ==
  ASSUME NEW d \in Documents, NEW qc, NEW t \in Joins, User(t) = d.sock_id,
         qc[t] = "done", d.nconnects <= Picks
  PROVE  Capped(d, qc)
<1> DEFINE after == Ended(d.sock_id, qc)
<1>1. after # {}
  BY DEF Ended
<1>2. Cardinality(after) \in Nat /\ Cardinality(after) >= 1
  BY <1>1, EndedFinite
<1>3. Cap(Cardinality(after)) \in Int /\ MaxConnects <= Cap(Cardinality(after))
  BY <1>2, CapGrows
<1>4. d.nconnects \in Nat /\ Picks \in Nat /\ MaxConnects \in Nat /\ Picks <= MaxConnects
  BY BoundAssumption DEF Documents
<1>5. d.nconnects <= Cap(Cardinality(after))
  BY <1>3, <1>4
<1>6. QED
  BY <1>1, <1>5 DEF Capped

(* A document that a step leaves alone stays capped.                       *)
LEMMA CapAlone ==
  ASSUME DegreeInv, DegreeCap, NEW qc,
         \A t \in Joins : jpc[t] \in {"done", "failed"} => qc[t] \in {"done", "failed"},
         NEW d \in docs
  PROVE  Capped(d, qc)
<1>1. d \in Documents
  BY DEF DegreeInv, TypeInv, DataTyped
<1>2. d.nconnects <= d.nconnects
  BY <1>1 DEF Documents
<1>3. Capped(d, jpc)
  BY DEF DegreeCap
<1>4. QED
  BY <1>1, <1>2, <1>3, CapKept

(* A member is only picked below the limit.                                *)
LEMMA CapPicked ==
  ASSUME DegreeInv, DegreeCap, NEW qc,
         \A t \in Joins : jpc[t] \in {"done", "failed"} => qc[t] \in {"done", "failed"},
         NEW u \in Users, NEW cl \in Pickable(u)
  PROVE  Capped(Pushed(cl, {u}), qc)
<1>1. cl \in Documents /\ Capped(cl, jpc) /\ cl.nconnects < MaxConnects
  BY DEF Pickable, DegreeInv, TypeInv, DataTyped, DegreeCap
<1>2. {u} \in SUBSET Users /\ Cardinality({u}) = 1
  BY FS_Singleton
<1>3. /\ Pushed(cl, {u}) \in Documents /\ Pushed(cl, {u}).sock_id = cl.sock_id
      /\ Pushed(cl, {u}).nconnects = cl.nconnects + 1
  BY <1>1, <1>2, PushedType
<1>4. Pushed(cl, {u}).nconnects <= MaxConnects
  BY <1>1, <1>3, BoundAssumption DEF Documents
<1>5. QED
  BY <1>1, <1>3, <1>4, CapKept

LEMMA CapJoinStep ==
  ASSUME DegreeInv, DegreeCap, NEW t \in Joins,
         JoinRequest(t) \/ JoinStep(t) \/ JoinDbError(t)
  PROVE  DegreeCap'
<1>1. Typed /\ OneSectionAtATime /\ DataTyped
  BY DEF DegreeInv, TypeInv, RegInv
<1> DEFINE Stay == \A u \in Joins : jpc[u] \in {"done", "failed"} => jpc'[u] \in {"done", "failed"}
<1>2. CASE QuietJoin(t)
  <2>1. Stay /\ docs' = docs
    BY <1>1, <1>2, QuietJoinMoves
  <2>2. \A d \in docs' : Capped(d, jpc')
    BY <2>1, CapAlone
  <2>3. QED
    BY <2>2 DEF DegreeCap
<1>3. CASE Pick(t)
  <2>1. Stay
    BY <1>1, <1>3, PickMoves
  <2>2. User(t) \in Users
    BY JoinType
  <2>3. \A cl \in Pickable(User(t)) : Capped(Pushed(cl, {User(t)}), jpc')
    BY <2>1, <2>2, CapPicked
  <2>4. \A d \in docs : Capped(d, jpc')
    BY <2>1, CapAlone
  <2>5. docs' = docs \/ \E cl \in Pickable(User(t)) :
                          docs' = (docs \ {cl}) \cup {Pushed(cl, {User(t)})}
    BY <1>1, <1>3, PickMoves
  <2>6. \A d \in docs' : Capped(d, jpc')
    BY <2>3, <2>4, <2>5
  <2>7. QED
    BY <2>6 DEF DegreeCap
<1>4. CASE UpdateOwn(t)
  <2>1. Stay /\ jpc[t] = "update" /\ jpc[t] \in JoinSection
    BY <1>1, <1>4, UpdateMoves DEF JoinSection
  <2>2. \A d \in docs : Capped(d, jpc')
    BY <2>1, CapAlone
  <2>3. ASSUME NEW d \in docs, d.sock_id = User(t), jpc'[t] = "done",
               docs' = (docs \ {d}) \cup {Pushed(d, PickedUsers(t))}
        PROVE  \A e \in docs' : Capped(e, jpc')
    <3>1. /\ Cardinality(PickedUsers(t)) = Cardinality(picked[t])
          /\ Cardinality(picked[t]) \in Nat
          /\ PickedUsers(t) \in SUBSET Users
      BY <2>1, PickedCount
    <3>2. Cardinality(picked[t]) <= Picks
      BY <2>1 DEF DegreeInv, PickedSizes
    <3>3. d \in Documents /\ Capped(d, jpc)
      BY <1>1 DEF DataTyped, DegreeCap
    <3>4. /\ Pushed(d, PickedUsers(t)) \in Documents
          /\ Pushed(d, PickedUsers(t)).sock_id = d.sock_id
          /\ Pushed(d, PickedUsers(t)).nconnects = d.nconnects + Cardinality(picked[t])
      BY <3>1, <3>3, PushedType
    <3>5. \A u \in Joins : u # t => jpc'[u] = jpc[u]
      BY <1>1, <1>4, UpdateMoves
    <3>6. jpc[t] \notin {"done", "failed"}
      BY <2>1
    <3>7. Capped(Pushed(d, PickedUsers(t)), jpc')
      BY <2>3, <3>1, <3>2, <3>3, <3>4, <3>5, <3>6, CapRaised
    <3>8. QED
      BY <2>2, <2>3, <3>7
  <2>4. docs' = docs \/ \E d \in docs :
          /\ d.sock_id = User(t) /\ jpc'[t] = "done"
          /\ docs' = (docs \ {d}) \cup {Pushed(d, PickedUsers(t))}
    BY <1>1, <1>4, UpdateMoves
  <2>5. \A d \in docs' : Capped(d, jpc')
    BY <2>2, <2>3, <2>4
  <2>6. QED
    BY <2>5 DEF DegreeCap
<1>5. CASE InsertOwn(t)
  <2>1. /\ Stay /\ jpc[t] = "insert" /\ jpc[t] \in JoinSection
        /\ jpc'[t] = "done" /\ docs' = docs \cup {NewDoc(t)}
    BY <1>1, <1>5, InsertMoves DEF JoinSection
  <2>2. \A d \in docs : Capped(d, jpc')
    BY <2>1, CapAlone
  <2>3. Cardinality(picked[t]) <= Picks
    BY <2>1 DEF DegreeInv, PickedSizes
  <2>4. Capped(NewDoc(t), jpc')
    BY <1>1, <2>1, <2>3, NewDocType, CapNew
  <2>5. \A d \in docs' : Capped(d, jpc')
    BY <2>1, <2>2, <2>4
  <2>6. QED
    BY <2>5 DEF DegreeCap
<1>6. QED
  BY <1>2, <1>3, <1>4, <1>5 DEF JoinStep, QuietJoin

LEMMA CapFreeStep ==
  ASSUME DegreeInv, DegreeCap, NEW s \in Sockets,
         SocketStep(s) \/ FreeStep(s) \/ FreeDbError(s)
  PROVE  DegreeCap'
<1>1. Typed /\ OneSectionAtATime /\ DataTyped
  BY DEF DegreeInv, TypeInv, RegInv
<1>2. jpc' = jpc
  BY <1>1, QuietFreeMoves, FreeWorkMoves DEF FreeStep, QuietFree
<1>3. ASSUME docs' \in SUBSET docs PROVE DegreeCap'
  BY <1>2, <1>3 DEF DegreeCap
<1>4. CASE QuietFree(s)
  BY <1>1, <1>3, <1>4, QuietFreeMoves
<1>5. CASE FreeDelete(s) \/ FreeAggregate(s)
  BY <1>3, <1>5 DEF FreeDelete, FreeAggregate
<1>6. CASE FreePull(s)
  <2>1. PICK m \in work[s].pull :
          docs' = {IF d.addr = m.addr /\ d.sock_id = m.sock_id
                   THEN Pulled(d, m.rest) ELSE d : d \in docs}
    BY <1>6 DEF FreePull
  <2>2. fpc[s] = "pull" /\ UserOf[s] \in Users
    BY <1>6, UserOfAssumption DEF FreePull
  <2>3. ASSUME NEW d \in docs, SameOwner(d, m)
        PROVE  Capped(Pulled(d, m.rest), jpc)
    <3>1. m.rest = Unlink(d.connects, UserOf[s])
      BY <2>2, <2>3 DEF DegreeInv, PullMatches
    <3>2. d \in Documents /\ Degree(d) /\ Capped(d, jpc)
      BY <1>1 DEF DataTyped, DegreeInv, Degrees, DegreeCap
    <3>3. d.connects \in Links
      BY <3>2 DEF Documents
    <3>4. m.rest \in Links
      BY <2>2, <3>1, <3>3, TotalUnlink
    <3>5. /\ Pulled(d, m.rest) \in Documents
          /\ Pulled(d, m.rest).nconnects <= d.nconnects
          /\ d.sock_id = Pulled(d, m.rest).sock_id
      BY <2>2, <3>1, <3>2, <3>4, PulledDegree, PulledType
    <3>6. QED
      BY <3>2, <3>5, CapKept
  <2>4. \A d \in docs : Capped(d, jpc)
    BY DEF DegreeCap
  <2>5. \A e \in docs' : Capped(e, jpc)
    BY <2>1, <2>3, <2>4 DEF SameOwner
  <2>6. QED
    BY <1>2, <2>5 DEF DegreeCap
<1>7. CASE FreeRepick(s)
  <2>1. PICK m \in work[s].repick : RepickNone(s, m) \/ RepickOne(s, m)
    BY <1>7 DEF FreeRepick
  <2>2. CASE RepickNone(s, m)
    BY <1>3, <2>2 DEF RepickNone
  <2>3. CASE RepickOne(s, m)
    <3>1. PICK cl \in Pickable(m.sock_id) :
            docs' = (docs \ {cl}) \cup {Pushed(cl, {m.sock_id})}
      BY <2>3 DEF RepickOne
    <3>2. m.sock_id \in Users
      BY <1>1 DEF DataTyped, Works, Members
    <3>3. Capped(Pushed(cl, {m.sock_id}), jpc)
      BY <3>2, CapPicked
    <3>4. \A e \in docs' : Capped(e, jpc)
      BY <3>1, <3>3 DEF DegreeCap
    <3>5. QED
      BY <1>2, <3>4 DEF DegreeCap
  <2>4. QED
    BY <2>1, <2>2, <2>3
<1>8. CASE FreeLink(s)
  BY <1>1, <1>3, <1>8, LinkFindsNothing
<1>9. QED
  BY <1>4, <1>5, <1>6, <1>7, <1>8 DEF FreeStep, QuietFree

LEMMA CapBounds ==
  ASSUME DegreeInv, DegreeCap
  PROVE  DegreeBounded
<1> SUFFICES ASSUME NEW d \in docs
             PROVE  d.nconnects <=
                      MaxConnects + Picks * (Cardinality(JoinsOf(d.sock_id)) - 1)
  BY DEF DegreeBounded
<1> DEFINE before == Ended(d.sock_id, jpc)
           after == JoinsOf(d.sock_id)
<1>1. before \in SUBSET after
  BY DEF Ended, JoinsOf
<1>2. before # {} /\ d.nconnects <= Cap(Cardinality(before))
  BY DEF DegreeCap, Capped
<1>3. Cardinality(before) \in Nat /\ Cardinality(before) >= 1
  BY <1>2, EndedFinite
<1>4. IsFiniteSet(after) /\ Cardinality(after) \in Nat
  <2>1. after \in SUBSET Joins
    BY DEF JoinsOf
  <2>2. QED
    BY <2>1, JoinsFinite, FS_Subset, FS_CardinalityType
<1>5. Cardinality(before) <= Cardinality(after)
  BY <1>1, <1>4, FS_Subset
<1>6. /\ Cap(Cardinality(before)) \in Int /\ Cap(Cardinality(after)) \in Int
      /\ Cap(Cardinality(before)) <= Cap(Cardinality(after))
  BY <1>3, <1>4, <1>5, CapGrows
<1>7. d.nconnects \in Nat
  BY DEF DegreeInv, TypeInv, DataTyped, Documents
<1>8. d.nconnects <= Cap(Cardinality(after))
  BY <1>2, <1>6, <1>7
<1>9. QED
  BY <1>8 DEF Cap

(* The degree stays within MaxConnects and what later joins of the user    *)
(* add.                                                                    *)
THEOREM Bounded == Spec => []DegreeBounded
<1>1. Init => DegreeInv /\ DegreeCap
  BY DegreeInvInit DEF Init, DegreeCap
<1>2. DegreeInv /\ DegreeCap /\ [Next]_vars => (DegreeInv /\ DegreeCap)'
  <2> SUFFICES ASSUME DegreeInv, DegreeCap, [Next]_vars
               PROVE  DegreeInv' /\ DegreeCap'
    OBVIOUS
  <2>1. DegreeInv'
    BY DegreeInvStep
  <2>2. CASE UNCHANGED vars
    BY <2>1, <2>2 DEF vars, joinVars, DegreeCap
  <2>3. CASE Next
    BY <2>1, <2>3, CapJoinStep, CapFreeStep DEF Next
  <2>4. QED
    BY <2>2, <2>3
<1>3. QED
  BY <1>1, <1>2, CapBounds, PTL DEF Spec
=============================================================================
