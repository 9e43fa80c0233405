------------------------------ MODULE Signaler ------------------------------
(***************************************************************************)
(* The room registry of the signalling server, signaler/src/symple/        *)
(* symple.js, for one room.  Node.js runs one handler at a time and        *)
(* switches only at an await, a timer or a callback, so a step below runs  *)
(* from one of those to the next and contains at most one database call.   *)
(*                                                                         *)
(* The collection "clients" + room holds a document per member: the        *)
(* socket it joined with (addr), its user (sock_id), the users it was told *)
(* to connect to (connects, here a count per user) and their number        *)
(* (nconnects).  Critical[room] is the server's hand-made lock around every *)
(* sequence of database calls; Del[socket.id+room] marks a socket whose    *)
(* membership is being freed.                                              *)
(***************************************************************************)
EXTENDS Naturals, FiniteSets

CONSTANTS Sockets,      \* socket ids
          Users,        \* peer.user
          UserOf,       \* the user a socket announces
          MaxConnects,  \* 4: the degree up to which a member is offered
          Picks,        \* 2: members offered to one that joins
          MaxJoins,     \* bound: "join" messages, per socket
          DbMayFail     \* whether a database call may reject

ASSUME UserOfAssumption == UserOf \in [Sockets -> Users]
ASSUME MaxJoinsAssumption == MaxJoins \in [Sockets -> Nat]
ASSUME FiniteAssumption == IsFiniteSet(Sockets) /\ IsFiniteSet(Users)
ASSUME DisjointAssumption == Sockets \cap Users = {}
ASSUME BoundAssumption == /\ MaxConnects \in Nat /\ Picks \in Nat \ {0}
                          /\ Picks <= MaxConnects
                          /\ DbMayFail \in BOOLEAN

\* One task per "join" handled: the n-th of socket s is <<s, n>>.
Joins == UNION {{s} \X (1 .. MaxJoins[s]) : s \in Sockets}

VARIABLES status,    \* per socket: where its connection is
          rooms2,    \* socket.rooms2[room]
          indexed,   \* Rooms[room]
          critical,  \* Critical[room]
          del,       \* Del[socket.id+room]
          docs,      \* the collection
          jpc,       \* per join: the await it is suspended in
          picked,    \* per join: the <<user, addr>> picked (client.connects, sendTo)
          fpc,       \* per socket: the await its free() is suspended in
          work,      \* per socket: the members free() has still to treat
          intros,    \* history: presence sent, <<from socket, to socket>>
          replaced   \* history: links free() made, <<holder, linked user>>

joinVars == <<jpc, picked>>
freeVars == <<fpc, work>>
history == <<intros, replaced>>
vars == <<status, rooms2, indexed, critical, del, docs, joinVars, freeVars, history>>

User(t) == UserOf[t[1]]
Connected(s) == status[s] \in {"connected", "announced"}

\* The suspension points between Critical[room] = true and = false.
JoinSection == {"pick", "update", "insert"}
FreeSection == {"delete", "aggregate", "pull", "repick", "link"}

----------------------------------------------------------------------------
(* Documents *)

NoLinks == [u \in Users |-> 0]
Link(c, us) == [u \in Users |-> IF u \in us THEN c[u] + 1 ELSE c[u]]
Unlink(c, v) == [c EXCEPT ![v] = 0]

\* The entries of a connects array, and their number.
Entries(c) == UNION {{u} \X (1 .. c[u]) : u \in Users}
Total(c) == Cardinality(Entries(c))

\* An update of a document touches its links only.
Relinked(d, c, n) ==
  [addr |-> d.addr, sock_id |-> d.sock_id, connects |-> c, nconnects |-> n]

\* { $inc: {nconnects: |us|}, $push: {connects: us} }
PushedCountOnly(d, us) ==                    \* slip: no $push
  Relinked(d, d.connects, d.nconnects + Cardinality(us))
Pushed(d, us) ==
  Relinked(d, Link(d.connects, us), d.nconnects + Cardinality(us))

\* The filter of pickNodeToConnect for a client of user u.
PickableAtCap(u) == {d \in docs : /\ d.nconnects <= MaxConnects  \* slip: $lte
                                  /\ d.connects[u] = 0
                                  /\ d.sock_id # u}
Pickable(u) == {d \in docs : /\ d.nconnects < MaxConnects
                             /\ d.connects[u] = 0
                             /\ d.sock_id # u}

\* findOneAndUpdate on one of the matching documents, when there is one.
UpdateOne(matching, us) ==
  IF matching = {} THEN docs' = docs
  ELSE \E d \in matching : docs' = (docs \ {d}) \cup {Pushed(d, us)}

----------------------------------------------------------------------------
(* Sockets *)

\* authorizeValidPeer: the socket has a peer and may join.
Announce(s) ==
  /\ status[s] = "connected"
  /\ status' = [status EXCEPT ![s] = "announced"]
  /\ UNCHANGED <<rooms2, indexed, critical, del, docs, joinVars, freeVars, history>>

\* The head of free(), up to its first await.
FreeStart(s) ==
  IF del[s]
  THEN /\ fpc' = [fpc EXCEPT ![s] = "done"]
       /\ UNCHANGED <<critical, del>>
  ELSE IF critical
  THEN /\ fpc' = [fpc EXCEPT ![s] = "wait"]
       /\ del' = [del EXCEPT ![s] = FALSE]
       /\ UNCHANGED critical
  ELSE /\ fpc' = [fpc EXCEPT ![s] = "delete"]
       /\ del' = [del EXCEPT ![s] = TRUE]
       /\ critical' = TRUE

\* The client goes away, or the 2 seconds to announce are over.
Disconnect(s) ==
  /\ Connected(s)
  /\ status' = [status EXCEPT ![s] = "gone"]
  /\ IF status[s] = "announced" /\ rooms2[s]
     THEN FreeStart(s)
     ELSE UNCHANGED <<fpc, critical, del>>
  /\ UNCHANGED <<rooms2, indexed, docs, joinVars, work, history>>

Leave(s) ==
  /\ status[s] = "announced"
  /\ rooms2[s]
  /\ rooms2' = [rooms2 EXCEPT ![s] = FALSE]
  /\ UNCHANGED <<status, indexed, critical, del, docs, joinVars, freeVars, history>>

----------------------------------------------------------------------------
(* Joining *)

\* The "join" handler from its rooms2 test on: socket.join is called back
\* later, unless the socket is in the room already.
EnterRoom(t) ==
  /\ rooms2' = [rooms2 EXCEPT ![t[1]] = TRUE]
  /\ jpc' = [jpc EXCEPT ![t] = IF rooms2[t[1]] THEN "done" ELSE "joining"]

JoinRequest(t) ==
  /\ status[t[1]] = "announced"
  /\ jpc[t] = "none"
  /\ \A n \in 1 .. t[2] - 1 : jpc[<<t[1], n>>] # "none"
  /\ IF indexed THEN EnterRoom(t)
     ELSE /\ jpc' = [jpc EXCEPT ![t] = "indexing"]
          /\ UNCHANGED rooms2
  /\ UNCHANGED <<status, indexed, critical, del, docs, picked, freeVars, history>>

\* addIdx has been awaited.
Indexed(t) ==
  /\ jpc[t] = "indexing"
  /\ indexed' = TRUE
  /\ EnterRoom(t)
  /\ UNCHANGED <<status, critical, del, docs, picked, freeVars, history>>

\* broadcastInRoom up to its first await: run by the callback of socket.join,
\* and again by a timer 500 ms after each time the lock was taken.
BroadcastIgnoringLock(t) ==                  \* slip: Critical[room] not tested
  /\ jpc[t] \in {"joining", "retry"}
  /\ critical' = TRUE
  /\ jpc' = [jpc EXCEPT ![t] = "pick"]
  /\ UNCHANGED <<status, rooms2, indexed, del, docs, picked, freeVars, history>>

BroadcastWhenGone(t) ==                      \* slip: connected[] not tested
  /\ jpc[t] \in {"joining", "retry"}
  /\ jpc' = [jpc EXCEPT ![t] = IF critical THEN "retry" ELSE "pick"]
  /\ critical' = TRUE
  /\ UNCHANGED <<status, rooms2, indexed, del, docs, picked, freeVars, history>>

BroadcastInRoom(t) ==
  /\ jpc[t] \in {"joining", "retry"}
  /\ IF ~Connected(t[1]) \/ del[t[1]]
     THEN /\ jpc' = [jpc EXCEPT ![t] = "done"]
          /\ UNCHANGED critical
     ELSE IF critical
     THEN /\ jpc' = [jpc EXCEPT ![t] = "retry"]
          /\ UNCHANGED critical
     ELSE /\ jpc' = [jpc EXCEPT ![t] = "pick"]
          /\ critical' = TRUE
  /\ UNCHANGED <<status, rooms2, indexed, del, docs, picked, freeVars, history>>

\* One round of the loop of pickNodeToConnect calls.
Pick(t) ==
  /\ jpc[t] = "pick"
  /\ IF Pickable(User(t)) = {}
     THEN /\ jpc' = [jpc EXCEPT ![t] = "update"]
          /\ UNCHANGED <<docs, picked>>
     ELSE \E cl \in Pickable(User(t)) :
            /\ docs' = (docs \ {cl}) \cup {Pushed(cl, {User(t)})}
            /\ picked' = [picked EXCEPT ![t] = @ \cup {<<cl.sock_id, cl.addr>>}]
            /\ jpc' = [jpc EXCEPT ![t] = IF Cardinality(picked[t]) + 1 < Picks
                                         THEN "pick" ELSE "update"]
  /\ UNCHANGED <<status, rooms2, indexed, critical, del, freeVars, history>>

PickedUsers(t) == {p[1] : p \in picked[t]}

\* After the last database call: unlock, then introduce the newcomer to the
\* members picked for it.
FinishJoin(t) ==
  /\ critical' = FALSE
  /\ jpc' = [jpc EXCEPT ![t] = "done"]
  /\ picked' = [picked EXCEPT ![t] = {}]
  /\ intros' = IF ~Connected(t[1]) \/ del[t[1]] THEN intros
               ELSE intros \cup {<<t[1], p[2]>> : p \in {q \in picked[t] : Connected(q[2])}}

UpdateUnlocksEarly(t) ==                     \* slip: unlocks before the insert
  LET own == {d \in docs : d.sock_id = User(t)}
  IN  /\ jpc[t] = "update"
      /\ UpdateOne(own, PickedUsers(t))
      /\ critical' = FALSE
      /\ jpc' = [jpc EXCEPT ![t] = IF own # {} THEN "done" ELSE "insert"]
      /\ UNCHANGED <<status, rooms2, indexed, del, picked, freeVars, history>>
UpdateByAddr(t) ==                           \* slip: looks for the socket
  LET own == {d \in docs : d.addr = t[1]}
  IN  /\ jpc[t] = "update"
      /\ UpdateOne(own, PickedUsers(t))
      /\ IF own # {} THEN FinishJoin(t)
         ELSE /\ jpc' = [jpc EXCEPT ![t] = "insert"]
              /\ UNCHANGED <<critical, picked, intros>>
      /\ UNCHANGED <<status, rooms2, indexed, del, freeVars, replaced>>

\* The document of the user is extended if there is one already ...
UpdateOwn(t) ==
  LET own == {d \in docs : d.sock_id = User(t)}
  IN  /\ jpc[t] = "update"
      /\ UpdateOne(own, PickedUsers(t))
      /\ IF own # {} THEN FinishJoin(t)
         ELSE /\ jpc' = [jpc EXCEPT ![t] = "insert"]
              /\ UNCHANGED <<critical, picked, intros>>
      /\ UNCHANGED <<status, rooms2, indexed, del, freeVars, replaced>>

\* ... and inserted otherwise.
NewDocUnlinked(t) ==                         \* slip: client.connects not stored
  [addr |-> t[1], sock_id |-> User(t), connects |-> NoLinks,
   nconnects |-> Cardinality(picked[t])]
NewDoc(t) == [addr |-> t[1], sock_id |-> User(t),
              connects |-> Link(NoLinks, PickedUsers(t)),
              nconnects |-> Cardinality(picked[t])]
InsertOwn(t) ==
  /\ jpc[t] = "insert"
  /\ docs' = docs \cup {NewDoc(t)}
  /\ FinishJoin(t)
  /\ UNCHANGED <<status, rooms2, indexed, del, freeVars, replaced>>

----------------------------------------------------------------------------
(* Freeing the membership of a socket that disconnected *)

\* 500 ms after free() found the lock taken, or nothing to delete.
FreeRetry(s) ==
  /\ fpc[s] = "wait"
  /\ FreeStart(s)
  /\ UNCHANGED <<status, rooms2, indexed, docs, joinVars, work, history>>

FreeDeleteKeepsLock(s) ==                    \* slip: no unlock before the retry
  LET own == {d \in docs : d.addr = s}
  IN  /\ fpc[s] = "delete"
      /\ fpc' = [fpc EXCEPT ![s] = IF own = {} THEN "wait" ELSE "aggregate"]
      /\ docs' = docs \ own
      /\ UNCHANGED <<status, rooms2, indexed, critical, del, joinVars, work, history>>

\* deleteOne({addr}): when nothing was deleted, unlock and try again.
FreeDelete(s) ==
  LET own == {d \in docs : d.addr = s}
  IN  /\ fpc[s] = "delete"
      /\ IF own = {}
         THEN /\ fpc' = [fpc EXCEPT ![s] = "wait"]
              /\ critical' = FALSE
              /\ del' = [del EXCEPT ![s] = FALSE]
              /\ UNCHANGED docs
         ELSE /\ fpc' = [fpc EXCEPT ![s] = "aggregate"]
              /\ \E d \in own : docs' = docs \ {d}
              /\ UNCHANGED <<critical, del>>
      /\ UNCHANGED <<status, rooms2, indexed, joinVars, work, history>>

\* The end of free().
FinishFree(s) ==
  /\ fpc' = [fpc EXCEPT ![s] = "done"]
  /\ critical' = FALSE
  /\ del' = [del EXCEPT ![s] = FALSE]

\* The members connected to the user that left, with what remains of their
\* connects.
LinkedAndConnected(s) ==                     \* slip: skips sockets already gone
  {[addr |-> d.addr, sock_id |-> d.sock_id, rest |-> Unlink(d.connects, UserOf[s])] :
   d \in {e \in docs : e.connects[UserOf[s]] > 0 /\ Connected(e.addr)}}
Linked(s) == {[addr |-> d.addr, sock_id |-> d.sock_id,
               rest |-> Unlink(d.connects, UserOf[s])] :
              d \in {e \in docs : e.connects[UserOf[s]] > 0}}

FreeAggregate(s) ==
  /\ fpc[s] = "aggregate"
  /\ IF Linked(s) = {}
     THEN /\ FinishFree(s)
          /\ UNCHANGED work
     ELSE /\ fpc' = [fpc EXCEPT ![s] = "pull"]
          /\ work' = [work EXCEPT ![s].pull = Linked(s), ![s].repick = Linked(s)]
          /\ UNCHANGED <<critical, del>>
  /\ UNCHANGED <<status, rooms2, indexed, docs, joinVars, history>>

\* The first loop: each of these members forgets the user that left.
Kept(c, rest) == [u \in Users |-> IF rest[u] > 0 THEN c[u] ELSE 0]
PulledKeepsCount(d, rest) ==                 \* slip: nconnects not reset
  Relinked(d, Kept(d.connects, rest), d.nconnects)
Pulled(d, rest) == Relinked(d, Kept(d.connects, rest), Total(rest))

FreePull(s) ==
  /\ fpc[s] = "pull"
  /\ \E m \in work[s].pull :
       /\ docs' = {IF d.addr = m.addr /\ d.sock_id = m.sock_id THEN Pulled(d, m.rest) ELSE d :
                   d \in docs}
       /\ work' = [work EXCEPT ![s].pull = @ \ {m}]
       /\ fpc' = [fpc EXCEPT ![s] = IF work[s].pull = {m} THEN "repick" ELSE "pull"]
  /\ UNCHANGED <<status, rooms2, indexed, critical, del, joinVars, history>>

\* The second loop goes on with the members left, or ends.
NextRepick(s, left) ==
  IF left = {} THEN FinishFree(s)
  ELSE /\ fpc' = [fpc EXCEPT ![s] = "repick"]
       /\ UNCHANGED <<critical, del>>

\* Each member still connected is offered another one in exchange ...
RepickNone(s, m) ==
  /\ ~Connected(m.addr) \/ Pickable(m.sock_id) = {}
  /\ work' = [work EXCEPT ![s].repick = @ \ {m}]
  /\ NextRepick(s, work[s].repick \ {m})
  /\ UNCHANGED <<docs, replaced>>

RepickOne(s, m) ==
  /\ Connected(m.addr)
  /\ \E cl \in Pickable(m.sock_id) :
       /\ docs' = (docs \ {cl}) \cup {Pushed(cl, {m.sock_id})}
       /\ replaced' = replaced \cup {<<cl.sock_id, m.sock_id>>}
       /\ work' = [work EXCEPT ![s].link = {[of |-> m, to |-> cl.addr, user |-> cl.sock_id]}]
  /\ fpc' = [fpc EXCEPT ![s] = "link"]
  /\ UNCHANGED <<critical, del>>

FreeRepick(s) ==
  /\ fpc[s] = "repick"
  /\ \E m \in work[s].repick : RepickNone(s, m) \/ RepickOne(s, m)
  /\ UNCHANGED <<status, rooms2, indexed, joinVars, intros>>

\* ... and introduced to it.  The update that should record the new link in
\* the member's own document looks for its socket id in the field that holds
\* user names.
FreeLink(s) ==
  /\ fpc[s] = "link"
  /\ \E l \in work[s].link :
       /\ UpdateOne({d \in docs : d.sock_id = l.of.addr}, {l.user})
       /\ intros' = IF Connected(l.of.addr) /\ Connected(l.to)
                    THEN intros \cup {<<l.of.addr, l.to>>} ELSE intros
       /\ work' = [work EXCEPT ![s].link = {}, ![s].repick = @ \ {l.of}]
       /\ NextRepick(s, work[s].repick \ {l.of})
  /\ UNCHANGED <<status, rooms2, indexed, joinVars, replaced>>

----------------------------------------------------------------------------
(* A database call rejects: the async function it is awaited in ends, and  *)
(* Critical[room] stays set.                                               *)

JoinDbError(t) ==
  /\ DbMayFail
  /\ jpc[t] \in JoinSection
  /\ jpc' = [jpc EXCEPT ![t] = "failed"]
  /\ UNCHANGED <<status, rooms2, indexed, critical, del, docs, picked, freeVars, history>>

FreeDbError(s) ==
  /\ DbMayFail
  /\ fpc[s] \in FreeSection
  /\ fpc' = [fpc EXCEPT ![s] = "failed"]
  /\ UNCHANGED <<status, rooms2, indexed, critical, del, docs, joinVars, work, history>>

----------------------------------------------------------------------------
Init ==
  /\ status = [s \in Sockets |-> "connected"]
  /\ rooms2 = [s \in Sockets |-> FALSE]
  /\ indexed = FALSE
  /\ critical = FALSE
  /\ del = [s \in Sockets |-> FALSE]
  /\ docs = {}
  /\ jpc = [t \in Joins |-> "none"]
  /\ picked = [t \in Joins |-> {}]
  /\ fpc = [s \in Sockets |-> "none"]
  /\ work = [s \in Sockets |-> [pull |-> {}, repick |-> {}, link |-> {}]]
  /\ intros = {}
  /\ replaced = {}

SocketStep(s) == Announce(s) \/ Leave(s) \/ Disconnect(s)

JoinStep(t) ==
  \/ Indexed(t) \/ BroadcastInRoom(t) \/ Pick(t) \/ UpdateOwn(t) \/ InsertOwn(t)

FreeStep(s) ==
  \/ FreeRetry(s) \/ FreeDelete(s) \/ FreeAggregate(s)
  \/ FreePull(s) \/ FreeRepick(s) \/ FreeLink(s)

Next ==
  \/ \E s \in Sockets : SocketStep(s) \/ FreeStep(s) \/ FreeDbError(s)
  \/ \E t \in Joins : JoinRequest(t) \/ JoinStep(t) \/ JoinDbError(t)

Spec == Init /\ [][Next]_vars

\* Every timer fires and every database call returns; clients do as they like.
Fairness ==
  /\ \A t \in Joins : WF_vars(JoinStep(t))
  /\ \A s \in Sockets : WF_vars(FreeStep(s))

FairSpec == Spec /\ Fairness

----------------------------------------------------------------------------
(* Properties *)

Members == [addr : Sockets, sock_id : Users, rest : [Users -> Nat]]

TypeOK ==
  /\ status \in [Sockets -> {"connected", "announced", "gone"}]
  /\ rooms2 \in [Sockets -> BOOLEAN]
  /\ indexed \in BOOLEAN
  /\ critical \in BOOLEAN
  /\ del \in [Sockets -> BOOLEAN]
  /\ docs \subseteq [addr : Sockets, sock_id : Users,
                     connects : [Users -> Nat], nconnects : Nat]
  /\ jpc \in [Joins -> {"none", "indexing", "joining", "retry", "done", "failed"}
                       \cup JoinSection]
  /\ picked \in [Joins -> SUBSET (Users \X Sockets)]
  /\ fpc \in [Sockets -> {"none", "wait", "done", "failed"} \cup FreeSection]
  /\ work \in [Sockets -> [pull : SUBSET Members, repick : SUBSET Members,
                           link : SUBSET [of : Members, to : Sockets, user : Users]]]
  /\ intros \subseteq Sockets \X Sockets
  /\ replaced \subseteq Users \X Users

JoinsInside == {t \in Joins : jpc[t] \in JoinSection}
FreesInside == {s \in Sockets : fpc[s] \in FreeSection}

(* Critical[room] is a lock: between the awaits of a join or a free no     *)
(* other join and no other free of the room is between its own, whatever   *)
(* disconnects, timers and retries come in between, and the flag is set    *)
(* while one is.                                                           *)
OneSectionAtATime ==
  /\ JoinsInside = {} \/ FreesInside = {}
  /\ \A t, u \in JoinsInside : t = u
  /\ \A r, s \in FreesInside : r = s
  /\ JoinsInside \cup FreesInside # {} => critical

(* A user has one document in a room, also when it joins again, or with a  *)
(* second socket, while the first one is being freed.                      *)
OneDocPerUser ==
  \A d, e \in docs : d.sock_id = e.sock_id => d = e

(* nconnects, which the picking goes by, counts the links in connects,     *)
(* and a member is never linked to itself.                                 *)
DegreeMatchesLinks ==
  \A d \in docs : d.nconnects = Total(d.connects) /\ d.connects[d.sock_id] = 0

(* The degree of a member stays within MaxConnects plus what its later     *)
(* joins add: those extend its document without looking at the limit.      *)
JoinsOf(u) == {t \in Joins : User(t) = u /\ jpc[t] # "none"}
DegreeBounded ==
  \A d \in docs :
    d.nconnects <= MaxConnects + Picks * (Cardinality(JoinsOf(d.sock_id)) - 1)

(* Outside the lock no member is linked to a user without a document: the  *)
(* members linked to a user that left have all forgotten it.               *)
LinksPointToMembers ==
  ~critical =>
    \A d \in docs, u \in Users :
      d.connects[u] > 0 => \E e \in docs : e.sock_id = u

(* Outside the lock links are mutual, except the replacements free() made, *)
(* which only the member picked knows of.                                  *)
OneSidedOnlyByReplacement ==
  ~critical =>
    \A d, e \in docs :
      d.connects[e.sock_id] > e.connects[d.sock_id]
        => <<d.sock_id, e.sock_id>> \in replaced

(* When free() of a socket that disconnected has ended, the registry holds *)
(* no document of it, and none appears later: a join of the same socket    *)
(* that was under way did not slip in behind.                              *)
FreedForGood ==
  \A d \in docs : fpc[d.addr] # "done"

(* A member is introduced to another one only when the other one's         *)
(* document holds the link at that moment.                                 *)
IntroductionsAreLinked ==
  [][\A m \in intros' \ intros :
       \E d \in docs' : d.addr = m[2] /\ d.connects[UserOf[m[1]]] > 0]_vars

----------------------------------------------------------------------------
(* What the registry looks like to its members: a section takes effect in  *)
(* one step, a join with its last database call, a leave with its first.   *)

HasMember(u) == \E e \in docs : e.sock_id = u

\* A document without the links made for a join that is still under way, and
\* those to a user that left and has not been forgotten here yet.
PickedBy(d, u) == \E t \in Joins : User(t) = u /\ <<d.sock_id, d.addr>> \in picked[t]
Shown(d, u) == IF HasMember(u) /\ ~PickedBy(d, u) THEN d.connects[u] ELSE 0
Settled(d) ==
  [addr |-> d.addr, sock_id |-> d.sock_id, connects |-> [u \in Users |-> Shown(d, u)]]
Roster == {Settled(d) : d \in docs}

\* The members that free() of s has still to treat.
OwedBy(s) ==
  CASE fpc[s] = "aggregate" -> Linked(s)
    [] fpc[s] \in {"pull", "repick"} -> work[s].repick
    [] fpc[s] = "link" -> work[s].repick \ {l.of : l \in work[s].link}
    [] OTHER -> {}
OwedUsers == UNION {{m.sock_id : m \in OwedBy(s)} : s \in Sockets}

Room == INSTANCE Registry WITH members <- Roster, owed <- OwedUsers

(* The sections between Critical[room] = true and false are serializable:  *)
(* with the awaits in them, the timers and disconnections between, and     *)
(* calls that are rejected, they do what joins, leaves and replacements of *)
(* one step each would do to the members and their links.                  *)
ImplementsRegistry == Room!Spec

(* As long as the database answers, nobody keeps the room locked.          *)
LockReleased == critical ~> ~critical
=============================================================================
