------------------------- MODULE SignalerLinksProofs -------------------------
(***************************************************************************)
(* What the documents of the registry say of one another: links lead to    *)
(* members, they are mutual except for replacements, and members and links *)
(* change as if joins, leaves and replacements were steps of their own;    *)
(* for every number of sockets, users and joins.                           *)
(***************************************************************************)
EXTENDS SignalerProofs

----------------------------------------------------------------------------
(* Links lead to members and are mutual.                                   *)

\* No call has failed in a section: the lock is free or its holder inside.
Live ==
  \/ ~critical
  \/ \E t \in Joins : jpc[t] \in JoinSection
  \/ \E s \in Sockets : fpc[s] \in FreeSection

\* Once free() has deleted the document of its socket, the user has none.
UserGone ==
  \A s \in Sockets : fpc[s] \in FreeSection \ {"delete"} =>
    \A d \in docs : d.sock_id # UserOf[s]

\* The members that free() works for stay members,
RepickMembers ==
  \A s \in Sockets : fpc[s] \in {"pull", "repick", "link"} =>
    \A m \in work[s].repick : \E d \in docs : SameOwner(d, m)

\* and the member found for one of them is linked to it.
LinkTarget ==
  \A s \in Sockets : fpc[s] = "link" =>
    \A l \in work[s].link :
      /\ l.of \in work[s].repick
      /\ \E d \in docs : d.addr = l.to /\ d.connects[l.of.sock_id] > 0

\* Within a section a link may lead nowhere: to the user that joins, or to
\* the one whose free() has not come to this document yet.
PickedFor(d, t) == jpc[t] \in JoinSection /\ <<d.sock_id, d.addr>> \in picked[t]
ToBePulled(d, s) ==
  \/ fpc[s] = "aggregate"
  \/ fpc[s] = "pull" /\ (\E m \in work[s].pull : SameOwner(d, m))
NoDangling ==
  Live =>
    \A d \in docs, u \in Users : d.connects[u] > 0 =>
      \/ HasMember(u)
      \/ \E t \in Joins : User(t) = u /\ PickedFor(d, t)
      \/ \E s \in Sockets : UserOf[s] = u /\ ToBePulled(d, s)

\* A member picked had no link to the user that joins: one in the other
\* direction was a replacement.
PickedMutual ==
  \A t \in Joins : jpc[t] \in JoinSection =>
    \A p \in picked[t], e \in docs :
      e.sock_id = User(t) /\ e.connects[p[1]] > 0 => <<User(t), p[1]>> \in replaced

Mutual ==
  Live =>
    \A d, e \in docs : d.connects[e.sock_id] > e.connects[d.sock_id] =>
      \/ <<d.sock_id, e.sock_id>> \in replaced
      \/ \E t \in Joins : User(t) = e.sock_id /\ PickedFor(d, t)

FreeLinks == UserGone /\ RepickMembers /\ LinkTarget
MemberLinks == NoDangling /\ PickedMutual /\ Mutual
LinkInv == DegreeInv /\ FreeLinks /\ MemberLinks

OwnersStay == \A d \in docs : \E e \in docs' : SameOwner(d, e)

LEMMA LinkInvInit == Init => LinkInv
<1> SUFFICES ASSUME Init PROVE LinkInv
  OBVIOUS
<1>1. FreeLinks
  BY DEF Init, FreeLinks, UserGone, RepickMembers, LinkTarget
<1>2. MemberLinks
  BY DEF Init, MemberLinks, NoDangling, PickedMutual, Mutual
<1>3. QED
  BY <1>1, <1>2, DegreeInvInit DEF LinkInv

(* Counts of links are numbers.                                            *)
LEMMA Counts ==
  ASSUME DegreeInv, NEW d \in docs, NEW u \in Users
  PROVE  d.connects[u] \in Nat
  BY DEF DegreeInv, TypeInv, DataTyped, Documents, Links

LEMMA LinkUnchanged ==
  ASSUME LinkInv, UNCHANGED <<docs, picked, work, replaced, jpc, fpc, critical>>
  PROVE  FreeLinks' /\ MemberLinks'
<1>1. FreeLinks'
  BY DEF LinkInv, FreeLinks, UserGone, RepickMembers, LinkTarget, SameOwner
<1>2. Live' <=> Live
  BY DEF Live
<1>3. NoDangling'
  <2>1. \A u \in Users : HasMember(u) => HasMember(u)'
    BY DEF HasMember
  <2>2. \A d \in docs, t \in Joins : PickedFor(d, t) => PickedFor(d, t)'
    BY DEF PickedFor
  <2>3. \A d \in docs, s \in Sockets : ToBePulled(d, s) => ToBePulled(d, s)'
    BY DEF ToBePulled, SameOwner
  <2>4. QED
    BY <1>2, <2>1, <2>2, <2>3 DEF LinkInv, MemberLinks, NoDangling, User
<1>4. PickedMutual' /\ Mutual'
  BY <1>2 DEF LinkInv, MemberLinks, PickedMutual, Mutual, PickedFor
<1>5. QED
  BY <1>1, <1>3, <1>4 DEF MemberLinks

LEMMA LinkQuietJoin ==
  ASSUME LinkInv, NEW t \in Joins, QuietJoin(t)
  PROVE  FreeLinks' /\ MemberLinks'
<1>1. Typed /\ OneSectionAtATime /\ DegreeInv
  BY DEF LinkInv, DegreeInv, TypeInv, RegInv
<1>2. /\ UNCHANGED <<docs, picked, fpc, work, replaced>>
      /\ \A u \in Joins : u # t => jpc'[u] = jpc[u]
      /\ jpc'[t] \in JoinSection =>
           jpc'[t] = "pick" /\ jpc[t] \notin JoinSection \cup {"failed"} /\ ~critical
      /\ critical => critical'
  BY <1>1, QuietJoinMoves
<1>3. FreeLinks'
  BY <1>2 DEF LinkInv, FreeLinks, UserGone, RepickMembers, LinkTarget, SameOwner
<1>4. jpc'[t] \in JoinSection => picked[t] = {}
  BY <1>1, <1>2 DEF DegreeInv, PickedSizes
<1>5. PickedMutual'
  BY <1>2, <1>4 DEF LinkInv, MemberLinks, PickedMutual, User
<1>6. ASSUME Live'
      PROVE  Live /\ jpc[t] \notin JoinSection
  <2>1. CASE jpc[t] \in JoinSection
    <3>1. /\ critical /\ \A u \in Joins : jpc[u] \in JoinSection => u = t
          /\ \A s \in Sockets : fpc[s] \notin FreeSection
      BY <1>1, <2>1, JoinAlone
    <3>2. jpc'[t] \notin JoinSection
      BY <1>2, <2>1
    <3>3. QED
      BY <1>2, <1>6, <3>1, <3>2 DEF Live
  <2>2. CASE jpc[t] \notin JoinSection
    BY <1>2, <1>6, <2>2 DEF Live
  <2>3. QED
    BY <2>1, <2>2
<1>7. ASSUME Live', NEW d \in docs, NEW u \in Joins, PickedFor(d, u)
      PROVE  PickedFor(d, u)'
  BY <1>2, <1>6, <1>7 DEF PickedFor
<1>8. NoDangling'
  <2> SUFFICES ASSUME Live', NEW d \in docs, NEW u \in Users, d.connects[u] > 0
               PROVE  \/ HasMember(u)'
                      \/ \E v \in Joins : User(v) = u /\ PickedFor(d, v)'
                      \/ \E s \in Sockets : UserOf[s] = u /\ ToBePulled(d, s)'
    BY <1>2 DEF NoDangling, User
  <2>1. \/ HasMember(u)
        \/ \E v \in Joins : User(v) = u /\ PickedFor(d, v)
        \/ \E s \in Sockets : UserOf[s] = u /\ ToBePulled(d, s)
    BY <1>6 DEF LinkInv, MemberLinks, NoDangling
  <2>2. HasMember(u) => HasMember(u)'
    BY <1>2 DEF HasMember
  <2>3. \A s \in Sockets : ToBePulled(d, s) => ToBePulled(d, s)'
    BY <1>2 DEF ToBePulled, SameOwner
  <2>4. QED
    BY <1>7, <2>1, <2>2, <2>3
<1>9. Mutual'
  <2> SUFFICES ASSUME Live', NEW d \in docs, NEW e \in docs,
                      d.connects[e.sock_id] > e.connects[d.sock_id]
               PROVE  \/ <<d.sock_id, e.sock_id>> \in replaced
                      \/ \E v \in Joins : User(v) = e.sock_id /\ PickedFor(d, v)'
    BY <1>2 DEF Mutual, User
  <2>1. \/ <<d.sock_id, e.sock_id>> \in replaced
        \/ \E v \in Joins : User(v) = e.sock_id /\ PickedFor(d, v)
    BY <1>6 DEF LinkInv, MemberLinks, Mutual
  <2>2. QED
    BY <1>7, <2>1
<1>10. QED
  BY <1>3, <1>5, <1>8, <1>9 DEF MemberLinks

LEMMA LinkQuietFree ==
  ASSUME LinkInv, NEW s \in Sockets, QuietFree(s)
  PROVE  FreeLinks' /\ MemberLinks'
<1>1. Typed /\ OneSectionAtATime /\ DegreeInv
  BY DEF LinkInv, DegreeInv, TypeInv, RegInv
<1>2. /\ UNCHANGED <<docs, picked, jpc, work, replaced>>
      /\ \A r \in Sockets : r # s => fpc'[r] = fpc[r]
      /\ fpc'[s] \in FreeSection =>
           fpc'[s] = fpc[s] \/ (fpc'[s] = "delete" /\ ~critical)
      /\ critical => critical'
  BY <1>1, QuietFreeMoves
<1>3. FreeLinks'
  BY <1>2 DEF LinkInv, FreeLinks, UserGone, RepickMembers, LinkTarget, SameOwner, FreeSection
<1>4. PickedMutual'
  BY <1>2 DEF LinkInv, MemberLinks, PickedMutual, User
<1>5. ASSUME Live'
      PROVE  Live /\ (fpc'[s] = fpc[s] \/ fpc[s] \notin FreeSection)
  <2>1. CASE fpc[s] \in FreeSection /\ fpc'[s] # fpc[s]
    <3>1. /\ critical /\ \A r \in Sockets : fpc[r] \in FreeSection => r = s
          /\ \A t \in Joins : jpc[t] \notin JoinSection
      BY <1>1, <2>1, FreeAlone
    <3>2. fpc'[s] \notin FreeSection
      BY <1>2, <2>1, <3>1
    <3>3. QED
      BY <1>2, <1>5, <3>1, <3>2 DEF Live
  <2>2. CASE ~(fpc[s] \in FreeSection /\ fpc'[s] # fpc[s])
    BY <1>2, <1>5, <2>2 DEF Live
  <2>3. QED
    BY <2>1, <2>2
<1>6. ASSUME Live', NEW d \in docs, NEW r \in Sockets, ToBePulled(d, r)
      PROVE  ToBePulled(d, r)'
  <2>1. fpc[r] \in FreeSection
    BY <1>6 DEF ToBePulled, FreeSection
  <2>2. fpc'[r] = fpc[r]
    BY <1>2, <1>5, <1>6, <2>1
  <2>3. QED
    BY <1>2, <1>6, <2>2 DEF ToBePulled, SameOwner
<1>7. \A d \in docs, u \in Joins : PickedFor(d, u) => PickedFor(d, u)'
  BY <1>2 DEF PickedFor
<1>8. NoDangling'
  <2> SUFFICES ASSUME Live', NEW d \in docs, NEW u \in Users, d.connects[u] > 0
               PROVE  \/ HasMember(u)'
                      \/ \E v \in Joins : User(v) = u /\ PickedFor(d, v)'
                      \/ \E r \in Sockets : UserOf[r] = u /\ ToBePulled(d, r)'
    BY <1>2 DEF NoDangling, User
  <2>1. \/ HasMember(u)
        \/ \E v \in Joins : User(v) = u /\ PickedFor(d, v)
        \/ \E r \in Sockets : UserOf[r] = u /\ ToBePulled(d, r)
    BY <1>5 DEF LinkInv, MemberLinks, NoDangling
  <2>2. HasMember(u) => HasMember(u)'
    BY <1>2 DEF HasMember
  <2>3. QED
    BY <1>6, <1>7, <2>1, <2>2
<1>9. Mutual'
  <2> SUFFICES ASSUME Live', NEW d \in docs, NEW e \in docs,
                      d.connects[e.sock_id] > e.connects[d.sock_id]
               PROVE  \/ <<d.sock_id, e.sock_id>> \in replaced
                      \/ \E v \in Joins : User(v) = e.sock_id /\ PickedFor(d, v)'
    BY <1>2 DEF Mutual, User
  <2>1. \/ <<d.sock_id, e.sock_id>> \in replaced
        \/ \E v \in Joins : User(v) = e.sock_id /\ PickedFor(d, v)
    BY <1>5 DEF LinkInv, MemberLinks, Mutual
  <2>2. QED
    BY <1>7, <2>1
<1>10. QED
  BY <1>3, <1>4, <1>8, <1>9 DEF MemberLinks

(* While a join is in its section no free() is.                            *)
LEMMA NobodyFrees ==
  ASSUME OneSectionAtATime, NEW t \in Joins, jpc[t] \in JoinSection, fpc' = fpc
  PROVE  FreeLinks' /\ (\A d \in docs, s \in Sockets : ~ToBePulled(d, s))
<1>1. \A s \in Sockets : fpc[s] \notin FreeSection
  BY JoinAlone
<1>2. FreeLinks'
  BY <1>1 DEF FreeLinks, UserGone, RepickMembers, LinkTarget, FreeSection
<1>3. \A d \in docs, s \in Sockets : ~ToBePulled(d, s)
  BY <1>1 DEF ToBePulled, FreeSection
<1>4. QED
  BY <1>2, <1>3

(* What holds of the links while a join is in its section.                 *)
LEMMA JoinLinks ==
  ASSUME LinkInv, NEW t \in Joins, jpc[t] \in JoinSection
  PROVE  /\ \A d \in docs, u \in Users : d.connects[u] > 0 =>
              HasMember(u) \/ (u = User(t) /\ <<d.sock_id, d.addr>> \in picked[t])
         /\ \A d, e \in docs : d.connects[e.sock_id] > e.connects[d.sock_id] =>
              \/ <<d.sock_id, e.sock_id>> \in replaced
              \/ e.sock_id = User(t) /\ <<d.sock_id, d.addr>> \in picked[t]
<1>1. OneSectionAtATime
  BY DEF LinkInv, DegreeInv, TypeInv, RegInv
<1>2. Live
  BY DEF Live
<1>3. /\ \A u \in Joins : jpc[u] \in JoinSection => u = t
      /\ \A s \in Sockets : fpc[s] \notin FreeSection
  BY <1>1, JoinAlone
<1>4. \A d \in docs, s \in Sockets : ~ToBePulled(d, s)
  BY <1>3 DEF ToBePulled, FreeSection
<1>5. \A d \in docs, u \in Joins : PickedFor(d, u) =>
        u = t /\ <<d.sock_id, d.addr>> \in picked[t]
  BY <1>3 DEF PickedFor
<1>6. QED
  BY <1>2, <1>4, <1>5 DEF LinkInv, MemberLinks, NoDangling, Mutual

(* The same while free() works.                                            *)
LEMMA FreeWorkLinks ==
  ASSUME LinkInv, NEW s \in Sockets, fpc[s] \in FreeSection
  PROVE  /\ \A d \in docs, u \in Users : d.connects[u] > 0 =>
              HasMember(u) \/ (u = UserOf[s] /\ ToBePulled(d, s))
         /\ \A d, e \in docs : d.connects[e.sock_id] > e.connects[d.sock_id] =>
              <<d.sock_id, e.sock_id>> \in replaced
<1>1. OneSectionAtATime
  BY DEF LinkInv, DegreeInv, TypeInv, RegInv
<1>2. Live
  BY DEF Live
<1>3. /\ \A r \in Sockets : fpc[r] \in FreeSection => r = s
      /\ \A u \in Joins : jpc[u] \notin JoinSection
  BY <1>1, FreeAlone
<1>4. \A d \in docs, r \in Sockets : ToBePulled(d, r) => r = s
  BY <1>3 DEF ToBePulled, FreeSection
<1>5. \A d \in docs, u \in Joins : ~PickedFor(d, u)
  BY <1>3 DEF PickedFor
<1>6. QED
  BY <1>2, <1>4, <1>5 DEF LinkInv, MemberLinks, NoDangling, Mutual

LEMMA LinkPick ==
  ASSUME LinkInv, NEW t \in Joins, Pick(t)
  PROVE  FreeLinks' /\ MemberLinks'
<1>1. Typed /\ OneSectionAtATime /\ DataTyped /\ OneDocPerUser /\ DegreeInv
  BY DEF LinkInv, DegreeInv, TypeInv, RegInv
<1>2. /\ \A u \in Joins : u # t => jpc'[u] = jpc[u]
      /\ jpc[t] = "pick" /\ jpc'[t] \in JoinSection
      /\ UNCHANGED <<critical, fpc, work, replaced>>
  BY <1>1, PickMoves DEF JoinSection
<1>3. jpc[t] \in JoinSection /\ (\A u \in Joins : jpc'[u] \in JoinSection => u = t)
  BY <1>1, <1>2, JoinAlone DEF JoinSection
<1>4. FreeLinks'
  BY <1>1, <1>2, <1>3, NobodyFrees
<1>5. /\ \A d \in docs, u \in Users : d.connects[u] > 0 =>
           HasMember(u) \/ (u = User(t) /\ <<d.sock_id, d.addr>> \in picked[t])
      /\ \A d, e \in docs : d.connects[e.sock_id] > e.connects[d.sock_id] =>
           \/ <<d.sock_id, e.sock_id>> \in replaced
           \/ e.sock_id = User(t) /\ <<d.sock_id, d.addr>> \in picked[t]
  BY <1>3, JoinLinks
<1>6. \A p \in picked[t], e \in docs :
        e.sock_id = User(t) /\ e.connects[p[1]] > 0 => <<User(t), p[1]>> \in replaced
  BY <1>3 DEF LinkInv, MemberLinks, PickedMutual
<1>7. CASE UNCHANGED <<docs, picked>>
  <2>1. NoDangling'
    <3>1. \A u \in Users : HasMember(u) => HasMember(u)'
      BY <1>7 DEF HasMember
    <3>2. \A d \in docs : <<d.sock_id, d.addr>> \in picked[t] => PickedFor(d, t)'
      BY <1>2, <1>7 DEF PickedFor
    <3>3. QED
      BY <1>5, <1>7, <3>1, <3>2 DEF NoDangling, User
  <2>2. PickedMutual'
    BY <1>2, <1>3, <1>6, <1>7 DEF PickedMutual, User
  <2>3. Mutual'
    BY <1>2, <1>5, <1>7 DEF Mutual, User, PickedFor
  <2>4. QED
    BY <1>4, <2>1, <2>2, <2>3 DEF MemberLinks
<1>8. ASSUME NEW cl \in Pickable(User(t)),
             docs' = (docs \ {cl}) \cup {Pushed(cl, {User(t)})},
             picked' = [picked EXCEPT ![t] = @ \cup {<<cl.sock_id, cl.addr>>}]
      PROVE  MemberLinks'
  <2>1. cl \in docs /\ cl.connects[User(t)] = 0 /\ cl.sock_id # User(t)
    BY DEF Pickable
  <2>2. cl \in Documents /\ User(t) \in Users /\ {User(t)} \in SUBSET Users
    BY <1>1, <2>1, JoinType DEF DataTyped
  <2>3. PICK n \in Documents :
          /\ n = Pushed(cl, {User(t)}) /\ docs' = (docs \ {cl}) \cup {n}
          /\ n.addr = cl.addr /\ n.sock_id = cl.sock_id
          /\ n.connects = Link(cl.connects, {User(t)})
    BY <1>8, <2>2, PushedType
  <2>4. \A u \in Users : u # User(t) => n.connects[u] = cl.connects[u]
    BY <2>3 DEF Link
  <2>5. picked'[t] = picked[t] \cup {<<cl.sock_id, cl.addr>>}
    BY <1>1, <1>8 DEF DataTyped
  <2>6. \A u \in Users : HasMember(u) => HasMember(u)'
    BY <2>3 DEF HasMember
  <2>7. \A d \in docs : d.sock_id \in Users
    BY <1>1 DEF DataTyped, Documents
  <2>8. NoDangling'
    <3> SUFFICES ASSUME NEW d \in docs', NEW u \in Users, d.connects[u] > 0
                 PROVE  HasMember(u)' \/ (User(t) = u /\ PickedFor(d, t)')
      BY DEF NoDangling, User
    <3>1. CASE d = n /\ u = User(t)
      BY <1>2, <2>3, <2>5, <3>1 DEF PickedFor
    <3>2. CASE d = n /\ u # User(t)
      BY <1>5, <2>1, <2>4, <2>6, <3>2
    <3>3. CASE d # n
      <4>1. d \in docs
        BY <2>3, <3>3
      <4>2. HasMember(u) \/ (u = User(t) /\ <<d.sock_id, d.addr>> \in picked[t])
        BY <1>5, <4>1
      <4>3. QED
        BY <1>2, <2>5, <2>6, <4>2 DEF PickedFor
    <3>4. QED
      BY <3>1, <3>2, <3>3
  <2>9. PickedMutual'
    <3> SUFFICES ASSUME NEW p \in picked'[t], NEW e \in docs',
                        e.sock_id = User(t), e.connects[p[1]] > 0
                 PROVE  <<User(t), p[1]>> \in replaced
      BY <1>2, <1>3 DEF PickedMutual, User
    <3>1. e \in docs
      BY <2>1, <2>3
    <3>2. CASE p \in picked[t]
      BY <1>6, <3>1, <3>2
    <3>3. CASE p = <<cl.sock_id, cl.addr>>
      <4>1. e.connects[cl.sock_id] > cl.connects[e.sock_id]
        BY <2>1, <3>3
      <4>2. <<e.sock_id, cl.sock_id>> \in replaced
        BY <1>5, <2>1, <3>1, <4>1
      <4>3. QED
        BY <3>3, <4>2
    <3>4. QED
      BY <2>5, <3>2, <3>3
  <2>10. Mutual'
    <3> SUFFICES ASSUME NEW d \in docs', NEW e \in docs',
                        d.connects[e.sock_id] > e.connects[d.sock_id]
                 PROVE  \/ <<d.sock_id, e.sock_id>> \in replaced
                        \/ User(t) = e.sock_id /\ PickedFor(d, t)'
      BY <1>2 DEF Mutual, User
    <3>0. ASSUME NEW c \in docs,
                 \/ <<c.sock_id, e.sock_id>> \in replaced
                 \/ e.sock_id = User(t) /\ <<c.sock_id, c.addr>> \in picked[t],
                 SameOwner(c, d)
          PROVE  \/ <<d.sock_id, e.sock_id>> \in replaced
                 \/ User(t) = e.sock_id /\ PickedFor(d, t)'
      BY <1>2, <2>5, <3>0 DEF PickedFor, SameOwner
    <3>1. CASE d = n /\ e.sock_id = User(t)
      BY <1>2, <2>3, <2>5, <3>1 DEF PickedFor
    <3>2. CASE d = n /\ e.sock_id # User(t)
      <4>1. CASE e = n
        <5>1. n.connects[n.sock_id] \in Nat
          BY DEF Documents, Links
        <5>2. QED
          BY <3>2, <4>1, <5>1
      <4>2. CASE e # n
        <5>1. e \in docs /\ e.sock_id \in Users
          BY <2>3, <2>7, <4>2
        <5>2. cl.connects[e.sock_id] > e.connects[cl.sock_id]
          BY <2>3, <2>4, <3>2, <5>1
        <5>3. QED
          BY <1>5, <2>1, <2>3, <3>0, <3>2, <5>1, <5>2 DEF SameOwner
      <4>3. QED
        BY <4>1, <4>2
    <3>3. CASE d # n
      <4>1. d \in docs /\ d.sock_id \in Users
        BY <2>3, <2>7, <3>3
      <4>2. PICK f \in docs : /\ f.sock_id = e.sock_id
                              /\ f.connects[d.sock_id] <= e.connects[d.sock_id]
        <5>1. CASE e = n
          <6>1. cl.connects[d.sock_id] \in Nat
            BY <1>1, <2>1, <4>1, Counts
          <6>2. cl.connects[d.sock_id] <= n.connects[d.sock_id]
            BY <2>3, <4>1, <6>1 DEF Link
          <6>3. QED
            BY <2>1, <2>3, <5>1, <6>2
        <5>2. CASE e # n
          <6>1. e \in docs
            BY <2>3, <5>2
          <6>2. e.connects[d.sock_id] \in Nat
            BY <1>1, <4>1, <6>1, Counts
          <6>3. QED
            BY <6>1, <6>2
        <5>3. QED
          BY <5>1, <5>2
      <4>3. d.connects[f.sock_id] > f.connects[d.sock_id]
        <5>1. /\ d.connects[f.sock_id] \in Nat /\ f.connects[d.sock_id] \in Nat
              /\ e.connects[d.sock_id] \in Nat
          <6>1. d.connects[f.sock_id] \in Nat /\ f.connects[d.sock_id] \in Nat
            BY <1>1, <2>7, <4>1, Counts
          <6>2. e \in Documents
            BY <1>1, <2>3 DEF DataTyped
          <6>3. e.connects[d.sock_id] \in Nat
            BY <4>1, <6>2 DEF Documents, Links
          <6>4. QED
            BY <6>1, <6>3
        <5>2. QED
          BY <4>2, <5>1
      <4>4. QED
        BY <1>5, <3>0, <4>1, <4>2, <4>3 DEF SameOwner
    <3>4. QED
      BY <3>1, <3>2, <3>3
  <2>11. QED
    BY <2>8, <2>9, <2>10 DEF MemberLinks
<1>9. QED
  BY <1>1, <1>4, <1>7, <1>8, PickMoves

LEMMA LinkUpdate ==
  ASSUME LinkInv, NEW t \in Joins, UpdateOwn(t)
  PROVE  FreeLinks' /\ MemberLinks'
<1>1. Typed /\ OneSectionAtATime /\ DataTyped /\ OneDocPerUser /\ DegreeInv
  BY DEF LinkInv, DegreeInv, TypeInv, RegInv
<1>2. /\ \A u \in Joins : u # t => jpc'[u] = jpc[u]
      /\ jpc[t] = "update" /\ jpc[t] \in JoinSection
      /\ UNCHANGED <<fpc, work, replaced>>
  BY <1>1, UpdateMoves DEF JoinSection
<1>3. \A u \in Joins : jpc[u] \in JoinSection => u = t
  BY <1>1, <1>2, JoinAlone
<1>4. FreeLinks'
  BY <1>1, <1>2, NobodyFrees
<1>5. /\ \A d \in docs, u \in Users : d.connects[u] > 0 =>
           HasMember(u) \/ (u = User(t) /\ <<d.sock_id, d.addr>> \in picked[t])
      /\ \A d, e \in docs : d.connects[e.sock_id] > e.connects[d.sock_id] =>
           \/ <<d.sock_id, e.sock_id>> \in replaced
           \/ e.sock_id = User(t) /\ <<d.sock_id, d.addr>> \in picked[t]
  BY <1>2, JoinLinks
<1>6. \A p \in picked[t], e \in docs :
        e.sock_id = User(t) /\ e.connects[p[1]] > 0 => <<User(t), p[1]>> \in replaced
  BY <1>2 DEF LinkInv, MemberLinks, PickedMutual
<1>7. CASE jpc'[t] = "insert" /\ UNCHANGED <<docs, picked>>
  <2>1. NoDangling'
    <3>1. \A u \in Users : HasMember(u) => HasMember(u)'
      BY <1>7 DEF HasMember
    <3>2. \A d \in docs : <<d.sock_id, d.addr>> \in picked[t] => PickedFor(d, t)'
      BY <1>7 DEF PickedFor, JoinSection
    <3>3. QED
      BY <1>5, <1>7, <3>1, <3>2 DEF NoDangling, User
  <2>2. PickedMutual'
    BY <1>2, <1>3, <1>6, <1>7 DEF PickedMutual, User
  <2>3. Mutual'
    BY <1>2, <1>5, <1>7 DEF Mutual, User, PickedFor, JoinSection
  <2>4. QED
    BY <1>4, <2>1, <2>2, <2>3 DEF MemberLinks
<1>8. ASSUME jpc'[t] = "done", NEW o \in docs, o.sock_id = User(t),
             docs' = (docs \ {o}) \cup {Pushed(o, PickedUsers(t))}
      PROVE  MemberLinks'
  <2>1. o \in Documents /\ PickedUsers(t) \in SUBSET Users /\ User(t) \in Users
    BY <1>1, PickedUsersType, JoinType DEF DataTyped
  <2>2. PICK n \in Documents :
          /\ docs' = (docs \ {o}) \cup {n}
          /\ n.addr = o.addr /\ n.sock_id = User(t)
          /\ n.connects = Link(o.connects, PickedUsers(t))
    BY <1>8, <2>1, PushedType
  <2>3. \A u \in Users : n.connects[u] = IF u \in PickedUsers(t) THEN o.connects[u] + 1
                                                               ELSE o.connects[u]
    BY <2>2 DEF Link
  <2>4. \A d \in docs : d.sock_id \in Users
    BY <1>1 DEF DataTyped, Documents
  <2>5. \A d \in docs, u \in Users : d.connects[u] \in Nat
    BY <1>1, Counts
  <2>6. \A d \in docs : d # o => d.sock_id # User(t)
    BY <1>1, <1>8 DEF OneDocPerUser
  <2>7. \A u \in Joins : jpc'[u] \notin JoinSection
    BY <1>2, <1>3, <1>8 DEF JoinSection
  <2>8. \A u \in Users : HasMember(u) \/ u = User(t) => HasMember(u)'
    BY <1>8, <2>2 DEF HasMember
  \* A picked member has one link to the user that joins.
  <2>9. ASSUME NEW d \in docs, d.sock_id \in PickedUsers(t)
        PROVE  d.connects[User(t)] = 1
    <3>1. PICK p \in picked[t] : p[1] = d.sock_id
      BY <2>9 DEF PickedUsers
    <3>2. PICK c \in docs : c.sock_id = p[1] /\ c.connects[User(t)] = 1
      BY <1>1, <1>2 DEF DegreeInv, PickedHold, PickedDoc
    <3>3. c = d
      BY <1>1, <3>1, <3>2 DEF OneDocPerUser
    <3>4. QED
      BY <3>2, <3>3
  <2>10. \A u \in PickedUsers(t) : HasMember(u)
    BY <1>1, <1>2 DEF DegreeInv, PickedHold, PickedDoc, PickedUsers, HasMember
  <2>11. NoDangling'
    <3> SUFFICES ASSUME NEW d \in docs', NEW u \in Users, d.connects[u] > 0
                 PROVE  HasMember(u)'
      BY DEF NoDangling
    <3>1. CASE d = n /\ u \in PickedUsers(t)
      BY <2>8, <2>10, <3>1
    <3>2. CASE d = n /\ u \notin PickedUsers(t)
      BY <1>5, <2>3, <2>8, <3>2
    <3>3. CASE d # n
      BY <1>5, <2>2, <2>8, <3>3
    <3>4. QED
      BY <3>1, <3>2, <3>3
  <2>12. PickedMutual'
    BY <2>7 DEF PickedMutual
  <2>13. Mutual'
    <3> SUFFICES ASSUME NEW d \in docs', NEW e \in docs',
                        d.connects[e.sock_id] > e.connects[d.sock_id]
                 PROVE  <<d.sock_id, e.sock_id>> \in replaced
      BY <1>2 DEF Mutual
    <3>1. CASE d = n /\ e = n
      <4>1. n.connects[n.sock_id] \in Nat
        BY DEF Documents, Links
      <4>2. QED
        BY <3>1, <4>1
    <3>2. CASE d = n /\ e # n
      <4>1. e \in docs /\ e # o /\ e.sock_id \in Users /\ e.sock_id # User(t)
        BY <2>2, <2>4, <2>6, <3>2
      <4>2. /\ o.connects[e.sock_id] \in Nat /\ e.connects[User(t)] \in Nat
            /\ n.connects[e.sock_id] > e.connects[User(t)]
        BY <2>1, <2>2, <2>5, <3>2, <4>1
      <4>3. CASE e.sock_id \in PickedUsers(t)
        <5>1. n.connects[e.sock_id] = o.connects[e.sock_id] + 1
          BY <2>3, <4>1, <4>3
        <5>2. e.connects[User(t)] = 1
          BY <2>9, <4>1, <4>3
        <5>3. o.connects[e.sock_id] > 0
          BY <4>2, <5>1, <5>2
        <5>4. PICK p \in picked[t] : p[1] = e.sock_id
          BY <4>3 DEF PickedUsers
        <5>5. <<User(t), e.sock_id>> \in replaced
          BY <1>6, <1>8, <5>3, <5>4
        <5>6. QED
          BY <2>2, <3>2, <5>5
      <4>4. CASE e.sock_id \notin PickedUsers(t)
        <5>1. o.connects[e.sock_id] > e.connects[o.sock_id]
          BY <1>8, <2>3, <4>1, <4>2, <4>4
        <5>2. <<o.sock_id, e.sock_id>> \in replaced
          BY <1>5, <4>1, <5>1
        <5>3. QED
          BY <1>8, <2>2, <3>2, <5>2
      <4>5. QED
        BY <4>3, <4>4
    <3>3. CASE d # n /\ e = n
      <4>1. d \in docs /\ d # o /\ d.sock_id \in Users
        BY <2>2, <2>4, <3>3
      <4>2. /\ o.connects[d.sock_id] \in Nat /\ d.connects[User(t)] \in Nat
            /\ d.connects[User(t)] > n.connects[d.sock_id]
        BY <2>1, <2>2, <2>5, <3>3, <4>1
      <4>3. d.sock_id \notin PickedUsers(t)
        BY <2>3, <2>9, <4>1, <4>2
      <4>4. <<d.sock_id, d.addr>> \notin picked[t]
        BY <4>3 DEF PickedUsers
      <4>5. d.connects[o.sock_id] > o.connects[d.sock_id]
        BY <1>8, <2>3, <4>1, <4>2, <4>3
      <4>6. <<d.sock_id, o.sock_id>> \in replaced
        BY <1>5, <4>1, <4>4, <4>5
      <4>7. QED
        BY <1>8, <2>2, <3>3, <4>6
    <3>4. CASE d # n /\ e # n
      <4>1. d \in docs /\ e \in docs /\ e # o
        BY <2>2, <3>4
      <4>2. e.sock_id # User(t)
        BY <2>6, <4>1
      <4>3. QED
        BY <1>5, <4>1, <4>2
    <3>5. QED
      BY <3>1, <3>2, <3>3, <3>4
  <2>14. QED
    BY <2>11, <2>12, <2>13 DEF MemberLinks
<1>9. QED
  BY <1>1, <1>4, <1>7, <1>8, UpdateMoves

LEMMA LinkInsert ==
  ASSUME LinkInv, NEW t \in Joins, InsertOwn(t)
  PROVE  FreeLinks' /\ MemberLinks'
<1>1. Typed /\ OneSectionAtATime /\ DataTyped /\ OneDocPerUser /\ DegreeInv /\ InsertIsNew
  BY DEF LinkInv, DegreeInv, TypeInv, RegInv
<1>2. /\ \A u \in Joins : u # t => jpc'[u] = jpc[u]
      /\ jpc[t] = "insert" /\ jpc[t] \in JoinSection /\ jpc'[t] = "done"
      /\ UNCHANGED <<fpc, work, replaced>> /\ docs' = docs \cup {NewDoc(t)}
  BY <1>1, InsertMoves DEF JoinSection
<1>3. \A u \in Joins : jpc'[u] \notin JoinSection
  BY <1>1, <1>2, JoinAlone DEF JoinSection
<1>4. FreeLinks'
  BY <1>1, <1>2, NobodyFrees
<1>5. /\ \A d \in docs, u \in Users : d.connects[u] > 0 =>
           HasMember(u) \/ (u = User(t) /\ <<d.sock_id, d.addr>> \in picked[t])
      /\ \A d, e \in docs : d.connects[e.sock_id] > e.connects[d.sock_id] =>
           \/ <<d.sock_id, e.sock_id>> \in replaced
           \/ e.sock_id = User(t) /\ <<d.sock_id, d.addr>> \in picked[t]
  BY <1>2, JoinLinks
<1>6. \A d \in docs : d.sock_id # User(t) /\ d.sock_id \in Users
  BY <1>1, <1>2 DEF InsertIsNew, DataTyped, Documents
<1>7. User(t) \in Users /\ ~HasMember(User(t))
  BY <1>6, JoinType DEF HasMember
<1>8. PICK n \in Documents :
        /\ docs' = docs \cup {n} /\ n.sock_id = User(t)
        /\ n.connects = Link(NoLinks, PickedUsers(t))
  BY <1>1, <1>2, NewDocType
<1>9. \A u \in Users : n.connects[u] = IF u \in PickedUsers(t) THEN 1 ELSE 0
  BY <1>8 DEF Link, NoLinks
<1>10. \A d \in docs, u \in Users : d.connects[u] \in Nat
  BY <1>1, Counts
<1>11. ASSUME NEW d \in docs, d.sock_id \in PickedUsers(t)
       PROVE  d.connects[User(t)] = 1
  <2>1. PICK p \in picked[t] : p[1] = d.sock_id
    BY <1>11 DEF PickedUsers
  <2>2. PICK c \in docs : c.sock_id = p[1] /\ c.connects[User(t)] = 1
    BY <1>1, <1>2 DEF DegreeInv, PickedHold, PickedDoc
  <2>3. c = d
    BY <1>1, <2>1, <2>2 DEF OneDocPerUser
  <2>4. QED
    BY <2>2, <2>3
<1>12. \A u \in PickedUsers(t) : HasMember(u)
  BY <1>1, <1>2 DEF DegreeInv, PickedHold, PickedDoc, PickedUsers, HasMember
<1>13. \A u \in Users : HasMember(u) \/ u = User(t) => HasMember(u)'
  BY <1>8 DEF HasMember
<1>14. NoDangling'
  <2> SUFFICES ASSUME NEW d \in docs', NEW u \in Users, d.connects[u] > 0
               PROVE  HasMember(u)'
    BY DEF NoDangling
  <2>1. CASE d = n
    BY <1>9, <1>12, <1>13, <2>1
  <2>2. CASE d \in docs
    BY <1>5, <1>13, <2>2
  <2>3. QED
    BY <1>8, <2>1, <2>2
<1>15. PickedMutual'
  BY <1>3 DEF PickedMutual
<1>16. Mutual'
  <2> SUFFICES ASSUME NEW d \in docs', NEW e \in docs',
                      d.connects[e.sock_id] > e.connects[d.sock_id]
               PROVE  <<d.sock_id, e.sock_id>> \in replaced
    BY <1>2 DEF Mutual
  <2>1. CASE d = n /\ e = n
    BY <1>7, <1>8, <1>9, <2>1
  <2>2. CASE d = n /\ e \in docs
    <3>1. e.connects[User(t)] \in Nat /\ e.sock_id \in Users
      BY <1>6, <1>7, <1>10, <2>2
    <3>2. n.connects[e.sock_id] > e.connects[User(t)]
      BY <1>8, <2>2
    <3>3. QED
      BY <1>9, <1>11, <2>2, <3>1, <3>2
  <2>3. CASE d \in docs /\ e = n
    <3>1. d.connects[User(t)] \in Nat /\ d.sock_id \in Users
      BY <1>6, <1>7, <1>10, <2>3
    <3>2. d.connects[User(t)] > n.connects[d.sock_id]
      BY <1>8, <2>3
    <3>3. d.connects[User(t)] > 0
      BY <1>9, <3>1, <3>2
    <3>4. <<d.sock_id, d.addr>> \in picked[t]
      BY <1>5, <1>7, <2>3, <3>3
    <3>5. d.sock_id \in PickedUsers(t)
      BY <3>4 DEF PickedUsers
    <3>6. QED
      BY <1>9, <1>11, <2>3, <3>1, <3>2, <3>5
  <2>4. CASE d \in docs /\ e \in docs
    BY <1>5, <1>6, <2>4
  <2>5. QED
    BY <1>8, <2>1, <2>2, <2>3, <2>4
<1>17. QED
  BY <1>4, <1>14, <1>15, <1>16 DEF MemberLinks

(* What a step of free() between its calls has to show.                    *)
LEMMA FreeWorkGoal ==
  ASSUME LinkInv, NEW s \in Sockets, fpc[s] \in FreeSection, UNCHANGED jpc,
         \A r \in Sockets : r # s => fpc'[r] = fpc[r],
         fpc'[s] \in FreeSection \ {"delete"} => \A d \in docs' : d.sock_id # UserOf[s],
         fpc'[s] \in {"pull", "repick", "link"} =>
           \A m \in work'[s].repick : \E d \in docs' : SameOwner(d, m),
         fpc'[s] = "link" =>
           \A l \in work'[s].link :
             /\ l.of \in work'[s].repick
             /\ \E d \in docs' : d.addr = l.to /\ d.connects[l.of.sock_id] > 0,
         \A d \in docs', u \in Users : d.connects[u] > 0 =>
           \/ \E e \in docs' : e.sock_id = u
           \/ u = UserOf[s] /\ fpc'[s] = "aggregate"
           \/ /\ u = UserOf[s] /\ fpc'[s] = "pull"
              /\ \E m \in work'[s].pull : SameOwner(d, m),
         \A d, e \in docs' : d.connects[e.sock_id] > e.connects[d.sock_id] =>
           <<d.sock_id, e.sock_id>> \in replaced'
  PROVE  FreeLinks' /\ MemberLinks'
<1>1. /\ \A r \in Sockets : r # s => fpc'[r] \notin FreeSection
      /\ \A t \in Joins : jpc'[t] \notin JoinSection
  BY FreeAlone DEF LinkInv, DegreeInv, TypeInv, RegInv
<1>2. UserGone'
  BY <1>1 DEF UserGone
<1>3. RepickMembers'
  BY <1>1 DEF RepickMembers, SameOwner, FreeSection
<1>4. LinkTarget'
  BY <1>1 DEF LinkTarget, FreeSection
<1>5. NoDangling'
  BY <1>1 DEF NoDangling, HasMember, ToBePulled, SameOwner, PickedFor
<1>6. PickedMutual' /\ Mutual'
  BY <1>1 DEF PickedMutual, Mutual
<1>7. QED
  BY <1>2, <1>3, <1>4, <1>5, <1>6 DEF FreeLinks, MemberLinks

LEMMA LinkDelete ==
  ASSUME LinkInv, NEW s \in Sockets, FreeDelete(s)
  PROVE  FreeLinks' /\ MemberLinks'
<1>1. Typed /\ OneSectionAtATime /\ DataTyped /\ OneDocPerUser /\ DocsTyped /\ DegreeInv
  BY DEF LinkInv, DegreeInv, TypeInv, RegInv
<1>2. /\ UNCHANGED <<jpc, picked>> /\ fpc[s] \in FreeSection /\ fpc[s] = "delete"
      /\ \A r \in Sockets : r # s => fpc'[r] = fpc[r]
      /\ replaced' = replaced
  BY <1>1, FreeWorkMoves DEF FreeDelete, history
<1>3. /\ \A d \in docs, u \in Users : d.connects[u] > 0 => HasMember(u)
      /\ \A d, e \in docs : d.connects[e.sock_id] > e.connects[d.sock_id] =>
           <<d.sock_id, e.sock_id>> \in replaced
  BY <1>2, FreeWorkLinks DEF ToBePulled
<1>4. CASE {d \in docs : d.addr = s} = {}
  <2>1. docs' = docs /\ fpc'[s] = "wait"
    BY <1>1, <1>4 DEF FreeDelete, Typed
  <2>2. \A d \in docs', u \in Users : d.connects[u] > 0 => \E e \in docs' : e.sock_id = u
    BY <1>3, <2>1 DEF HasMember
  <2>3. \A d, e \in docs' : d.connects[e.sock_id] > e.connects[d.sock_id] =>
           <<d.sock_id, e.sock_id>> \in replaced'
    BY <1>2, <1>3, <2>1
  <2>4. fpc'[s] \notin FreeSection
    BY <2>1 DEF FreeSection
  <2>5. QED
    BY <1>2, <2>1, <2>2, <2>3, <2>4, FreeWorkGoal
<1>5. CASE {d \in docs : d.addr = s} # {}
  <2>1. PICK o \in docs : o.addr = s /\ docs' = docs \ {o}
    BY <1>5 DEF FreeDelete
  <2>2. fpc'[s] = "aggregate"
    BY <1>1, <1>5 DEF FreeDelete, Typed
  <2>3. o.sock_id = UserOf[s]
    BY <1>1, <2>1 DEF DocsTyped, DocOf
  <2>4. \A d \in docs' : d.sock_id # UserOf[s]
    BY <1>1, <2>1, <2>3 DEF OneDocPerUser
  <2>5. \A d \in docs', u \in Users : d.connects[u] > 0 =>
          (\E e \in docs' : e.sock_id = u) \/ u = UserOf[s]
    BY <1>3, <2>1, <2>3 DEF HasMember
  <2>6. \A d, e \in docs' : d.connects[e.sock_id] > e.connects[d.sock_id] =>
           <<d.sock_id, e.sock_id>> \in replaced'
    BY <1>2, <1>3, <2>1
  <2>7. QED
    BY <1>2, <2>2, <2>4, <2>5, <2>6, FreeWorkGoal
<1>6. QED
  BY <1>4, <1>5

LEMMA LinkAggregate ==
  ASSUME LinkInv, NEW s \in Sockets, FreeAggregate(s)
  PROVE  FreeLinks' /\ MemberLinks'
<1>1. Typed /\ OneSectionAtATime /\ DataTyped /\ DegreeInv
  BY DEF LinkInv, DegreeInv, TypeInv, RegInv
<1>2. /\ UNCHANGED <<jpc, picked>> /\ fpc[s] \in FreeSection /\ fpc[s] = "aggregate"
      /\ \A r \in Sockets : r # s => fpc'[r] = fpc[r]
      /\ docs' = docs /\ replaced' = replaced
  BY <1>1, FreeWorkMoves DEF FreeAggregate, history
<1>3. /\ \A d \in docs, u \in Users : d.connects[u] > 0 => HasMember(u) \/ u = UserOf[s]
      /\ \A d, e \in docs : d.connects[e.sock_id] > e.connects[d.sock_id] =>
           <<d.sock_id, e.sock_id>> \in replaced
  BY <1>2, FreeWorkLinks
<1>4. \A d \in docs : d.sock_id # UserOf[s]
  BY <1>2 DEF LinkInv, FreeLinks, UserGone
<1>5. ASSUME NEW d \in docs, d.connects[UserOf[s]] > 0
      PROVE  \E m \in Linked(s) : SameOwner(d, m)
  <2> DEFINE m == [addr |-> d.addr, sock_id |-> d.sock_id,
                   rest |-> Unlink(d.connects, UserOf[s])]
  <2>1. m \in Linked(s)
    BY <1>5 DEF Linked
  <2>2. SameOwner(d, m)
    BY DEF SameOwner
  <2>3. QED
    BY <2>1, <2>2
<1>6. CASE Linked(s) = {}
  <2>1. fpc'[s] = "done"
    BY <1>1, <1>6 DEF FreeAggregate, FinishFree, Typed
  <2>2. \A d \in docs', u \in Users : d.connects[u] > 0 => \E e \in docs' : e.sock_id = u
    BY <1>2, <1>3, <1>5, <1>6 DEF HasMember
  <2>3. fpc'[s] \notin FreeSection
    BY <2>1 DEF FreeSection
  <2>4. QED
    BY <1>2, <1>3, <2>1, <2>2, <2>3, FreeWorkGoal
<1>7. CASE Linked(s) # {}
  <2>1. fpc'[s] = "pull" /\ work'[s].pull = Linked(s) /\ work'[s].repick = Linked(s)
    BY <1>1, <1>7 DEF FreeAggregate, Typed, DataTyped, Works
  <2>2. \A d \in docs', u \in Users : d.connects[u] > 0 =>
          \/ \E e \in docs' : e.sock_id = u
          \/ u = UserOf[s] /\ \E m \in work'[s].pull : SameOwner(d, m)
    BY <1>2, <1>3, <1>5, <2>1 DEF HasMember
  <2>3. \A m \in work'[s].repick : \E d \in docs' : SameOwner(d, m)
    BY <1>2, <2>1 DEF Linked, SameOwner
  <2>4. QED
    BY <1>2, <1>3, <1>4, <2>1, <2>2, <2>3, FreeWorkGoal
<1>8. QED
  BY <1>6, <1>7

LEMMA LinkPull ==
  ASSUME LinkInv, NEW s \in Sockets, FreePull(s)
  PROVE  FreeLinks' /\ MemberLinks'
<1>1. Typed /\ OneSectionAtATime /\ DataTyped /\ DegreeInv
  BY DEF LinkInv, DegreeInv, TypeInv, RegInv
<1>2. /\ UNCHANGED <<jpc, picked>> /\ fpc[s] \in FreeSection /\ fpc[s] = "pull"
      /\ \A r \in Sockets : r # s => fpc'[r] = fpc[r]
      /\ replaced' = replaced
  BY <1>1, FreeWorkMoves DEF FreePull, history
<1>3. PICK m \in work[s].pull :
        /\ docs' = {IF d.addr = m.addr /\ d.sock_id = m.sock_id
                    THEN Pulled(d, m.rest) ELSE d : d \in docs}
        /\ work' = [work EXCEPT ![s].pull = @ \ {m}]
        /\ fpc' = [fpc EXCEPT ![s] = IF work[s].pull = {m} THEN "repick" ELSE "pull"]
  BY DEF FreePull
<1>4. /\ work'[s].pull = work[s].pull \ {m} /\ work'[s].repick = work[s].repick
      /\ fpc'[s] = IF work[s].pull = {m} THEN "repick" ELSE "pull"
  BY <1>1, <1>3 DEF DataTyped, Works, Typed
<1>5. /\ \A d \in docs, u \in Users : d.connects[u] > 0 =>
           HasMember(u) \/ (u = UserOf[s] /\ ToBePulled(d, s))
      /\ \A d, e \in docs : d.connects[e.sock_id] > e.connects[d.sock_id] =>
           <<d.sock_id, e.sock_id>> \in replaced
  BY <1>2, FreeWorkLinks
<1>6. /\ \A d \in docs : d.sock_id # UserOf[s] /\ d.sock_id \in Users
      /\ UserOf[s] \in Users
  BY <1>1, <1>2, UserOfAssumption DEF LinkInv, FreeLinks, UserGone, DataTyped, Documents
\* A document that is pulled forgets the user that left and nobody else.
<1>7. ASSUME NEW d \in docs, SameOwner(d, m)
      PROVE  LET e == Pulled(d, m.rest)
             IN  /\ SameOwner(e, d) /\ e.connects[UserOf[s]] = 0
                 /\ \A u \in Users : u # UserOf[s] => e.connects[u] = d.connects[u]
  <2>1. m.rest = Unlink(d.connects, UserOf[s])
    BY <1>1, <1>2, <1>7 DEF DegreeInv, PullMatches
  <2>2. d \in Documents /\ Degree(d)
    BY <1>1 DEF DataTyped, DegreeInv, Degrees
  <2>3. /\ Pulled(d, m.rest).connects = Unlink(d.connects, UserOf[s])
        /\ Pulled(d, m.rest).addr = d.addr /\ Pulled(d, m.rest).sock_id = d.sock_id
    BY <1>6, <2>1, <2>2, PulledDegree
  <2>4. \A u \in Users : Unlink(d.connects, UserOf[s])[u] =
                           IF u = UserOf[s] THEN 0 ELSE d.connects[u]
    BY <2>2 DEF Unlink, Documents, Links
  <2>5. QED
    BY <1>6, <2>3, <2>4 DEF SameOwner
\* So each document comes from one of the same owner.
<1>8. ASSUME NEW e \in docs'
      PROVE  \E d \in docs :
               /\ SameOwner(e, d)
               /\ \A u \in Users : u # UserOf[s] => e.connects[u] = d.connects[u]
               /\ e.connects[UserOf[s]] > 0 => e = d /\ ~SameOwner(d, m)
  <2>1. PICK d \in docs : e = IF d.addr = m.addr /\ d.sock_id = m.sock_id
                              THEN Pulled(d, m.rest) ELSE d
    BY <1>3
  <2>2. CASE SameOwner(d, m)
    BY <1>7, <2>1, <2>2 DEF SameOwner
  <2>3. CASE ~SameOwner(d, m)
    BY <2>1, <2>3 DEF SameOwner
  <2>4. QED
    BY <2>2, <2>3
<1>9. \A d \in docs : \E e \in docs' : SameOwner(d, e)
  <2>1. ASSUME NEW d \in docs
        PROVE  \E e \in docs' : SameOwner(d, e)
    <3>1. (IF d.addr = m.addr /\ d.sock_id = m.sock_id
           THEN Pulled(d, m.rest) ELSE d) \in docs'
      BY <1>3
    <3>2. CASE SameOwner(d, m)
      BY <1>7, <3>1, <3>2 DEF SameOwner
    <3>3. CASE ~SameOwner(d, m)
      BY <3>1, <3>3 DEF SameOwner
    <3>4. QED
      BY <3>2, <3>3
  <2>2. QED
    BY <2>1
<1>10. \A d \in docs' : d.sock_id # UserOf[s]
  BY <1>6, <1>8 DEF SameOwner
<1>11. \A k \in work'[s].repick : \E d \in docs' : SameOwner(d, k)
  BY <1>2, <1>4, <1>9 DEF LinkInv, FreeLinks, RepickMembers, SameOwner
<1>12. ASSUME NEW e \in docs', NEW u \in Users, e.connects[u] > 0
       PROVE  \/ \E f \in docs' : f.sock_id = u
              \/ /\ u = UserOf[s] /\ fpc'[s] = "pull"
                 /\ \E k \in work'[s].pull : SameOwner(e, k)
  <2>1. PICK d \in docs :
          /\ SameOwner(e, d)
          /\ \A v \in Users : v # UserOf[s] => e.connects[v] = d.connects[v]
          /\ e.connects[UserOf[s]] > 0 => e = d /\ ~SameOwner(d, m)
    BY <1>8
  <2>2. d.connects[u] > 0
    BY <1>12, <2>1
  <2>3. CASE HasMember(u)
    BY <1>9, <2>3 DEF HasMember, SameOwner
  <2>4. CASE u = UserOf[s] /\ ToBePulled(d, s)
    <3>1. e = d /\ ~SameOwner(d, m)
      BY <1>12, <2>1, <2>4
    <3>2. PICK k \in work[s].pull : SameOwner(d, k)
      BY <1>2, <2>4 DEF ToBePulled
    <3>3. k # m
      BY <3>1, <3>2
    <3>4. QED
      BY <1>4, <2>4, <3>1, <3>2, <3>3
  <2>5. QED
    BY <1>5, <2>2, <2>3, <2>4
<1>13. ASSUME NEW d \in docs', NEW e \in docs',
              d.connects[e.sock_id] > e.connects[d.sock_id]
       PROVE  <<d.sock_id, e.sock_id>> \in replaced'
  <2>1. PICK c \in docs : SameOwner(d, c) /\
          \A u \in Users : u # UserOf[s] => d.connects[u] = c.connects[u]
    BY <1>8
  <2>2. PICK f \in docs : SameOwner(e, f) /\
          \A u \in Users : u # UserOf[s] => e.connects[u] = f.connects[u]
    BY <1>8
  <2>3. c.connects[f.sock_id] > f.connects[c.sock_id]
    BY <1>6, <1>13, <2>1, <2>2 DEF SameOwner
  <2>4. QED
    BY <1>2, <1>5, <2>1, <2>2, <2>3 DEF SameOwner
<1>14. fpc'[s] # "link"
  BY <1>4
<1>15. QED
  BY <1>2, <1>10, <1>11, <1>12, <1>13, <1>14, FreeWorkGoal

LEMMA LinkRepick ==
  ASSUME LinkInv, NEW s \in Sockets, FreeRepick(s)
  PROVE  FreeLinks' /\ MemberLinks'
<1>1. Typed /\ OneSectionAtATime /\ DataTyped /\ DegreeInv
  BY DEF LinkInv, DegreeInv, TypeInv, RegInv
<1>2. /\ UNCHANGED <<jpc, picked>> /\ fpc[s] \in FreeSection /\ fpc[s] = "repick"
      /\ \A r \in Sockets : r # s => fpc'[r] = fpc[r]
  BY <1>1, FreeWorkMoves DEF FreeRepick
<1>3. PICK m \in work[s].repick : RepickNone(s, m) \/ RepickOne(s, m)
  BY DEF FreeRepick
<1>4. /\ \A d \in docs, u \in Users : d.connects[u] > 0 => HasMember(u)
      /\ \A d, e \in docs : d.connects[e.sock_id] > e.connects[d.sock_id] =>
           <<d.sock_id, e.sock_id>> \in replaced
  BY <1>2, FreeWorkLinks DEF ToBePulled
<1>5. /\ \A d \in docs : d.sock_id # UserOf[s]
      /\ \A k \in work[s].repick : \E d \in docs : SameOwner(d, k)
  BY <1>2 DEF LinkInv, FreeLinks, UserGone, RepickMembers
<1>6. CASE RepickNone(s, m)
  <2>1. /\ docs' = docs /\ replaced' = replaced
        /\ work'[s].repick \in SUBSET work[s].repick
        /\ fpc'[s] \in {"repick", "done"}
    BY <1>1, <1>6 DEF RepickNone, NextRepick, FinishFree, Typed, DataTyped, Works
  <2>2. \A d \in docs', u \in Users : d.connects[u] > 0 => \E e \in docs' : e.sock_id = u
    BY <1>4, <2>1 DEF HasMember
  <2>3. QED
    BY <1>2, <1>4, <1>5, <2>1, <2>2, FreeWorkGoal
<1>7. CASE RepickOne(s, m)
  <2>1. PICK cl \in Pickable(m.sock_id) :
          /\ docs' = (docs \ {cl}) \cup {Pushed(cl, {m.sock_id})}
          /\ replaced' = replaced \cup {<<cl.sock_id, m.sock_id>>}
          /\ work' = [work EXCEPT ![s].link =
                        {[of |-> m, to |-> cl.addr, user |-> cl.sock_id]}]
    BY <1>7 DEF RepickOne
  <2>2. fpc'[s] = "link"
    BY <1>1, <1>7 DEF RepickOne, Typed
  <2>3. cl \in docs /\ cl \in Documents /\ m.sock_id \in Users
    BY <1>1 DEF Pickable, DataTyped, Works, Members
  <2>4. {m.sock_id} \in SUBSET Users
    BY <2>3
  <2>5. PICK n \in Documents :
          /\ n = Pushed(cl, {m.sock_id})
          /\ n.addr = cl.addr /\ n.sock_id = cl.sock_id
          /\ n.connects = Link(cl.connects, {m.sock_id})
    BY <2>3, <2>4, PushedType
  <2>6. docs' = (docs \ {cl}) \cup {n}
    BY <2>1, <2>5
  <2>7. /\ \A u \in Users : u # m.sock_id => n.connects[u] = cl.connects[u]
        /\ \A u \in Users : n.connects[u] >= cl.connects[u]
        /\ n.connects[m.sock_id] > 0
    <3>1. \A u \in Users : cl.connects[u] \in Nat
      BY <1>1, <2>3, Counts
    <3>2. \A u \in Users : n.connects[u] = IF u = m.sock_id THEN cl.connects[u] + 1
                                                            ELSE cl.connects[u]
      BY <2>5 DEF Link
    <3>3. QED
      BY <2>3, <3>1, <3>2
  <2>8. /\ work'[s].repick = work[s].repick
        /\ work'[s].link = {[of |-> m, to |-> cl.addr, user |-> cl.sock_id]}
    BY <1>1, <2>1 DEF DataTyped, Works
  <2>9. \A d \in docs : \E e \in docs' : SameOwner(d, e)
    BY <2>5, <2>6 DEF SameOwner
  <2>10. \A d \in docs' : d.sock_id # UserOf[s] /\ d.sock_id \in Users
    BY <1>1, <1>5, <2>3, <2>5, <2>6 DEF DataTyped, Documents
  <2>11. \A k \in work'[s].repick : \E d \in docs' : SameOwner(d, k)
    BY <1>5, <2>8, <2>9 DEF SameOwner
  <2>12. \A l \in work'[s].link :
           /\ l.of \in work'[s].repick
           /\ \E d \in docs' : d.addr = l.to /\ d.connects[l.of.sock_id] > 0
    <3>1. \A l \in work'[s].link : l.of = m /\ l.to = cl.addr
      BY <2>8
    <3>2. n \in docs' /\ n.addr = cl.addr /\ n.connects[m.sock_id] > 0
      BY <2>5, <2>6, <2>7
    <3>3. m \in work'[s].repick
      BY <2>8
    <3>4. QED
      BY <3>1, <3>2, <3>3
  <2>13. ASSUME NEW d \in docs', NEW u \in Users, d.connects[u] > 0
         PROVE  \E e \in docs' : e.sock_id = u
    <3>1. HasMember(u)
      <4>1. CASE d = n /\ u = m.sock_id
        BY <1>5, <4>1 DEF HasMember, SameOwner
      <4>2. CASE d = n /\ u # m.sock_id
        BY <1>4, <2>3, <2>7, <2>13, <4>2
      <4>3. CASE d # n
        BY <1>4, <2>6, <2>13, <4>3
      <4>4. QED
        BY <4>1, <4>2, <4>3
    <3>2. QED
      BY <2>9, <3>1 DEF HasMember, SameOwner
  <2>14. ASSUME NEW d \in docs', NEW e \in docs',
                d.connects[e.sock_id] > e.connects[d.sock_id]
         PROVE  <<d.sock_id, e.sock_id>> \in replaced'
    <3>1. CASE d = n /\ e.sock_id = m.sock_id
      BY <2>1, <2>5, <3>1
    <3>2. CASE ~(d = n /\ e.sock_id = m.sock_id)
      <4>1. PICK c \in docs : c.sock_id = d.sock_id /\ c.connects[e.sock_id] = d.connects[e.sock_id]
        BY <2>3, <2>5, <2>6, <2>7, <2>10, <3>2
      <4>2. PICK f \in docs : f.sock_id = e.sock_id /\ f.connects[d.sock_id] <= e.connects[d.sock_id]
        <5>1. CASE e = n
          BY <2>3, <2>5, <2>7, <2>10, <5>1
        <5>2. CASE e # n
          <6>1. e \in docs
            BY <2>6, <5>2
          <6>2. e.connects[d.sock_id] \in Nat
            BY <1>1, <2>10, <6>1, Counts
          <6>3. QED
            BY <6>1, <6>2
        <5>3. QED
          BY <5>1, <5>2
      <4>3. /\ d.connects[e.sock_id] \in Nat /\ e.connects[d.sock_id] \in Nat
            /\ f.connects[d.sock_id] \in Nat
        <5>1. d \in Documents /\ e \in Documents
          BY <1>1, <2>6 DEF DataTyped
        <5>2. f.connects[d.sock_id] \in Nat
          BY <1>1, <2>10, Counts
        <5>3. QED
          BY <2>10, <5>1, <5>2 DEF Documents, Links
      <4>4. c.connects[f.sock_id] > f.connects[c.sock_id]
        BY <2>14, <4>1, <4>2, <4>3
      <4>5. <<c.sock_id, f.sock_id>> \in replaced
        BY <1>4, <4>4
      <4>6. QED
        BY <2>1, <4>1, <4>2, <4>5
    <3>3. QED
      BY <3>1, <3>2
  <2>15. QED
    BY <1>2, <2>2, <2>10, <2>11, <2>12, <2>13, <2>14, FreeWorkGoal
<1>8. QED
  BY <1>3, <1>6, <1>7

LEMMA LinkLink ==
  ASSUME LinkInv, NEW s \in Sockets, FreeLink(s)
  PROVE  FreeLinks' /\ MemberLinks'
<1>1. Typed /\ OneSectionAtATime /\ DataTyped /\ DegreeInv
  BY DEF LinkInv, DegreeInv, TypeInv, RegInv
<1>2. /\ UNCHANGED <<jpc, picked>> /\ fpc[s] \in FreeSection /\ fpc[s] = "link"
      /\ \A r \in Sockets : r # s => fpc'[r] = fpc[r]
      /\ docs' = docs /\ replaced' = replaced
  BY <1>1, FreeWorkMoves, LinkFindsNothing DEF FreeLink
<1>3. /\ \A d \in docs, u \in Users : d.connects[u] > 0 => HasMember(u)
      /\ \A d, e \in docs : d.connects[e.sock_id] > e.connects[d.sock_id] =>
           <<d.sock_id, e.sock_id>> \in replaced
  BY <1>2, FreeWorkLinks DEF ToBePulled
<1>4. /\ \A d \in docs : d.sock_id # UserOf[s]
      /\ \A k \in work[s].repick : \E d \in docs : SameOwner(d, k)
  BY <1>2 DEF LinkInv, FreeLinks, UserGone, RepickMembers
<1>5. work'[s].repick \in SUBSET work[s].repick /\ fpc'[s] \in {"repick", "done"}
  BY <1>1 DEF FreeLink, NextRepick, FinishFree, Typed, DataTyped, Works
<1>6. \A d \in docs', u \in Users : d.connects[u] > 0 => \E e \in docs' : e.sock_id = u
  BY <1>2, <1>3 DEF HasMember
<1>7. QED
  BY <1>2, <1>3, <1>4, <1>5, <1>6, FreeWorkGoal

LEMMA LinkInvStep == LinkInv /\ [Next]_vars => LinkInv'
<1> SUFFICES ASSUME LinkInv, [Next]_vars PROVE LinkInv'
  OBVIOUS
<1>1. DegreeInv'
  BY DegreeInvStep DEF LinkInv
<1>2. CASE UNCHANGED vars
  BY <1>1, <1>2, LinkUnchanged DEF vars, joinVars, freeVars, history, LinkInv
<1>3. ASSUME NEW t \in Joins, JoinRequest(t) \/ JoinStep(t) \/ JoinDbError(t)
      PROVE  LinkInv'
  BY <1>1, <1>3, LinkQuietJoin, LinkPick, LinkUpdate, LinkInsert
     DEF JoinStep, QuietJoin, LinkInv
<1>4. ASSUME NEW s \in Sockets, SocketStep(s) \/ FreeStep(s) \/ FreeDbError(s)
      PROVE  LinkInv'
  BY <1>1, <1>4, LinkQuietFree, LinkDelete, LinkAggregate, LinkPull, LinkRepick, LinkLink
     DEF FreeStep, QuietFree, LinkInv
<1>5. QED
  BY <1>2, <1>3, <1>4 DEF Next

(* Outside the lock no link leads to a user without a document.            *)
THEOREM NoneDangling == Spec => []LinksPointToMembers
<1>1. LinkInv => LinksPointToMembers
  <2> SUFFICES ASSUME LinkInv, ~critical, NEW d \in docs, NEW u \in Users,
                      d.connects[u] > 0
               PROVE  HasMember(u)
    BY DEF LinksPointToMembers, HasMember
  <2>1. OneSectionAtATime /\ Live
    BY DEF LinkInv, DegreeInv, TypeInv, RegInv, Live
  <2>2. /\ \A t \in Joins : jpc[t] \notin JoinSection
        /\ \A s \in Sockets : fpc[s] \notin FreeSection
    BY <2>1 DEF OneSectionAtATime, JoinsInside, FreesInside
  <2>3. QED
    BY <2>1, <2>2 DEF LinkInv, MemberLinks, NoDangling, PickedFor, ToBePulled, FreeSection
<1>2. QED
  BY LinkInvInit, LinkInvStep, <1>1, PTL DEF Spec

(* Outside the lock only replacements are known to one side alone.         *)
THEOREM LinksMutual == Spec => []OneSidedOnlyByReplacement
<1>1. LinkInv => OneSidedOnlyByReplacement
  <2> SUFFICES ASSUME LinkInv, ~critical, NEW d \in docs, NEW e \in docs,
                      d.connects[e.sock_id] > e.connects[d.sock_id]
               PROVE  <<d.sock_id, e.sock_id>> \in replaced
    BY DEF OneSidedOnlyByReplacement
  <2>1. OneSectionAtATime /\ Live
    BY DEF LinkInv, DegreeInv, TypeInv, RegInv, Live
  <2>2. \A t \in Joins : jpc[t] \notin JoinSection
    BY <2>1 DEF OneSectionAtATime, JoinsInside, FreesInside
  <2>3. QED
    BY <2>1, <2>2 DEF LinkInv, MemberLinks, Mutual, PickedFor
<1>2. QED
  BY LinkInvInit, LinkInvStep, <1>1, PTL DEF Spec

\* The introductions of a step are of members linked when it ends.
Introduced ==
  \A m \in intros' \ intros :
    \E d \in docs' : d.addr = m[2] /\ d.connects[UserOf[m[1]]] > 0

(* A join introduces those it picked.                                      *)
LEMMA IntroFinish ==
  ASSUME LinkInv, NEW t \in Joins, jpc[t] \in JoinSection, FinishJoin(t),
         \A d \in docs : d.sock_id # User(t) => d \in docs'
  PROVE  Introduced
<1> SUFFICES ASSUME NEW m \in intros' \ intros
             PROVE  \E d \in docs' : d.addr = m[2] /\ d.connects[UserOf[m[1]]] > 0
  BY DEF Introduced
<1>1. PICK p \in picked[t] : m = <<t[1], p[2]>>
  BY DEF FinishJoin
<1>2. p[1] # User(t) /\ PickedDoc(t, p)
  BY DEF LinkInv, DegreeInv, PickedHold
<1>3. PICK d \in docs : d.sock_id = p[1] /\ d.addr = p[2] /\ d.connects[User(t)] = 1
  BY <1>2 DEF PickedDoc
<1>4. d \in docs' /\ m[2] = p[2] /\ UserOf[m[1]] = User(t)
  BY <1>1, <1>2, <1>3 DEF User
<1>5. QED
  BY <1>3, <1>4

LEMMA IntroStep == LinkInv /\ [Next]_vars => [Introduced]_vars
<1> SUFFICES ASSUME LinkInv, Next PROVE Introduced
  OBVIOUS
<1>1. Typed /\ DataTyped /\ DocsTyped
  BY DEF LinkInv, DegreeInv, TypeInv, RegInv
<1>2. ASSUME intros' = intros PROVE Introduced
  BY <1>2 DEF Introduced
<1>3. ASSUME NEW t \in Joins, JoinRequest(t) \/ JoinStep(t) \/ JoinDbError(t)
      PROVE  Introduced
  <2>1. CASE QuietJoin(t)
    BY <1>1, <1>2, <2>1, QuietJoinMoves
  <2>2. CASE Pick(t)
    BY <1>1, <1>2, <2>2, PickMoves
  <2>3. CASE UpdateOwn(t)
    <3>1. jpc[t] \in JoinSection
      BY <1>1, <2>3, UpdateMoves DEF JoinSection
    <3>2. CASE intros' = intros
      BY <1>2, <3>2
    <3>3. ASSUME FinishJoin(t), NEW o \in docs, o.sock_id = User(t),
                 docs' = (docs \ {o}) \cup {Pushed(o, PickedUsers(t))}
          PROVE  Introduced
      BY <3>1, <3>3, IntroFinish
    <3>4. QED
      BY <1>1, <2>3, <3>2, <3>3, UpdateMoves
  <2>4. CASE InsertOwn(t)
    <3>1. jpc[t] \in JoinSection /\ FinishJoin(t) /\ docs' = docs \cup {NewDoc(t)}
      BY <1>1, <2>4, InsertMoves DEF JoinSection
    <3>2. QED
      BY <3>1, IntroFinish
  <2>5. QED
    BY <1>3, <2>1, <2>2, <2>3, <2>4 DEF JoinStep, QuietJoin
<1>4. ASSUME NEW s \in Sockets, SocketStep(s) \/ FreeStep(s) \/ FreeDbError(s)
      PROVE  Introduced
  <2>1. CASE QuietFree(s)
    BY <1>1, <1>2, <2>1, QuietFreeMoves
  <2>2. CASE FreeDelete(s) \/ FreeAggregate(s) \/ FreePull(s) \/ FreeRepick(s)
    BY <1>2, <2>2 DEF FreeDelete, FreeAggregate, FreePull, FreeRepick, history
  <2>3. CASE FreeLink(s)
    <3>1. docs' = docs /\ fpc[s] = "link"
      BY <1>1, <2>3, LinkFindsNothing DEF FreeLink
    <3>2. PICK l \in work[s].link :
            intros' = IF Connected(l.of.addr) /\ Connected(l.to)
                      THEN intros \cup {<<l.of.addr, l.to>>} ELSE intros
      BY <2>3 DEF FreeLink
    <3>3. /\ l.of \in work[s].repick
          /\ \E d \in docs : d.addr = l.to /\ d.connects[l.of.sock_id] > 0
      BY <3>1 DEF LinkInv, FreeLinks, LinkTarget
    <3>4. PICK e \in docs : SameOwner(e, l.of)
      BY <3>1, <3>3 DEF LinkInv, FreeLinks, RepickMembers
    <3>5. l.of.sock_id = UserOf[l.of.addr]
      BY <1>1, <3>4 DEF DocsTyped, DocOf, SameOwner
    <3>6. ASSUME NEW m \in intros' \ intros
          PROVE  m[1] = l.of.addr /\ m[2] = l.to
      BY <3>2
    <3>7. QED
      BY <3>1, <3>3, <3>5, <3>6 DEF Introduced
  <2>4. QED
    BY <1>4, <2>1, <2>2, <2>3 DEF FreeStep, QuietFree
<1>5. QED
  BY <1>3, <1>4 DEF Next

(* A member is only introduced to one whose document holds the link.       *)
THEOREM Introductions == Spec => IntroductionsAreLinked
<1>1. LinkInv /\ [Next]_vars => [Introduced]_vars
  BY IntroStep
<1>2. [][Introduced]_vars <=> IntroductionsAreLinked
  BY PTL DEF Introduced, IntroductionsAreLinked
<1>3. QED
  BY LinkInvInit, LinkInvStep, <1>1, <1>2, PTL DEF Spec

----------------------------------------------------------------------------
(* The sections are serializable.                                          *)

\* A join whose call was rejected keeps everybody out.
FailedAlone ==
  \A t \in Joins : jpc[t] = "failed" =>
    /\ critical
    /\ \A u \in Joins : jpc[u] \notin JoinSection
    /\ \A s \in Sockets : fpc[s] \notin FreeSection

\* A member picked had a free place before, and picking goes on as long as
\* there are places to pick.
PickedBelow ==
  \A t \in Joins : jpc[t] \in JoinSection =>
    \A d \in docs : <<d.sock_id, d.addr>> \in picked[t] => d.nconnects <= MaxConnects
PickedAll ==
  \A t \in Joins : jpc[t] \in {"update", "insert"} =>
    Cardinality(picked[t]) = Picks \/ Pickable(User(t)) = {}

\* free() treats each user once, and one after the other.
RepickApart ==
  \A s \in Sockets : fpc[s] \in {"pull", "repick", "link"} =>
    \A m, n \in work[s].repick : m.sock_id = n.sock_id => m = n
OneLink == \A s \in Sockets : fpc[s] = "link" => \E l : work[s].link = {l}

SerialInv ==
  /\ LinkInv
  /\ FailedAlone /\ PickedBelow /\ PickedAll
  /\ RepickApart /\ OneLink

LEMMA SerialInvInit == Init => SerialInv
<1> SUFFICES ASSUME Init PROVE SerialInv
  OBVIOUS
<1>1. FailedAlone /\ RepickApart /\ OneLink
  BY DEF Init, FailedAlone, RepickApart, OneLink
<1>2. PickedBelow /\ PickedAll
  BY DEF Init, PickedBelow, PickedAll, JoinSection
<1>3. QED
  BY <1>1, <1>2, LinkInvInit DEF SerialInv

(* Who is in a section finds no failed join, and nothing picked but by     *)
(* itself.                                                                 *)
LEMMA NobodyFailed ==
  ASSUME SerialInv,
         (\E t \in Joins : jpc[t] \in JoinSection) \/ (\E s \in Sockets : fpc[s] \in FreeSection)
  PROVE  \A t \in Joins : /\ jpc[t] # "failed"
                          /\ jpc[t] \notin JoinSection => picked[t] = {}
  BY DEF SerialInv, FailedAlone, LinkInv, DegreeInv, PickedSizes

LEMMA SerialQuietJoin ==
  ASSUME SerialInv, LinkInv', NEW t \in Joins, QuietJoin(t)
  PROVE  SerialInv'
<1>1. Typed /\ OneSectionAtATime
  BY DEF SerialInv, LinkInv, DegreeInv, TypeInv, RegInv
<1>2. /\ UNCHANGED <<docs, picked, fpc, work>>
      /\ \A u \in Joins : u # t => jpc'[u] = jpc[u]
      /\ jpc'[t] \in JoinSection =>
           jpc'[t] = "pick" /\ jpc[t] \notin JoinSection \cup {"failed"} /\ ~critical
      /\ critical => critical'
  BY <1>1, QuietJoinMoves
<1>3. FailedAlone'
  <2> SUFFICES ASSUME NEW v \in Joins, jpc'[v] = "failed"
               PROVE  /\ critical'
                      /\ \A u \in Joins : jpc'[u] \notin JoinSection
                      /\ \A s \in Sockets : fpc'[s] \notin FreeSection
    BY DEF FailedAlone
  <2>1. CASE jpc[v] = "failed"
    <3>1. critical /\ (\A u \in Joins : jpc[u] \notin JoinSection)
          /\ \A s \in Sockets : fpc[s] \notin FreeSection
      BY <2>1 DEF SerialInv, FailedAlone
    <3>2. jpc'[t] \notin JoinSection
      BY <1>2, <3>1
    <3>3. QED
      BY <1>2, <3>1, <3>2
  <2>2. CASE jpc[v] # "failed"
    <3>1. v = t
      BY <1>2, <2>2
    <3>2. jpc[t] \in JoinSection
      <4>1. jpc[t] # "failed" /\ jpc'[t] = "failed"
        BY <2>2, <3>1
      <4>2. ~JoinRequest(t) /\ ~Indexed(t) /\ ~BroadcastInRoom(t)
        BY <1>1, <4>1 DEF JoinRequest, Indexed, EnterRoom, BroadcastInRoom, Typed
      <4>3. QED
        BY <4>2 DEF QuietJoin, JoinDbError
    <3>3. critical /\ (\A u \in Joins : jpc[u] \in JoinSection => u = t)
          /\ \A s \in Sockets : fpc[s] \notin FreeSection
      BY <1>1, <3>2, JoinAlone
    <3>4. QED
      BY <1>2, <3>1, <3>3 DEF JoinSection
  <2>3. QED
    BY <2>1, <2>2
<1>4. RepickApart' /\ OneLink'
  BY <1>2 DEF SerialInv, RepickApart, OneLink
<1>5. jpc'[t] \in JoinSection => picked[t] = {}
  BY <1>2 DEF SerialInv, LinkInv, DegreeInv, PickedSizes
<1>6. PickedBelow'
  BY <1>2, <1>5 DEF SerialInv, PickedBelow
<1>7. jpc'[t] \notin {"update", "insert"}
  BY <1>2 DEF JoinSection
<1>8. PickedAll'
  BY <1>2, <1>7 DEF SerialInv, PickedAll, Pickable, User
<1>9. QED
  BY <1>3, <1>4, <1>6, <1>8 DEF SerialInv

LEMMA SerialQuietFree ==
  ASSUME SerialInv, LinkInv', NEW s \in Sockets, QuietFree(s)
  PROVE  SerialInv'
<1>1. Typed /\ OneSectionAtATime
  BY DEF SerialInv, LinkInv, DegreeInv, TypeInv, RegInv
<1>2. /\ UNCHANGED <<docs, picked, jpc, work>>
      /\ \A r \in Sockets : r # s => fpc'[r] = fpc[r]
      /\ fpc'[s] \in FreeSection =>
           fpc'[s] = fpc[s] \/ (fpc'[s] = "delete" /\ ~critical)
      /\ critical => critical'
  BY <1>1, QuietFreeMoves
<1>3. FailedAlone'
  BY <1>2 DEF SerialInv, FailedAlone
<1>4. fpc'[s] \in {"pull", "repick", "link"} => fpc'[s] = fpc[s]
  BY <1>2 DEF FreeSection
<1>5. RepickApart'
  BY <1>2, <1>4 DEF SerialInv, RepickApart
<1>6. OneLink'
  BY <1>2, <1>4 DEF SerialInv, OneLink
<1>7. PickedBelow'
  BY <1>2 DEF SerialInv, PickedBelow
<1>8. PickedAll'
  BY <1>2 DEF SerialInv, PickedAll, Pickable, User
<1>9. QED
  BY <1>3, <1>5, <1>6, <1>7, <1>8 DEF SerialInv

LEMMA SerialPick ==
  ASSUME SerialInv, LinkInv', NEW t \in Joins, Pick(t)
  PROVE  SerialInv'
<1>1. Typed /\ OneSectionAtATime /\ DataTyped /\ DegreeInv
  BY DEF SerialInv, LinkInv, DegreeInv, TypeInv, RegInv
<1>2. /\ \A u \in Joins : u # t => jpc'[u] = jpc[u]
      /\ jpc[t] = "pick" /\ jpc'[t] \in {"pick", "update"}
      /\ UNCHANGED <<critical, fpc, work>>
  BY <1>1, PickMoves
<1>3. /\ jpc[t] \in JoinSection /\ critical
      /\ \A u \in Joins : jpc[u] \in JoinSection => u = t
      /\ \A s \in Sockets : fpc[s] \notin FreeSection
  BY <1>1, <1>2, JoinAlone DEF JoinSection
<1>4. FailedAlone'
  BY <1>2, <1>3, NobodyFailed DEF FailedAlone
<1>5. RepickApart' /\ OneLink'
  BY <1>2 DEF SerialInv, RepickApart, OneLink
<1>6. \A u \in Joins : jpc'[u] \in JoinSection => u = t
  BY <1>2, <1>3
<1>7. picked[t] \in SUBSET (Users \X Sockets) /\ picked \in [Joins -> SUBSET (Users \X Sockets)]
  BY <1>1 DEF DataTyped
<1>8. IsFiniteSet(picked[t]) /\ Cardinality(picked[t]) \in Nat
  BY <1>7, PickedFinite
<1>9. CASE Pickable(User(t)) = {}
  <2>1. UNCHANGED <<docs, picked>>
    BY <1>9 DEF Pick
  <2>2. PickedBelow'
    BY <1>3, <1>6, <2>1 DEF SerialInv, PickedBelow
  <2>3. PickedAll'
    BY <1>6, <1>9, <2>1 DEF PickedAll, Pickable, User, JoinSection
  <2>4. QED
    BY <1>4, <1>5, <2>2, <2>3 DEF SerialInv
<1>10. CASE Pickable(User(t)) # {}
  <2>1. PICK cl \in Pickable(User(t)) :
          /\ docs' = (docs \ {cl}) \cup {Pushed(cl, {User(t)})}
          /\ picked' = [picked EXCEPT ![t] = @ \cup {<<cl.sock_id, cl.addr>>}]
          /\ jpc' = [jpc EXCEPT ![t] = IF Cardinality(picked[t]) + 1 < Picks
                                       THEN "pick" ELSE "update"]
    BY <1>10 DEF Pick
  <2>2. /\ cl \in docs /\ cl.nconnects < MaxConnects
        /\ cl.connects[User(t)] = 0 /\ cl.sock_id # User(t)
    BY DEF Pickable
  <2>3. cl \in Documents /\ User(t) \in Users
    BY <1>1, <2>2, JoinType DEF DataTyped
  <2>4. picked'[t] = picked[t] \cup {<<cl.sock_id, cl.addr>>}
    BY <1>7, <2>1
  <2>5. \A e \in docs : e.sock_id = cl.sock_id => e = cl
    BY <2>2 DEF SerialInv, LinkInv, DegreeInv, TypeInv, RegInv, OneDocPerUser
  <2>6. Pushed(cl, {User(t)}).nconnects = cl.nconnects + 1
    <3>1. Cardinality({User(t)}) = 1
      BY FS_Singleton
    <3>2. QED
      BY <3>1 DEF Pushed, Relinked
  <2>7. PickedBelow'
    <3> SUFFICES ASSUME NEW d \in docs', <<d.sock_id, d.addr>> \in picked'[t]
                 PROVE  d.nconnects <= MaxConnects
      BY <1>6 DEF PickedBelow
    <3>1. CASE d = Pushed(cl, {User(t)})
      BY <2>2, <2>3, <2>6, <3>1, BoundAssumption DEF Documents
    <3>2. CASE d # Pushed(cl, {User(t)})
      <4>1. d \in docs /\ d # cl
        BY <2>1, <3>2
      <4>2. d.sock_id # cl.sock_id
        BY <2>5, <4>1
      <4>3. <<d.sock_id, d.addr>> \in picked[t]
        BY <2>4, <4>2
      <4>4. QED
        BY <1>3, <4>1, <4>3 DEF SerialInv, PickedBelow
    <3>3. QED
      BY <3>1, <3>2
  <2>8. <<cl.sock_id, cl.addr>> \notin picked[t]
    <3>1. SUFFICES ASSUME <<cl.sock_id, cl.addr>> \in picked[t] PROVE FALSE
      OBVIOUS
    <3>2. PICK d \in docs : d.sock_id = cl.sock_id /\ d.connects[User(t)] = 1
      BY <1>1, <1>3, <3>1 DEF DegreeInv, PickedHold, PickedDoc
    <3>3. QED
      BY <2>2, <2>5, <3>2
  <2>9. Cardinality(picked'[t]) = Cardinality(picked[t]) + 1
    BY <1>8, <2>4, <2>8, FS_AddElement
  <2>10. Cardinality(picked'[t]) <= Picks
    BY <1>2 DEF LinkInv, DegreeInv, PickedSizes, JoinSection
  <2>11. jpc'[t] = "update" => ~(Cardinality(picked[t]) + 1 < Picks)
    BY <1>1, <2>1 DEF Typed
  <2>12. jpc'[t] = "update" => Cardinality(picked'[t]) = Picks
    BY <1>8, <2>9, <2>10, <2>11, BoundAssumption
  <2>13. PickedAll'
    BY <1>2, <1>6, <2>12 DEF PickedAll, JoinSection
  <2>14. QED
    BY <1>4, <1>5, <2>7, <2>13 DEF SerialInv
<1>11. QED
  BY <1>9, <1>10

LEMMA SerialUpdate ==
  ASSUME SerialInv, LinkInv', NEW t \in Joins, UpdateOwn(t) \/ InsertOwn(t)
  PROVE  SerialInv'
<1>1. Typed /\ OneSectionAtATime
  BY DEF SerialInv, LinkInv, DegreeInv, TypeInv, RegInv
<1>2. /\ \A u \in Joins : u # t => jpc'[u] = jpc[u]
      /\ jpc[t] \in {"update", "insert"} /\ jpc'[t] \in {"insert", "done"}
      /\ UNCHANGED <<fpc, work>>
      /\ jpc'[t] = "insert" => jpc[t] = "update" /\ UNCHANGED <<docs, picked>>
  BY <1>1, UpdateMoves, InsertMoves
<1>3. /\ jpc[t] \in JoinSection
      /\ \A u \in Joins : jpc[u] \in JoinSection => u = t
  BY <1>1, <1>2, JoinAlone DEF JoinSection
<1>4. FailedAlone'
  BY <1>2, <1>3, NobodyFailed DEF FailedAlone
<1>5. RepickApart' /\ OneLink'
  BY <1>2 DEF SerialInv, RepickApart, OneLink
<1>6. \A u \in Joins : jpc'[u] \in JoinSection => u = t /\ jpc'[t] = "insert"
  BY <1>2, <1>3 DEF JoinSection
<1>7. PickedBelow'
  BY <1>2, <1>3, <1>6 DEF SerialInv, PickedBelow
<1>8. PickedAll'
  BY <1>2, <1>6 DEF SerialInv, PickedAll, Pickable, User, JoinSection
<1>9. QED
  BY <1>4, <1>5, <1>7, <1>8 DEF SerialInv

LEMMA SerialFreeWork ==
  ASSUME SerialInv, LinkInv', NEW s \in Sockets,
         FreeDelete(s) \/ FreeAggregate(s) \/ FreePull(s) \/ FreeRepick(s) \/ FreeLink(s)
  PROVE  SerialInv'
<1>1. Typed /\ OneSectionAtATime /\ DataTyped /\ OneDocPerUser
  BY DEF SerialInv, LinkInv, DegreeInv, TypeInv, RegInv
<1>2. /\ UNCHANGED <<jpc, picked>>
      /\ fpc[s] \in FreeSection
      /\ \A r \in Sockets : r # s => fpc'[r] = fpc[r]
  BY <1>1, FreeWorkMoves
<1>3. /\ \A r \in Sockets : fpc[r] \in FreeSection => r = s
      /\ \A t \in Joins : jpc[t] \notin JoinSection
  BY <1>1, <1>2, FreeAlone
<1>4. FailedAlone'
  BY <1>2, NobodyFailed DEF FailedAlone
<1>5. PickedBelow' /\ PickedAll'
  BY <1>2, <1>3 DEF PickedBelow, PickedAll, JoinSection
<1>6. \A r \in Sockets : fpc'[r] \in {"pull", "repick", "link"} => r = s
  BY <1>2, <1>3 DEF FreeSection
<1>7. work \in [Sockets -> Works]
  BY <1>1 DEF DataTyped
<1>8. /\ fpc'[s] \in {"pull", "repick", "link"} =>
           \A m, n \in work'[s].repick : m.sock_id = n.sock_id => m = n
      /\ fpc'[s] = "link" => \E l : work'[s].link = {l}
  <2>1. CASE FreeDelete(s)
    BY <1>1, <2>1 DEF FreeDelete, Typed
  <2>2. CASE FreeAggregate(s)
    <3>1. \A m, n \in Linked(s) : m.sock_id = n.sock_id => m = n
      <4>1. ASSUME NEW d \in docs, NEW e \in docs, d.sock_id = e.sock_id
            PROVE  d = e
        BY <1>1, <4>1 DEF OneDocPerUser
      <4>2. QED
        BY <4>1 DEF Linked
    <3>2. fpc'[s] \in {"done", "pull"}
      BY <1>1, <2>2 DEF FreeAggregate, FinishFree, Typed
    <3>3. fpc'[s] = "pull" => work'[s].repick = Linked(s)
      BY <1>1, <1>7, <2>2 DEF FreeAggregate, FinishFree, Typed, Works
    <3>4. QED
      BY <3>1, <3>2, <3>3
  <2>3. CASE FreePull(s)
    <3>1. fpc[s] = "pull" /\ work'[s].repick = work[s].repick /\ fpc'[s] # "link"
      BY <1>1, <1>7, <2>3 DEF FreePull, Typed, Works
    <3>2. QED
      BY <3>1 DEF SerialInv, RepickApart
  <2>4. CASE FreeRepick(s)
    <3>1. PICK m \in work[s].repick : RepickNone(s, m) \/ RepickOne(s, m)
      BY <2>4 DEF FreeRepick
    <3>2. fpc[s] = "repick" /\ work'[s].repick \in SUBSET work[s].repick
      BY <1>7, <2>4, <3>1 DEF FreeRepick, RepickNone, RepickOne, Works
    <3>3. fpc'[s] = "link" => \E l : work'[s].link = {l}
      <4>1. CASE RepickNone(s, m)
        BY <1>1, <4>1 DEF RepickNone, NextRepick, FinishFree, Typed
      <4>2. CASE RepickOne(s, m)
        <5>1. PICK cl \in Pickable(m.sock_id) :
                work' = [work EXCEPT ![s].link = {[of |-> m, to |-> cl.addr,
                                                   user |-> cl.sock_id]}]
          BY <4>2 DEF RepickOne
        <5>2. work'[s].link = {[of |-> m, to |-> cl.addr, user |-> cl.sock_id]}
          BY <1>7, <5>1 DEF Works
        <5>3. QED
          BY <5>2
      <4>3. QED
        BY <3>1, <4>1, <4>2
    <3>4. QED
      BY <3>2, <3>3 DEF SerialInv, RepickApart
  <2>5. CASE FreeLink(s)
    <3>1. fpc[s] = "link" /\ work'[s].repick \in SUBSET work[s].repick /\ fpc'[s] # "link"
      <4>1. PICK l \in work[s].link :
              /\ work' = [work EXCEPT ![s].link = {}, ![s].repick = @ \ {l.of}]
              /\ NextRepick(s, work[s].repick \ {l.of})
        BY <2>5 DEF FreeLink
      <4>2. work'[s].repick = work[s].repick \ {l.of}
        BY <1>7, <4>1 DEF Works
      <4>3. QED
        BY <1>1, <2>5, <4>1, <4>2 DEF FreeLink, NextRepick, FinishFree, Typed
    <3>2. QED
      BY <3>1 DEF SerialInv, RepickApart
  <2>6. QED
    BY <2>1, <2>2, <2>3, <2>4, <2>5
<1>9. RepickApart' /\ OneLink'
  BY <1>6, <1>8 DEF RepickApart, OneLink
<1>10. QED
  BY <1>4, <1>5, <1>9 DEF SerialInv

LEMMA SerialInvStep == SerialInv /\ [Next]_vars => SerialInv'
<1> SUFFICES ASSUME SerialInv, [Next]_vars PROVE SerialInv'
  OBVIOUS
<1>1. LinkInv'
  BY LinkInvStep DEF SerialInv
<1>2. CASE UNCHANGED vars
  BY <1>1, <1>2 DEF vars, joinVars, freeVars, SerialInv, FailedAlone, PickedBelow, PickedAll,
                    Pickable, User, RepickApart, OneLink
<1>3. ASSUME NEW s \in Sockets, SocketStep(s) \/ FreeStep(s) \/ FreeDbError(s)
      PROVE  SerialInv'
  BY <1>1, <1>3, SerialQuietFree, SerialFreeWork DEF FreeStep, QuietFree
<1>4. ASSUME NEW t \in Joins, JoinRequest(t) \/ JoinStep(t) \/ JoinDbError(t)
      PROVE  SerialInv'
  BY <1>1, <1>4, SerialQuietJoin, SerialPick, SerialUpdate DEF JoinStep, QuietJoin
<1>5. QED
  BY <1>2, <1>3, <1>4 DEF Next

(* Different documents show as different members.                          *)
LEMMA SettledApart ==
  ASSUME OneDocPerUser, NEW d \in docs, NEW e \in docs, Settled(d) = Settled(e)
  PROVE  d = e
<1>1. Settled(d).sock_id = d.sock_id /\ Settled(e).sock_id = e.sock_id
  BY DEF Settled
<1>2. QED
  BY <1>1 DEF OneDocPerUser

(* A document that changes only where it does not show.                    *)
LEMMA SettledSame ==
  ASSUME NEW d, NEW e, e.addr = d.addr, e.sock_id = d.sock_id,
         \A u \in Users : Shown(e, u)' = Shown(d, u)
  PROVE  Settled(e)' = Settled(d)
<1>1. [u \in Users |-> Shown(e, u)'] = [u \in Users |-> Shown(d, u)]
  OBVIOUS
<1>2. QED
  BY <1>1 DEF Settled

LEMMA RosterSame ==
  ASSUME \A d \in docs : \E e \in docs' : Settled(e)' = Settled(d),
         \A e \in docs' : \E d \in docs : Settled(e)' = Settled(d)
  PROVE  Roster' = Roster
  BY DEF Roster

LEMMA RosterUnchanged ==
  ASSUME UNCHANGED <<docs, picked>>
  PROVE  Roster' = Roster
<1>1. \A d, u : Shown(d, u)' = Shown(d, u)
  BY DEF Shown, HasMember, PickedBy, User
<1>2. \A d \in docs : Settled(d)' = Settled(d)
  BY <1>1, SettledSame
<1>3. QED
  BY <1>2, RosterSame

(* What is owed while free() of s is in its section, and otherwise.        *)
LEMMA OwedUnchanged ==
  ASSUME UNCHANGED <<docs, work, fpc>>
  PROVE  OwedUsers' = OwedUsers
  BY DEF OwedUsers, OwedBy, Linked

LEMMA OwedNothing ==
  ASSUME NEW s \in Sockets
  PROVE  /\ fpc[s] \notin FreeSection \ {"delete"} => OwedBy(s) = {}
         /\ fpc'[s] \notin FreeSection \ {"delete"} => OwedBy(s)' = {}
  BY DEF OwedBy, FreeSection

LEMMA OwedInside ==
  ASSUME OneSectionAtATime, NEW s \in Sockets, fpc[s] \in FreeSection,
         \A r \in Sockets : r # s => fpc'[r] = fpc[r]
  PROVE  /\ OwedUsers = {m.sock_id : m \in OwedBy(s)}
         /\ OwedUsers' = {m.sock_id : m \in OwedBy(s)'}
<1>1. \A r \in Sockets : r # s => fpc[r] \notin FreeSection
  BY FreeAlone
<1>2. \A r \in Sockets : r # s => OwedBy(r) = {} /\ OwedBy(r)' = {}
  BY <1>1, OwedNothing
<1>3. QED
  BY <1>2 DEF OwedUsers

LEMMA OwedOutside ==
  ASSUME \A s \in Sockets : fpc[s] \notin FreeSection
  PROVE  OwedUsers = {}
  BY OwedNothing DEF OwedUsers

(* While a join is in its section the room shows everything but its links. *)
LEMMA ShownInJoin ==
  ASSUME SerialInv, NEW t \in Joins, jpc[t] \in JoinSection
  PROVE  \A d \in docs, u \in Users :
           Shown(d, u) = IF u = User(t) /\ <<d.sock_id, d.addr>> \in picked[t]
                         THEN 0 ELSE d.connects[u]
<1> SUFFICES ASSUME NEW d \in docs, NEW u \in Users
             PROVE  Shown(d, u) = IF u = User(t) /\ <<d.sock_id, d.addr>> \in picked[t]
                                  THEN 0 ELSE d.connects[u]
  OBVIOUS
<1>1. LinkInv /\ DegreeInv /\ OneSectionAtATime
  BY DEF SerialInv, LinkInv, DegreeInv, TypeInv, RegInv
<1>2. \A v \in Joins : v # t => picked[v] = {}
  BY <1>1, JoinAlone, NobodyFailed
<1>3. PickedBy(d, u) <=> u = User(t) /\ <<d.sock_id, d.addr>> \in picked[t]
  BY <1>2 DEF PickedBy
<1>4. d.connects[u] > 0 =>
        HasMember(u) \/ (u = User(t) /\ <<d.sock_id, d.addr>> \in picked[t])
  BY <1>1, JoinLinks
<1>5. d.connects[u] \in Nat
  BY <1>1, Counts
<1>6. QED
  BY <1>3, <1>4, <1>5 DEF Shown

(* The same while free() works: everything but the links to the user that  *)
(* left.                                                                   *)
LEMMA ShownInFree ==
  ASSUME SerialInv, NEW s \in Sockets, fpc[s] \in FreeSection
  PROVE  \A d \in docs, u \in Users :
           Shown(d, u) = IF HasMember(u) \/ u # UserOf[s] \/ ~ToBePulled(d, s)
                         THEN d.connects[u] ELSE 0
<1> SUFFICES ASSUME NEW d \in docs, NEW u \in Users
             PROVE  Shown(d, u) = IF HasMember(u) \/ u # UserOf[s] \/ ~ToBePulled(d, s)
                                  THEN d.connects[u] ELSE 0
  OBVIOUS
<1>1. LinkInv /\ DegreeInv /\ OneSectionAtATime
  BY DEF SerialInv, LinkInv, DegreeInv, TypeInv, RegInv
<1>2. \A t \in Joins : picked[t] = {}
  BY <1>1, FreeAlone, NobodyFailed
<1>3. ~PickedBy(d, u)
  BY <1>2 DEF PickedBy
<1>4. d.connects[u] > 0 => HasMember(u) \/ (u = UserOf[s] /\ ToBePulled(d, s))
  BY <1>1, FreeWorkLinks
<1>5. d.connects[u] \in Nat
  BY <1>1, Counts
<1>6. QED
  BY <1>3, <1>4, <1>5 DEF Shown

(* A join that ended shows all there is.                                   *)
LEMMA ShownAfterJoin ==
  ASSUME SerialInv, SerialInv', NEW t \in Joins, jpc[t] \in JoinSection,
         jpc'[t] = "done", FinishJoin(t), fpc' = fpc,
         \A u \in Joins : u # t => jpc'[u] = jpc[u]
  PROVE  \A e \in docs', u \in Users : Shown(e, u)' = e.connects[u]
<1> SUFFICES ASSUME NEW e \in docs', NEW u \in Users
             PROVE  Shown(e, u)' = e.connects[u]
  OBVIOUS
<1>1. OneSectionAtATime /\ picked \in [Joins -> SUBSET (Users \X Sockets)]
  BY DEF SerialInv, LinkInv, DegreeInv, TypeInv, RegInv, DataTyped
<1>2. /\ \A v \in Joins : jpc'[v] \notin JoinSection
      /\ \A s \in Sockets : fpc'[s] \notin FreeSection
  BY <1>1, JoinAlone DEF JoinSection
<1>3. \A v \in Joins : picked'[v] = {}
  BY <1>1, JoinAlone, NobodyFailed DEF FinishJoin
<1>4. ~PickedBy(e, u)'
  BY <1>3 DEF PickedBy
<1>5. Live'
  BY DEF Live, FinishJoin
<1>6. \A d \in docs', v \in Joins : ~PickedFor(d, v)'
  BY <1>2 DEF PickedFor
<1>7. \A d \in docs', s \in Sockets : ~ToBePulled(d, s)'
  BY <1>2 DEF ToBePulled, FreeSection
<1>8. e.connects[u] > 0 => HasMember(u)'
  BY <1>5, <1>6, <1>7 DEF SerialInv, LinkInv, MemberLinks, NoDangling
<1>9. e.connects[u] \in Nat
  BY DEF SerialInv, LinkInv, DegreeInv, TypeInv, DataTyped, Documents, Links
<1>10. QED
  BY <1>4, <1>8, <1>9 DEF Shown

LEMMA ShowQuietJoin ==
  ASSUME SerialInv, NEW t \in Joins, QuietJoin(t)
  PROVE  UNCHANGED <<Roster, OwedUsers>>
<1>1. UNCHANGED <<docs, picked, fpc, work>>
  BY QuietJoinMoves DEF SerialInv, LinkInv, DegreeInv, TypeInv, RegInv
<1>2. QED
  BY <1>1, RosterUnchanged, OwedUnchanged

(* A call that is rejected gives up what is owed.                          *)
LEMMA ShowQuietFree ==
  ASSUME SerialInv, NEW s \in Sockets, QuietFree(s)
  PROVE  Room!Abandon \/ UNCHANGED <<Roster, OwedUsers>>
<1>1. Typed /\ OneSectionAtATime
  BY DEF SerialInv, LinkInv, DegreeInv, TypeInv, RegInv
<1>2. /\ UNCHANGED <<docs, picked, work>>
      /\ \A r \in Sockets : r # s => fpc'[r] = fpc[r]
      /\ fpc'[s] \in FreeSection =>
           fpc'[s] = fpc[s] \/ (fpc'[s] = "delete" /\ ~critical)
  BY <1>1, QuietFreeMoves
<1>3. Roster' = Roster
  BY <1>2, RosterUnchanged
<1>4. CASE fpc'[s] = fpc[s]
  <2>1. \A r \in Sockets : OwedBy(r)' = OwedBy(r)
    BY <1>2, <1>4 DEF OwedBy, Linked
  <2>2. QED
    BY <1>3, <2>1 DEF OwedUsers
<1>5. CASE fpc'[s] # fpc[s]
  <2>1. fpc'[s] \notin FreeSection \ {"delete"}
    BY <1>2, <1>5
  <2>2. OwedBy(s)' = {}
    BY <2>1, OwedNothing
  <2>3. CASE fpc[s] \in FreeSection
    <3>1. OwedUsers' = {}
      BY <1>1, <1>2, <2>2, <2>3, OwedInside
    <3>2. QED
      BY <1>3, <3>1 DEF Room!Abandon
  <2>4. CASE fpc[s] \notin FreeSection
    <3>1. OwedBy(s) = {}
      BY <2>4, OwedNothing
    <3>2. \A r \in Sockets : r # s => OwedBy(r)' = OwedBy(r)
      BY <1>2 DEF OwedBy, Linked
    <3>3. \A r \in Sockets : OwedBy(r)' = OwedBy(r)
      BY <2>2, <3>1, <3>2
    <3>4. QED
      BY <1>3, <3>3 DEF OwedUsers
  <2>5. QED
    BY <2>3, <2>4
<1>6. QED
  BY <1>4, <1>5

(* Picking a member does not show yet.                                     *)
LEMMA ShowPick ==
  ASSUME SerialInv, SerialInv', NEW t \in Joins, Pick(t)
  PROVE  UNCHANGED <<Roster, OwedUsers>>
<1>1. Typed /\ OneSectionAtATime /\ DataTyped /\ OneDocPerUser
  BY DEF SerialInv, LinkInv, DegreeInv, TypeInv, RegInv
<1>2. /\ \A u \in Joins : u # t => jpc'[u] = jpc[u]
      /\ jpc[t] = "pick" /\ jpc'[t] \in JoinSection
      /\ UNCHANGED <<fpc, work>>
  BY <1>1, PickMoves DEF JoinSection
<1>3. jpc[t] \in JoinSection /\ \A s \in Sockets : fpc[s] \notin FreeSection
  BY <1>1, <1>2, JoinAlone DEF JoinSection
<1>4. OwedUsers' = OwedUsers
  <2>1. \A s \in Sockets : OwedBy(s) = {} /\ OwedBy(s)' = {}
    BY <1>2, <1>3, OwedNothing
  <2>2. QED
    BY <2>1 DEF OwedUsers
<1>5. CASE UNCHANGED <<docs, picked>>
  BY <1>4, <1>5, RosterUnchanged
<1>6. ASSUME NEW cl \in Pickable(User(t)),
             docs' = (docs \ {cl}) \cup {Pushed(cl, {User(t)})},
             picked' = [picked EXCEPT ![t] = @ \cup {<<cl.sock_id, cl.addr>>}]
      PROVE  Roster' = Roster
  <2> DEFINE new == Pushed(cl, {User(t)})
  <2>1. cl \in docs /\ cl.connects[User(t)] = 0 /\ cl.sock_id # User(t)
    BY DEF Pickable
  <2>2. cl \in Documents /\ User(t) \in Users /\ {User(t)} \in SUBSET Users
    BY <1>1, <2>1, JoinType DEF DataTyped
  <2>3. /\ new.addr = cl.addr /\ new.sock_id = cl.sock_id
        /\ \A u \in Users : u # User(t) => new.connects[u] = cl.connects[u]
    BY <2>2 DEF Pushed, Relinked, Link
  <2>4. /\ picked'[t] = picked[t] \cup {<<cl.sock_id, cl.addr>>}
        /\ \A v \in Joins : v # t => picked'[v] = picked[v]
    BY <1>1, <1>6 DEF DataTyped
  <2>5. \A u : HasMember(u)' <=> HasMember(u)
    BY <1>6, <2>1, <2>3 DEF HasMember
  <2>6. \A e \in docs \ {cl} : e.sock_id # cl.sock_id
    BY <1>1, <2>1 DEF OneDocPerUser
  <2>7. ASSUME NEW e \in docs \ {cl}
        PROVE  Settled(e)' = Settled(e)
    <3>1. \A v \in Joins : <<e.sock_id, e.addr>> \in picked'[v]
                             <=> <<e.sock_id, e.addr>> \in picked[v]
      BY <2>4, <2>6
    <3>2. \A u \in Users : PickedBy(e, u)' <=> PickedBy(e, u)
      BY <3>1 DEF PickedBy, User
    <3>3. QED
      BY <2>5, <3>2, SettledSame DEF Shown
  <2>8. Settled(new)' = Settled(cl)
    <3>1. \A v \in Joins : v # t => (<<new.sock_id, new.addr>> \in picked'[v]
                                       <=> <<cl.sock_id, cl.addr>> \in picked[v])
      BY <2>3, <2>4
    <3>2. \A u \in Users : u # User(t) => (PickedBy(new, u)' <=> PickedBy(cl, u))
      BY <3>1 DEF PickedBy, User
    <3>3. PickedBy(new, User(t))'
      BY <2>3, <2>4 DEF PickedBy, User
    <3>4. \A u \in Users : Shown(new, u)' = Shown(cl, u)
      <4>1. Shown(new, User(t))' = 0 /\ Shown(cl, User(t)) = 0
        BY <2>1, <3>3 DEF Shown, User
      <4>2. \A u \in Users : u # User(t) => Shown(new, u)' = Shown(cl, u)
        BY <2>3, <2>5, <3>2 DEF Shown
      <4>3. QED
        BY <4>1, <4>2
    <3>5. QED
      BY <2>3, <3>4, SettledSame
  <2>9. QED
    BY <1>6, <2>1, <2>7, <2>8, RosterSame
<1>7. QED
  BY <1>4, <1>1, <1>5, <1>6, PickMoves

(* The document a join extends or inserts, and the member it shows as.     *)
LEMMA JoinedDoc ==
  ASSUME SerialInv, NEW t \in Joins, UpdateOwn(t) \/ InsertOwn(t), jpc'[t] = "done"
  PROVE  \E base, new :
           /\ Room!Own(t[1]) = {base}
           /\ base.sock_id = User(t)
           /\ base = [addr |-> base.addr, sock_id |-> User(t), connects |-> base.connects]
           /\ base.connects \in Links
           /\ new.addr = base.addr /\ new.sock_id = User(t)
           /\ new.connects = Link(base.connects, PickedUsers(t))
           /\ docs' = {d \in docs : d.sock_id # User(t)} \cup {new}
           /\ Roster \ {base} = {Settled(d) : d \in {e \in docs : e.sock_id # User(t)}}
<1>1. Typed /\ DataTyped /\ DocsTyped /\ OneDocPerUser /\ InsertIsNew
  BY DEF SerialInv, LinkInv, DegreeInv, TypeInv, RegInv
<1>2. t[1] \in Sockets /\ User(t) \in Users /\ UserOf[t[1]] = User(t)
  BY JoinType DEF User
<1>3. \A d \in docs : Settled(d).sock_id = d.sock_id
  BY DEF Settled
<1>4. CASE UpdateOwn(t)
  <2>1. jpc[t] = "update"
    BY <1>4 DEF UpdateOwn
  <2>2. PICK d \in docs : /\ d.sock_id = User(t)
                          /\ docs' = (docs \ {d}) \cup {Pushed(d, PickedUsers(t))}
    BY <1>1, <1>4, UpdateMoves
  <2>3. \A e \in docs : e.sock_id = User(t) => e = d
    BY <1>1, <2>2 DEF OneDocPerUser
  <2>4. jpc[t] \in JoinSection
    BY <2>1 DEF JoinSection
  <2>5. <<d.sock_id, d.addr>> \notin picked[t]
    BY <2>2, <2>4 DEF SerialInv, LinkInv, DegreeInv, PickedHold
  <2>6. \A u \in Users : Shown(d, u) = d.connects[u]
    BY <2>4, <2>5, ShownInJoin
  <2>7. d \in Documents
    BY <1>1 DEF DataTyped
  <2>8. Settled(d) = [addr |-> d.addr, sock_id |-> User(t), connects |-> d.connects]
    <3>1. [u \in Users |-> Shown(d, u)] = d.connects
      BY <2>6, <2>7 DEF Documents, Links
    <3>2. QED
      BY <2>2, <3>1 DEF Settled
  <2>9. {m \in Roster : m.sock_id = User(t)} = {Settled(d)}
    BY <1>3, <2>2, <2>3 DEF Roster
  <2>10. Room!Own(t[1]) = {Settled(d)}
    BY <1>2, <2>9 DEF Room!Own
  <2>11. docs' = {e \in docs : e.sock_id # User(t)} \cup {Pushed(d, PickedUsers(t))}
    BY <2>2, <2>3
  <2>12. Roster \ {Settled(d)} = {Settled(e) : e \in {f \in docs : f.sock_id # User(t)}}
    BY <1>3, <2>2, <2>3 DEF Roster
  <2>13. /\ Pushed(d, PickedUsers(t)).addr = d.addr
         /\ Pushed(d, PickedUsers(t)).sock_id = User(t)
         /\ Pushed(d, PickedUsers(t)).connects = Link(d.connects, PickedUsers(t))
    BY <2>2 DEF Pushed, Relinked
  <2>14. d.connects \in Links
    BY <2>7 DEF Documents
  <2> DEFINE base == Settled(d)
             new == Pushed(d, PickedUsers(t))
  <2>15. base.addr = d.addr /\ base.sock_id = User(t) /\ base.connects = d.connects
    BY <2>8
  <2> HIDE DEF base, new
  <2>16. base = [addr |-> base.addr, sock_id |-> User(t), connects |-> base.connects]
    BY <2>8, <2>15 DEF base
  <2>17. QED
    BY <2>10, <2>11, <2>12, <2>13, <2>14, <2>15, <2>16 DEF base, new
<1>5. CASE InsertOwn(t)
  <2>1. jpc[t] = "insert" /\ docs' = docs \cup {NewDoc(t)}
    BY <1>5 DEF InsertOwn
  <2>2. \A d \in docs : d.sock_id # User(t)
    BY <1>1, <2>1 DEF InsertIsNew
  <2> DEFINE base == [addr |-> t[1], sock_id |-> User(t), connects |-> NoLinks]
             new == NewDoc(t)
  <2>3. {m \in Roster : m.sock_id = User(t)} = {}
    BY <1>3, <2>2 DEF Roster
  <2>4. Room!Own(t[1]) = {base}
    BY <1>2, <2>3 DEF Room!Own, NoLinks
  <2>5. NoLinks \in Links
    BY DEF NoLinks, Links
  <2>6. docs' = {e \in docs : e.sock_id # User(t)} \cup {new}
    BY <2>1, <2>2
  <2>7. Roster \ {base} = {Settled(e) : e \in {f \in docs : f.sock_id # User(t)}}
    <3>1. base.sock_id = User(t)
      OBVIOUS
    <3>2. base \notin Roster
      BY <2>3, <3>1
    <3>3. {f \in docs : f.sock_id # User(t)} = docs
      BY <2>2
    <3>4. QED
      BY <3>2, <3>3 DEF Roster
  <2>8. /\ new.addr = base.addr /\ new.sock_id = User(t)
        /\ new.connects = Link(base.connects, PickedUsers(t))
    BY DEF NewDoc
  <2>9. base = [addr |-> base.addr, sock_id |-> User(t), connects |-> base.connects]
        /\ base.sock_id = User(t) /\ base.connects \in Links
    BY <2>5
  <2> HIDE DEF base, new
  <2>10. QED
    BY <2>4, <2>6, <2>7, <2>8, <2>9
<1>6. QED
  BY <1>4, <1>5

LEMMA RoomCardinality == ASSUME NEW S PROVE Room!Cardinality(S) = Cardinality(S)
  BY DEF Room!Cardinality, Cardinality

LEMMA RoomDegree == ASSUME NEW m PROVE Room!Degree(m) = Total(m.connects)
  BY RoomCardinality DEF Room!Degree, Total, Entries

(* Of a member picked, the room shows all but its link to the user that    *)
(* joins, so that it has a free place.                                     *)
LEMMA PickedShows ==
  ASSUME SerialInv, NEW t \in Joins, jpc[t] \in JoinSection,
         NEW d \in docs, <<d.sock_id, d.addr>> \in picked[t]
  PROVE  /\ d.sock_id # User(t) /\ d.connects[User(t)] = 1
         /\ Settled(d).connects[User(t)] = 0
         /\ Room!Degree(Settled(d)) < MaxConnects
<1> DEFINE u == User(t)
           rest == Unlink(d.connects, u)
<1>1. DegreeInv /\ OneDocPerUser /\ DataTyped /\ u \in Users
  BY JoinType DEF SerialInv, LinkInv, DegreeInv, TypeInv, RegInv
<1>2. d.sock_id # u
  BY <1>1 DEF DegreeInv, PickedHold
<1>3. PICK e \in docs : e.sock_id = d.sock_id /\ e.connects[u] = 1
  BY <1>1 DEF DegreeInv, PickedHold, PickedDoc
<1>4. e = d
  BY <1>1, <1>3 DEF OneDocPerUser
<1>5. d.connects \in Links /\ d.nconnects \in Nat
  BY <1>1 DEF DataTyped, Documents
<1>6. rest \in Links /\ (\A w \in Users : rest[w] = IF w = u THEN 0 ELSE d.connects[w])
  BY <1>5, TotalUnlink DEF Unlink, Links
<1>7. Settled(d).connects = rest
  <2>1. \A w \in Users : Shown(d, w) = rest[w]
    BY <1>6, ShownInJoin
  <2>2. [w \in Users |-> Shown(d, w)] = rest
    BY <1>6, <2>1 DEF Links
  <2>3. QED
    BY <2>2 DEF Settled
<1>8. Link(rest, {u}) = d.connects
  <2>1. \A w \in Users : Link(rest, {u})[w] = d.connects[w]
    BY <1>3, <1>4, <1>6 DEF Link
  <2>2. QED
    BY <1>5, <2>1 DEF Link, Links
<1>9. Total(d.connects) = Total(rest) + 1
  <2>1. {u} \in SUBSET Users /\ Cardinality({u}) = 1
    BY <1>1, FS_Singleton
  <2>2. Total(Link(rest, {u})) = Total(rest) + 1
    BY <1>6, <2>1, TotalLink
  <2>3. QED
    BY <1>8, <2>2
<1>10. Total(rest) \in Nat /\ d.nconnects = Total(d.connects) /\ d.nconnects <= MaxConnects
  BY <1>1, <1>6, EntriesFinite DEF DegreeInv, Degrees, Degree, SerialInv, PickedBelow
<1>11. Room!Degree(Settled(d)) = Total(rest)
  BY <1>7, RoomDegree
<1>12. Total(rest) < MaxConnects
  BY <1>9, <1>10, BoundAssumption
<1>13. QED
  BY <1>1, <1>2, <1>3, <1>4, <1>6, <1>7, <1>11, <1>12

(* Those that are not picked show all there is.                            *)
LEMMA OthersShow ==
  ASSUME SerialInv, NEW t \in Joins, jpc[t] \in JoinSection,
         NEW d \in docs, <<d.sock_id, d.addr>> \notin picked[t]
  PROVE  /\ Settled(d).connects = d.connects
         /\ Room!Degree(Settled(d)) = d.nconnects
<1>1. DegreeInv /\ DataTyped
  BY DEF SerialInv, LinkInv, DegreeInv, TypeInv
<1>2. d.connects \in Links
  BY <1>1 DEF DataTyped, Documents
<1>3. \A w \in Users : Shown(d, w) = d.connects[w]
  BY ShownInJoin
<1>4. Settled(d).connects = d.connects
  BY <1>2, <1>3 DEF Settled, Links
<1>5. d.nconnects = Total(d.connects)
  BY <1>1 DEF DegreeInv, Degrees, Degree
<1>6. QED
  BY <1>4, <1>5, RoomDegree

(* Before its last call a join has picked as many members as it may have,  *)
(* or as there are.                                                        *)
Chosen(t) == {d \in docs : <<d.sock_id, d.addr>> \in picked[t]}
Given(t) == {Settled(d) : d \in Chosen(t)}

LEMMA GivenOffered ==
  ASSUME SerialInv, NEW t \in Joins, jpc[t] \in {"update", "insert"}
  PROVE  /\ Given(t) \in SUBSET Room!Offered(User(t))
         /\ {m.sock_id : m \in Given(t)} = PickedUsers(t)
         /\ \/ Cardinality(Given(t)) = Picks
            \/ Cardinality(Given(t)) < Picks /\ Given(t) = Room!Offered(User(t))
<1> DEFINE us == PickedUsers(t)
<1>1. DegreeInv /\ OneDocPerUser /\ DataTyped /\ User(t) \in Users /\ jpc[t] \in JoinSection
  BY JoinType DEF SerialInv, LinkInv, DegreeInv, TypeInv, RegInv, JoinSection
<1>2. \A d \in docs : Settled(d).sock_id = d.sock_id
  BY DEF Settled
<1>3. Given(t) \in SUBSET Room!Offered(User(t))
  <2> SUFFICES ASSUME NEW d \in Chosen(t)
               PROVE  Settled(d) \in Room!Offered(User(t))
    BY DEF Given
  <2>1. d \in docs /\ <<d.sock_id, d.addr>> \in picked[t]
    BY DEF Chosen
  <2>2. Settled(d) \in Roster
    BY <2>1 DEF Roster
  <2>3. QED
    BY <1>1, <1>2, <2>1, <2>2, PickedShows DEF Room!Offered
<1>4. {m.sock_id : m \in Given(t)} = us
  <2>1. ASSUME NEW d \in Chosen(t)
        PROVE  Settled(d).sock_id \in us
    <3>1. Settled(d).sock_id = d.sock_id /\ <<d.sock_id, d.addr>> \in picked[t]
      BY <1>2 DEF Chosen
    <3>2. QED
      BY <3>1 DEF PickedUsers
  <2>2. ASSUME NEW p \in picked[t]
        PROVE  \E m \in Given(t) : m.sock_id = p[1]
    <3>1. p \in Users \X Sockets
      BY <1>1 DEF DataTyped
    <3>2. PICK d \in docs : d.sock_id = p[1] /\ d.addr = p[2]
      BY <1>1 DEF DegreeInv, PickedHold, PickedDoc
    <3>3. <<d.sock_id, d.addr>> = p
      BY <3>1, <3>2
    <3>4. d \in Chosen(t)
      BY <3>2, <3>3 DEF Chosen
    <3>5. QED
      BY <1>2, <3>2, <3>4 DEF Given
  <2>3. QED
    BY <2>1, <2>2 DEF Given, PickedUsers
<1>5. Cardinality(Given(t)) = Cardinality(picked[t]) /\ Cardinality(picked[t]) \in Nat
  <2> DEFINE f == [m \in Given(t) |-> m.sock_id]
  <2>1. \A m, n \in Given(t) : m.sock_id = n.sock_id => m = n
    <3>1. ASSUME NEW d \in Chosen(t), NEW e \in Chosen(t), Settled(d).sock_id = Settled(e).sock_id
          PROVE  Settled(d) = Settled(e)
      <4>1. d \in docs /\ e \in docs /\ d.sock_id = e.sock_id
        BY <1>2, <3>1 DEF Chosen
      <4>2. QED
        BY <1>1, <4>1 DEF OneDocPerUser
    <3>2. QED
      BY <3>1 DEF Given
  <2>2. f \in [Given(t) -> us] /\ \A m \in Given(t) : f[m] = m.sock_id
    BY <1>4
  <2>3. \A x \in us : \E m \in Given(t) : f[m] = x
    BY <1>4, <2>2
  <2>4. f \in Bijection(Given(t), us)
    BY <2>1, <2>2, <2>3 DEF Bijection, Injection, Surjection, IsInjective
  <2>5. IsFiniteSet(us)
    <3>1. us \in SUBSET Users
      BY <1>1, PickedCount
    <3>2. QED
      BY <3>1, FiniteAssumption, FS_Subset
  <2>6. Cardinality(Given(t)) = Cardinality(us)
    BY <2>4, <2>5, FS_Injection DEF Bijection
  <2>7. QED
    BY <1>1, <2>6, PickedCount
<1>6. Cardinality(picked[t]) <= Picks
  BY <1>1 DEF DegreeInv, PickedSizes
<1>7. CASE Cardinality(picked[t]) = Picks
  BY <1>3, <1>4, <1>5, <1>7
<1>8. CASE Cardinality(picked[t]) # Picks
  <2>1. Pickable(User(t)) = {}
    BY <1>8 DEF SerialInv, PickedAll
  <2>2. ASSUME NEW d \in docs, Settled(d) \in Room!Offered(User(t))
        PROVE  Settled(d) \in Given(t)
    <3>1. /\ Settled(d).sock_id # User(t) /\ Settled(d).connects[User(t)] = 0
          /\ Room!Degree(Settled(d)) < MaxConnects
      BY <2>2 DEF Room!Offered
    <3>2. CASE <<d.sock_id, d.addr>> \in picked[t]
      BY <3>2 DEF Given, Chosen
    <3>3. CASE <<d.sock_id, d.addr>> \notin picked[t]
      <4>1. d.connects[User(t)] = 0 /\ d.nconnects < MaxConnects
        BY <1>1, <3>1, <3>3, OthersShow
      <4>2. d \in Pickable(User(t))
        BY <1>2, <3>1, <4>1 DEF Pickable
      <4>3. QED
        BY <2>1, <4>2
    <3>4. QED
      BY <3>2, <3>3
  <2>3. Room!Offered(User(t)) \in SUBSET Given(t)
    BY <2>2 DEF Room!Offered, Roster
  <2>4. Cardinality(picked[t]) < Picks
    BY <1>5, <1>6, <1>8, BoundAssumption
  <2>5. QED
    BY <1>3, <1>4, <1>5, <2>3, <2>4
<1>9. QED
  BY <1>7, <1>8

(* The last call of a join is the join of the room.                        *)
LEMMA ShowJoin ==
  ASSUME SerialInv, SerialInv', NEW t \in Joins, UpdateOwn(t) \/ InsertOwn(t),
         jpc'[t] = "done"
  PROVE  Room!Join(t[1])
<1> DEFINE u == User(t)
           us == PickedUsers(t)
<1>1. Typed /\ OneSectionAtATime /\ DataTyped /\ DegreeInv
  BY DEF SerialInv, LinkInv, DegreeInv, TypeInv, RegInv
<1>2. /\ \A v \in Joins : v # t => jpc'[v] = jpc[v]
      /\ jpc[t] \in {"update", "insert"} /\ FinishJoin(t) /\ fpc' = fpc
  BY <1>1, UpdateMoves, InsertMoves
<1>3. jpc[t] \in JoinSection
  BY <1>2 DEF JoinSection
<1>4. OwedUsers = {} /\ OwedUsers' = {}
  <2>1. \A s \in Sockets : fpc[s] \notin FreeSection
    BY <1>1, <1>3, JoinAlone
  <2>2. \A s \in Sockets : OwedBy(s) = {} /\ OwedBy(s)' = {}
    BY <1>2, <2>1, OwedNothing
  <2>3. QED
    BY <2>2 DEF OwedUsers
<1>5. \A e \in docs', w \in Users : Shown(e, w)' = e.connects[w]
  BY <1>2, <1>3, ShownAfterJoin
<1>6. PICK base, new :
        /\ Room!Own(t[1]) = {base}
        /\ base.sock_id = u
        /\ base = [addr |-> base.addr, sock_id |-> u, connects |-> base.connects]
        /\ base.connects \in Links
        /\ new.addr = base.addr /\ new.sock_id = u
        /\ new.connects = Link(base.connects, us)
        /\ docs' = {d \in docs : d.sock_id # u} \cup {new}
        /\ Roster \ {base} = {Settled(d) : d \in {e \in docs : e.sock_id # u}}
  BY JoinedDoc
<1> DEFINE other == {d \in docs : d.sock_id # u}
<1>7. Settled(new)' = Room!Told(base, us)
  <2>1. new \in docs'
    BY <1>6
  <2>2. [w \in Users |-> Shown(new, w)'] = Link(base.connects, us)
    BY <1>5, <1>6, <2>1 DEF Link
  <2>3. Settled(new)' = [addr |-> base.addr, sock_id |-> u,
                         connects |-> Link(base.connects, us)]
    BY <1>6, <2>2 DEF Settled
  <2>4. Room!Told(base, us) = [addr |-> base.addr, sock_id |-> u,
                               connects |-> Link(base.connects, us)]
    BY <1>6 DEF Room!Told, Room!Relinked, Link
  <2>5. QED
    BY <2>3, <2>4
<1>8. ASSUME NEW d \in Chosen(t)
      PROVE  d \in other /\ Settled(d)' = Room!Told(Settled(d), {u})
  <2>1. d \in docs /\ <<d.sock_id, d.addr>> \in picked[t]
    BY DEF Chosen
  <2>2. d.sock_id # u /\ d.connects[u] = 1
    BY <1>3, <2>1, PickedShows
  <2>3. d \in docs'
    BY <1>6, <2>1, <2>2
  <2>4. \A w \in Users : Shown(d, w)' = d.connects[w]
    BY <1>5, <2>3
  <2>5. \A w \in Users : Shown(d, w) = IF w = u THEN 0 ELSE d.connects[w]
    BY <1>3, <2>1, ShownInJoin
  <2>6. \A w \in Users : Shown(d, w)' = IF w \in {u} THEN Shown(d, w) + 1 ELSE Shown(d, w)
    BY <2>2, <2>4, <2>5
  <2>7. [w \in Users |-> Shown(d, w)']
          = [w \in Users |-> IF w \in {u} THEN Shown(d, w) + 1 ELSE Shown(d, w)]
    BY <2>6
  <2>8. Settled(d)' = [addr |-> d.addr, sock_id |-> d.sock_id,
          connects |-> [w \in Users |-> IF w \in {u} THEN Shown(d, w) + 1 ELSE Shown(d, w)]]
    BY <2>7 DEF Settled
  <2>9. Room!Told(Settled(d), {u}) = [addr |-> d.addr, sock_id |-> d.sock_id,
          connects |-> [w \in Users |-> IF w \in {u} THEN Shown(d, w) + 1 ELSE Shown(d, w)]]
    BY DEF Room!Told, Room!Relinked, Settled
  <2>10. QED
    BY <2>1, <2>2, <2>8, <2>9
<1>9. ASSUME NEW d \in other \ Chosen(t)
      PROVE  Settled(d)' = Settled(d)
  <2>1. d \in docs /\ d \in docs' /\ <<d.sock_id, d.addr>> \notin picked[t]
    BY <1>6 DEF Chosen
  <2>2. \A w \in Users : Shown(d, w)' = Shown(d, w)
    BY <1>3, <1>5, <2>1, ShownInJoin
  <2>3. QED
    BY <2>2, SettledSame
<1>10. Roster' = {Settled(d)' : d \in other \ Chosen(t)}
                   \cup {Settled(d)' : d \in Chosen(t)} \cup {Settled(new)'}
  <2>1. docs' = (other \ Chosen(t)) \cup Chosen(t) \cup {new}
    BY <1>6, <1>8
  <2>2. Roster' = {Settled(d)' : d \in docs'}
    BY DEF Roster
  <2>3. QED
    BY <2>1, <2>2
<1>11. {Settled(d)' : d \in other \ Chosen(t)} = Roster \ (Given(t) \cup {base})
  <2>1. {Settled(d)' : d \in other \ Chosen(t)} = {Settled(d) : d \in other \ Chosen(t)}
    BY <1>9
  <2>2. \A d \in other, e \in Chosen(t) : Settled(d) = Settled(e) => d = e
    BY SettledApart DEF Chosen, SerialInv, LinkInv, DegreeInv, TypeInv, RegInv
  <2>3. Roster \ {base} = {Settled(d) : d \in other}
    BY <1>6
  <2>4. {Settled(d) : d \in other \ Chosen(t)} = {Settled(d) : d \in other} \ Given(t)
    BY <2>2 DEF Given
  <2>5. QED
    BY <2>1, <2>3, <2>4
<1>12. {Settled(d)' : d \in Chosen(t)} = {Room!Told(m, {u}) : m \in Given(t)}
  BY <1>8 DEF Given
<1>13. {Settled(new)'} = {Room!Told(m, {g.sock_id : g \in Given(t)}) : m \in Room!Own(t[1])}
  <2>1. {g.sock_id : g \in Given(t)} = us
    BY <1>2, GivenOffered
  <2>2. QED
    BY <1>6, <1>7, <2>1
<1>14. Roster' = (Roster \ (Given(t) \cup Room!Own(t[1])))
                   \cup {Room!Told(m, {u}) : m \in Given(t)}
                   \cup {Room!Told(m, {g.sock_id : g \in Given(t)}) : m \in Room!Own(t[1])}
  BY <1>6, <1>10, <1>11, <1>12, <1>13
<1>15. /\ Given(t) \in SUBSET Room!Offered(u)
       /\ \/ Cardinality(Given(t)) = Picks
          \/ Cardinality(Given(t)) < Picks /\ Given(t) = Room!Offered(u)
  BY <1>2, GivenOffered
<1>16. UserOf[t[1]] = u
  BY DEF User
<1>17. QED
  BY <1>4, <1>14, <1>15, <1>16, RoomCardinality DEF Room!Join

(* Before its last call a join shows nothing.                              *)
LEMMA ShowUpdateFails ==
  ASSUME SerialInv, NEW t \in Joins, UpdateOwn(t), jpc'[t] # "done"
  PROVE  UNCHANGED <<Roster, OwedUsers>>
<1>1. UNCHANGED <<docs, picked, fpc, work>>
  BY UpdateMoves DEF SerialInv, LinkInv, DegreeInv, TypeInv, RegInv
<1>2. QED
  BY <1>1, RosterUnchanged, OwedUnchanged

(* The deletion is the leave of the room.                                  *)
LEMMA ShowDelete ==
  ASSUME SerialInv, NEW s \in Sockets, FreeDelete(s)
  PROVE  Room!Leave(s) \/ UNCHANGED <<Roster, OwedUsers>>
<1>1. Typed /\ OneSectionAtATime /\ DataTyped /\ DocsTyped /\ OneDocPerUser
  BY DEF SerialInv, LinkInv, DegreeInv, TypeInv, RegInv
<1>2. /\ fpc[s] = "delete" /\ fpc[s] \in FreeSection /\ UNCHANGED <<picked, work>>
      /\ \A r \in Sockets : r # s => fpc'[r] = fpc[r]
  BY <1>1, FreeWorkMoves DEF FreeDelete
<1>3. /\ OwedUsers = {m.sock_id : m \in OwedBy(s)}
      /\ OwedUsers' = {m.sock_id : m \in OwedBy(s)'}
  BY <1>1, <1>2, OwedInside
<1>4. OwedUsers = {}
  BY <1>2, <1>3, OwedNothing
<1>5. CASE {d \in docs : d.addr = s} = {}
  <2>1. fpc'[s] = "wait" /\ docs' = docs
    BY <1>1, <1>5 DEF FreeDelete, Typed
  <2>2. OwedBy(s)' = {}
    BY <2>1, OwedNothing DEF FreeSection
  <2>3. QED
    BY <1>2, <1>3, <1>4, <2>1, <2>2, RosterUnchanged
<1>6. CASE {d \in docs : d.addr = s} # {}
  <2> DEFINE v == UserOf[s]
  <2>1. fpc'[s] = "aggregate"
    BY <1>1, <1>6 DEF FreeDelete, Typed
  <2>2. PICK gone \in docs : gone.addr = s /\ docs' = docs \ {gone}
    BY <1>6 DEF FreeDelete
  <2>3. gone.sock_id = v /\ v \in Users
    BY <1>1, <2>2, UserOfAssumption DEF DocsTyped, DocOf
  <2>4. \A d \in docs' : d.sock_id # v
    BY <1>1, <2>2, <2>3 DEF OneDocPerUser
  <2>5. \A u : u # v => (HasMember(u)' <=> HasMember(u))
    BY <2>2, <2>3 DEF HasMember
  <2>6. ~HasMember(v)' /\ HasMember(v)
    BY <2>2, <2>3, <2>4 DEF HasMember
  <2>7. \A d, u : PickedBy(d, u)' <=> PickedBy(d, u)
    BY <1>2 DEF PickedBy, User
  <2>8. ASSUME NEW d \in docs'
        PROVE  Settled(d)' = Room!Forgetting(Settled(d), v)
    <3>1. \A u \in Users : Shown(d, u)' = IF u = v THEN 0 ELSE Shown(d, u)
      BY <2>5, <2>6, <2>7 DEF Shown
    <3>2. [u \in Users |-> Shown(d, u)'] = [[u \in Users |-> Shown(d, u)] EXCEPT ![v] = 0]
      BY <2>3, <3>1
    <3>3. Settled(d)' = [addr |-> d.addr, sock_id |-> d.sock_id,
                         connects |-> [[u \in Users |-> Shown(d, u)] EXCEPT ![v] = 0]]
      BY <3>2 DEF Settled
    <3>4. QED
      BY <3>3 DEF Room!Forgetting, Room!Relinked, Settled
  <2>9. Roster \ {Settled(gone)} = {Settled(d) : d \in docs'}
    <3>1. \A d \in docs : Settled(d) = Settled(gone) => d = gone
      BY <1>1, <2>2, SettledApart
    <3>2. QED
      BY <2>2, <3>1 DEF Roster
  <2>10. Roster' = {Room!Forgetting(m, v) : m \in Roster \ {Settled(gone)}}
    <3>1. Roster' = {Settled(d)' : d \in docs'}
      BY DEF Roster
    <3>2. Roster' = {Room!Forgetting(Settled(d), v) : d \in docs'}
      BY <2>8, <3>1
    <3>3. QED
      BY <2>9, <3>2
  <2>11. \A d \in docs : Settled(d).connects[v] = d.connects[v] /\ Settled(d).sock_id = d.sock_id
    <3>1. \A d \in docs : Shown(d, v) = d.connects[v]
      BY <1>2, <2>3, <2>6, ShownInFree
    <3>2. QED
      BY <2>3, <3>1 DEF Settled
  <2>12. OwedUsers' = {m.sock_id : m \in {o \in Roster \ {Settled(gone)} : o.connects[v] > 0}}
    <3>1. OwedBy(s)' = Linked(s)'
      BY <2>1 DEF OwedBy
    <3> DEFINE linked == {e \in docs' : e.connects[v] > 0}
               Item(d) == [addr |-> d.addr, sock_id |-> d.sock_id,
                           rest |-> Unlink(d.connects, v)]
    <3>2. Linked(s)' = {Item(d) : d \in linked} /\ \A d : Item(d).sock_id = d.sock_id
      BY DEF Linked
    <3> HIDE DEF linked, Item
    <3>3. {m.sock_id : m \in Linked(s)'} = {d.sock_id : d \in linked}
      BY <3>2
    <3>4. OwedUsers' = {d.sock_id : d \in {e \in docs' : e.connects[v] > 0}}
      BY <1>3, <3>1, <3>3 DEF linked
    <3>5. {m.sock_id : m \in {o \in Roster \ {Settled(gone)} : o.connects[v] > 0}}
            = {d.sock_id : d \in {e \in docs' : e.connects[v] > 0}}
      BY <2>2, <2>9, <2>11
    <3>6. QED
      BY <3>4, <3>5
  <2>13. /\ Settled(gone) \in Roster
         /\ Settled(gone).addr = s /\ Settled(gone).sock_id = v
    BY <2>2, <2>3 DEF Roster, Settled
  <2>14. QED
    BY <1>4, <2>10, <2>12, <2>13 DEF Room!Leave
<1>7. QED
  BY <1>5, <1>6

(* What free() has found is owed, and finding it shows nothing.            *)
LEMMA ShowAggregate ==
  ASSUME SerialInv, NEW s \in Sockets, FreeAggregate(s)
  PROVE  UNCHANGED <<Roster, OwedUsers>>
<1>1. Typed /\ OneSectionAtATime /\ DataTyped
  BY DEF SerialInv, LinkInv, DegreeInv, TypeInv, RegInv
<1>2. /\ fpc[s] = "aggregate" /\ fpc[s] \in FreeSection /\ UNCHANGED <<docs, picked>>
      /\ \A r \in Sockets : r # s => fpc'[r] = fpc[r]
  BY <1>1, FreeWorkMoves DEF FreeAggregate
<1>3. /\ OwedUsers = {m.sock_id : m \in OwedBy(s)}
      /\ OwedUsers' = {m.sock_id : m \in OwedBy(s)'}
  BY <1>1, <1>2, OwedInside
<1>4. OwedBy(s) = Linked(s)
  BY <1>2 DEF OwedBy
<1>5. OwedBy(s)' = Linked(s)
  <2>1. CASE Linked(s) = {}
    <3>1. fpc'[s] = "done"
      BY <1>1, <2>1 DEF FreeAggregate, FinishFree, Typed
    <3>2. QED
      BY <2>1, <3>1 DEF OwedBy
  <2>2. CASE Linked(s) # {}
    <3>1. fpc'[s] = "pull"
      BY <1>1, <2>2 DEF FreeAggregate, Typed
    <3>2. work' = [work EXCEPT ![s].pull = Linked(s), ![s].repick = Linked(s)]
      BY <2>2 DEF FreeAggregate
    <3>3. work'[s].repick = Linked(s)
      BY <1>1, <3>2 DEF DataTyped, Works
    <3>4. QED
      BY <3>1, <3>3 DEF OwedBy
  <2>3. QED
    BY <2>1, <2>2
<1>6. QED
  BY <1>2, <1>3, <1>4, <1>5, RosterUnchanged

(* Forgetting a user that is no member any more does not show.             *)
LEMMA ShowPull ==
  ASSUME SerialInv, NEW s \in Sockets, FreePull(s)
  PROVE  UNCHANGED <<Roster, OwedUsers>>
<1> DEFINE v == UserOf[s]
<1>1. /\ Typed /\ OneSectionAtATime /\ DataTyped /\ OneDocPerUser /\ DegreeInv
      /\ v \in Users
  BY UserOfAssumption DEF SerialInv, LinkInv, DegreeInv, TypeInv, RegInv
<1>2. /\ fpc[s] = "pull" /\ fpc[s] \in FreeSection /\ UNCHANGED picked
      /\ \A r \in Sockets : r # s => fpc'[r] = fpc[r]
      /\ fpc'[s] \in {"pull", "repick"}
  BY <1>1, FreeWorkMoves DEF FreePull, Typed
<1>3. PICK m \in work[s].pull :
        /\ docs' = {IF d.addr = m.addr /\ d.sock_id = m.sock_id THEN Pulled(d, m.rest) ELSE d :
                    d \in docs}
        /\ work' = [work EXCEPT ![s].pull = @ \ {m}]
  BY DEF FreePull
<1>4. /\ OwedUsers = {n.sock_id : n \in OwedBy(s)}
      /\ OwedUsers' = {n.sock_id : n \in OwedBy(s)'}
  BY <1>1, <1>2, OwedInside
<1>5. work'[s].repick = work[s].repick
  BY <1>1, <1>3 DEF DataTyped, Works
<1>6. OwedBy(s)' = OwedBy(s)
  BY <1>2, <1>5 DEF OwedBy
<1> DEFINE After(d) == IF d.addr = m.addr /\ d.sock_id = m.sock_id THEN Pulled(d, m.rest) ELSE d
<1>7. ASSUME NEW d \in docs
      PROVE  /\ After(d).addr = d.addr /\ After(d).sock_id = d.sock_id
             /\ \A u \in Users : u # v => After(d).connects[u] = d.connects[u]
  <2>1. CASE d.addr = m.addr /\ d.sock_id = m.sock_id
    <3>1. m.rest = Unlink(d.connects, v)
      BY <1>1, <1>2, <2>1 DEF DegreeInv, PullMatches, SameOwner
    <3>2. d \in Documents /\ Degree(d)
      BY <1>1 DEF DataTyped, DegreeInv, Degrees
    <3>3. /\ After(d).addr = d.addr /\ After(d).sock_id = d.sock_id
          /\ After(d).connects = Unlink(d.connects, v)
      BY <1>1, <2>1, <3>1, <3>2, PulledDegree
    <3>4. QED
      BY <3>2, <3>3 DEF Unlink, Documents, Links
  <2>2. CASE ~(d.addr = m.addr /\ d.sock_id = m.sock_id)
    BY <2>2
  <2>3. QED
    BY <2>1, <2>2
<1>8. docs' = {After(d) : d \in docs}
  BY <1>3
<1> HIDE DEF After
<1>9. \A u : HasMember(u)' <=> HasMember(u)
  BY <1>7, <1>8 DEF HasMember
<1>10. ~HasMember(v)
  BY <1>2 DEF HasMember, SerialInv, LinkInv, FreeLinks, UserGone, FreeSection
<1>11. ASSUME NEW d \in docs
       PROVE  Settled(After(d))' = Settled(d)
  <2> DEFINE e == After(d)
  <2>1. e.addr = d.addr /\ e.sock_id = d.sock_id
        /\ \A u \in Users : u # v => e.connects[u] = d.connects[u]
    BY <1>7
  <2> HIDE DEF e
  <2>2. PICK f : f = e
    OBVIOUS
  <2>3. \A u \in Users : PickedBy(f, u)' <=> PickedBy(d, u)
    BY <1>2, <2>1, <2>2 DEF PickedBy, User
  <2>4. \A u \in Users : Shown(f, u)' = Shown(d, u)
    BY <1>9, <1>10, <2>1, <2>2, <2>3 DEF Shown
  <2>5. Settled(f)' = Settled(d)
    BY <2>1, <2>2, <2>4, SettledSame
  <2>6. QED
    BY <2>2, <2>5 DEF e
<1>12. Roster' = Roster
  BY <1>8, <1>11, RosterSame
<1>13. QED
  BY <1>4, <1>6, <1>12

(* A replacement is that of the room, or one owed is given up.             *)
LEMMA ShowRepick ==
  ASSUME SerialInv, NEW s \in Sockets, FreeRepick(s)
  PROVE  \E u \in Users : Room!Replace(u) \/ Room!GiveUp(u)
<1>1. /\ Typed /\ OneSectionAtATime /\ DataTyped /\ OneDocPerUser /\ DegreeInv
  BY DEF SerialInv, LinkInv, DegreeInv, TypeInv, RegInv
<1>2. /\ fpc[s] = "repick" /\ fpc[s] \in FreeSection /\ UNCHANGED picked
      /\ \A r \in Sockets : r # s => fpc'[r] = fpc[r]
  BY <1>1, FreeWorkMoves DEF FreeRepick
<1>3. /\ OwedUsers = {n.sock_id : n \in OwedBy(s)}
      /\ OwedUsers' = {n.sock_id : n \in OwedBy(s)'}
  BY <1>1, <1>2, OwedInside
<1>4. PICK m \in work[s].repick : RepickNone(s, m) \/ RepickOne(s, m)
  BY DEF FreeRepick
<1>5. OwedBy(s) = work[s].repick
  BY <1>2 DEF OwedBy
<1>6. m.sock_id \in Users
  BY <1>1, <1>4 DEF DataTyped, Works, Members
<1>7. OwedBy(s)' = work[s].repick \ {m}
  <2>1. CASE RepickNone(s, m)
    <3>1. work'[s].repick = work[s].repick \ {m}
      BY <1>1, <2>1 DEF RepickNone, DataTyped, Works
    <3>2. CASE work[s].repick \ {m} = {}
      <4>1. fpc'[s] = "done"
        BY <1>1, <2>1, <3>2 DEF RepickNone, NextRepick, FinishFree, Typed
      <4>2. QED
        BY <3>2, <4>1 DEF OwedBy
    <3>3. CASE work[s].repick \ {m} # {}
      <4>1. fpc'[s] = "repick"
        BY <1>1, <2>1, <3>3 DEF RepickNone, NextRepick, Typed
      <4>2. QED
        BY <3>1, <4>1 DEF OwedBy
    <3>4. QED
      BY <3>2, <3>3
  <2>2. CASE RepickOne(s, m)
    <3>1. PICK cl \in Pickable(m.sock_id) :
            work' = [work EXCEPT ![s].link = {[of |-> m, to |-> cl.addr, user |-> cl.sock_id]}]
      BY <2>2 DEF RepickOne
    <3>2. /\ work'[s].link = {[of |-> m, to |-> cl.addr, user |-> cl.sock_id]}
          /\ work'[s].repick = work[s].repick
      BY <1>1, <3>1 DEF DataTyped, Works
    <3>3. fpc'[s] = "link"
      BY <1>1, <2>2 DEF RepickOne, Typed
    <3>4. {l.of : l \in work'[s].link} = {m}
      BY <3>2
    <3>5. QED
      BY <3>2, <3>3, <3>4 DEF OwedBy
  <2>3. QED
    BY <1>4, <2>1, <2>2
<1>8. OwedUsers' = OwedUsers \ {m.sock_id} /\ m.sock_id \in OwedUsers
  <2>1. \A n \in work[s].repick : n.sock_id = m.sock_id => n = m
    BY <1>2, <1>4 DEF SerialInv, RepickApart
  <2>2. {n.sock_id : n \in work[s].repick \ {m}}
          = {n.sock_id : n \in work[s].repick} \ {m.sock_id}
    BY <2>1
  <2>3. QED
    BY <1>3, <1>4, <1>5, <1>7, <2>2
<1>9. CASE RepickNone(s, m)
  <2>1. Roster' = Roster
    BY <1>2, <1>9, RosterUnchanged DEF RepickNone
  <2>2. Room!GiveUp(m.sock_id)
    BY <1>8, <2>1 DEF Room!GiveUp
  <2>3. QED
    BY <1>6, <2>2
<1>10. CASE RepickOne(s, m)
  <2> DEFINE u == m.sock_id
  <2>1. PICK cl \in Pickable(u) : docs' = (docs \ {cl}) \cup {Pushed(cl, {u})}
    BY <1>10 DEF RepickOne
  <2> DEFINE new == Pushed(cl, {u})
  <2>2. /\ cl \in docs /\ cl.nconnects < MaxConnects
        /\ cl.connects[u] = 0 /\ cl.sock_id # u
    BY <2>1 DEF Pickable
  <2>3. /\ new.addr = cl.addr /\ new.sock_id = cl.sock_id
        /\ new.connects = Link(cl.connects, {u})
    BY DEF Pushed, Relinked
  <2>4. PICK d0 \in docs : d0.sock_id = u
    BY <1>2, <1>4 DEF SerialInv, LinkInv, FreeLinks, RepickMembers, SameOwner
  <2>5. HasMember(u)
    BY <2>4 DEF HasMember
  <2>6. \A w : HasMember(w)' <=> HasMember(w)
    BY <2>1, <2>2, <2>3 DEF HasMember
  <2>7. \A t \in Joins : picked[t] = {}
    BY <1>1, <1>2, FreeAlone, NobodyFailed
  <2>8. \A d, w : ~PickedBy(d, w) /\ ~PickedBy(d, w)'
    BY <1>2, <2>7 DEF PickedBy
  <2>9. \A d \in docs, w \in Users : Shown(d, w) = d.connects[w]
    <3>1. \A d \in docs : ~ToBePulled(d, s)
      BY <1>2 DEF ToBePulled
    <3>2. QED
      BY <1>2, <3>1, ShownInFree
  <2>10. \A d \in docs \ {cl} : Settled(d)' = Settled(d)
    <3>1. \A d \in docs, w \in Users : Shown(d, w)' = Shown(d, w)
      BY <2>6, <2>8 DEF Shown
    <3>2. QED
      BY <3>1, SettledSame
  <2>11. cl.connects \in Links /\ cl.nconnects = Total(cl.connects)
    BY <1>1, <2>2 DEF DataTyped, Documents, DegreeInv, Degrees, Degree
  <2>12. Settled(cl) = [addr |-> cl.addr, sock_id |-> cl.sock_id, connects |-> cl.connects]
    <3>1. [w \in Users |-> Shown(cl, w)] = cl.connects
      BY <2>2, <2>9, <2>11 DEF Links
    <3>2. QED
      BY <3>1 DEF Settled
  <2>13. Settled(new)' = Room!Told(Settled(cl), {u})
    <3>1. \A w \in Users : Shown(new, w)' = IF w \in {u} THEN cl.connects[w] + 1
                                                         ELSE cl.connects[w]
      <4>1. \A w \in Users : new.connects[w] = IF w \in {u} THEN cl.connects[w] + 1
                                                            ELSE cl.connects[w]
        BY <2>3 DEF Link
      <4>2. \A w \in Users : cl.connects[w] # 0 => HasMember(w)
        BY <2>2, <2>8, <2>9 DEF Shown
      <4>3. PICK n : n = new
        OBVIOUS
      <4>4. \A w \in Users : Shown(n, w)' = IF HasMember(w) THEN n.connects[w] ELSE 0
        BY <2>6, <2>8 DEF Shown
      <4>5. QED
        BY <2>5, <4>1, <4>2, <4>3, <4>4
    <3>2. [w \in Users |-> Shown(new, w)']
            = [w \in Users |-> IF w \in {u} THEN cl.connects[w] + 1 ELSE cl.connects[w]]
      BY <3>1
    <3>3. Settled(new)' = [addr |-> cl.addr, sock_id |-> cl.sock_id,
            connects |-> [w \in Users |-> IF w \in {u} THEN cl.connects[w] + 1
                                                       ELSE cl.connects[w]]]
      BY <2>3, <3>2 DEF Settled
    <3>4. QED
      BY <2>12, <3>3 DEF Room!Told, Room!Relinked
  <2>14. Roster' = (Roster \ {Settled(cl)}) \cup {Room!Told(Settled(cl), {u})}
    <3>1. Roster' = {Settled(d)' : d \in docs \ {cl}} \cup {Settled(new)'}
      BY <2>1 DEF Roster
    <3>2. {Settled(d)' : d \in docs \ {cl}} = {Settled(d) : d \in docs \ {cl}}
      BY <2>10
    <3>3. \A d \in docs : Settled(d) = Settled(cl) => d = cl
      BY <1>1, <2>2, SettledApart
    <3>4. {Settled(d) : d \in docs \ {cl}} = Roster \ {Settled(cl)}
      BY <2>2, <3>3 DEF Roster
    <3>5. QED
      BY <2>13, <3>1, <3>2, <3>4
  <2>15. Settled(cl) \in Room!Offered(u)
    <3>1. Settled(cl) \in Roster
      BY <2>2 DEF Roster
    <3>2. Room!Degree(Settled(cl)) < MaxConnects
      BY <2>2, <2>11, <2>12, RoomDegree
    <3>3. QED
      BY <2>2, <2>12, <3>1, <3>2 DEF Room!Offered
  <2>16. \E n \in Roster : n.sock_id = u
    <3>1. Settled(d0).sock_id = u
      BY <2>4 DEF Settled
    <3>2. QED
      BY <2>4, <3>1 DEF Roster
  <2>17. Room!Replace(u)
    BY <1>8, <2>14, <2>15, <2>16 DEF Room!Replace
  <2>18. QED
    BY <1>6, <2>17
<1>11. QED
  BY <1>4, <1>9, <1>10

(* The introduction of a replacement shows nothing.                        *)
LEMMA ShowLink ==
  ASSUME SerialInv, NEW s \in Sockets, FreeLink(s)
  PROVE  UNCHANGED <<Roster, OwedUsers>>
<1>1. Typed /\ OneSectionAtATime /\ DataTyped
  BY DEF SerialInv, LinkInv, DegreeInv, TypeInv, RegInv
<1>2. /\ fpc[s] = "link" /\ fpc[s] \in FreeSection /\ UNCHANGED picked
      /\ \A r \in Sockets : r # s => fpc'[r] = fpc[r]
  BY <1>1, FreeWorkMoves DEF FreeLink
<1>3. Roster' = Roster
  BY <1>1, <1>2, LinkFindsNothing, RosterUnchanged
<1>4. /\ OwedUsers = {m.sock_id : m \in OwedBy(s)}
      /\ OwedUsers' = {m.sock_id : m \in OwedBy(s)'}
  BY <1>1, <1>2, OwedInside
<1>5. PICK l \in work[s].link :
        /\ work' = [work EXCEPT ![s].link = {}, ![s].repick = @ \ {l.of}]
        /\ NextRepick(s, work[s].repick \ {l.of})
  BY DEF FreeLink
<1>6. work[s].link = {l}
  BY <1>2, <1>5 DEF SerialInv, OneLink
<1>7. OwedBy(s) = work[s].repick \ {l.of}
  <2>1. {k.of : k \in work[s].link} = {l.of}
    BY <1>6
  <2>2. QED
    BY <1>2, <2>1 DEF OwedBy
<1>8. work'[s].repick = work[s].repick \ {l.of}
  BY <1>1, <1>5 DEF DataTyped, Works
<1>9. OwedBy(s)' = work[s].repick \ {l.of}
  <2>1. CASE work[s].repick \ {l.of} = {}
    <3>1. fpc'[s] = "done"
      BY <1>1, <1>5, <2>1 DEF NextRepick, FinishFree, Typed
    <3>2. QED
      BY <2>1, <3>1 DEF OwedBy
  <2>2. CASE work[s].repick \ {l.of} # {}
    <3>1. fpc'[s] = "repick"
      BY <1>1, <1>5, <2>2 DEF NextRepick, Typed
    <3>2. QED
      BY <1>8, <3>1 DEF OwedBy
  <2>3. QED
    BY <2>1, <2>2
<1>10. QED
  BY <1>3, <1>4, <1>7, <1>9

LEMMA RegistryStep ==
  SerialInv /\ SerialInv' /\ [Next]_vars => [Room!Next]_<<Roster, OwedUsers>>
<1> SUFFICES ASSUME SerialInv, SerialInv', [Next]_vars
             PROVE  Room!Next \/ UNCHANGED <<Roster, OwedUsers>>
  OBVIOUS
<1>1. CASE UNCHANGED vars
  BY <1>1, RosterUnchanged, OwedUnchanged DEF vars, joinVars, freeVars
<1>2. ASSUME NEW s \in Sockets, QuietFree(s)
      PROVE  Room!Next \/ UNCHANGED <<Roster, OwedUsers>>
  BY <1>2, ShowQuietFree DEF Room!Next
<1>3. ASSUME NEW s \in Sockets,
             FreeDelete(s) \/ FreeAggregate(s) \/ FreePull(s) \/ FreeRepick(s) \/ FreeLink(s)
      PROVE  Room!Next \/ UNCHANGED <<Roster, OwedUsers>>
  BY <1>3, ShowDelete, ShowAggregate, ShowPull, ShowRepick, ShowLink DEF Room!Next
<1>4. ASSUME NEW t \in Joins, QuietJoin(t) \/ Pick(t)
      PROVE  Room!Next \/ UNCHANGED <<Roster, OwedUsers>>
  BY <1>4, ShowQuietJoin, ShowPick
<1>5. ASSUME NEW t \in Joins, UpdateOwn(t) \/ InsertOwn(t)
      PROVE  Room!Next \/ UNCHANGED <<Roster, OwedUsers>>
  <2>1. Typed /\ t[1] \in Sockets
    BY JoinType DEF SerialInv, LinkInv, DegreeInv, TypeInv, RegInv
  <2>2. CASE jpc'[t] = "done"
    BY <1>5, <2>1, <2>2, ShowJoin DEF Room!Next
  <2>3. CASE jpc'[t] # "done"
    BY <1>5, <2>1, <2>3, InsertMoves, ShowUpdateFails
  <2>4. QED
    BY <2>2, <2>3
<1>6. QED
  BY <1>1, <1>2, <1>3, <1>4, <1>5 DEF Next, FreeStep, QuietFree, JoinStep, QuietJoin

(* Joins, leaves and replacements are serializable: whatever awaits,       *)
(* timers, disconnections and rejected calls come in between, the members  *)
(* and their links change as if each were one step.                        *)
THEOREM Serializable == Spec => ImplementsRegistry
<1>1. Init => Room!Init
  <2> SUFFICES ASSUME Init PROVE Room!Init
    OBVIOUS
  <2>1. Roster = {}
    BY DEF Init, Roster
  <2>2. OwedUsers = {}
    BY OwedOutside DEF Init, FreeSection
  <2>3. QED
    BY <2>1, <2>2 DEF Room!Init
<1>2. QED
  BY SerialInvInit, SerialInvStep, RegistryStep, <1>1, PTL
     DEF Spec, ImplementsRegistry, Room!Spec
=============================================================================
