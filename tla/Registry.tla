------------------------------ MODULE Registry ------------------------------
(***************************************************************************)
(* What the registry of a room promises: each operation changes it in one  *)
(* step, however many database calls it is made of, and joins, leaves and  *)
(* the replacements after a leave do not mix.                              *)
(***************************************************************************)
EXTENDS Naturals, FiniteSets

CONSTANTS Sockets, Users, UserOf, MaxConnects, Picks    \* as in Signaler

VARIABLES members,   \* [addr, sock_id, connects]: socket, user, links per user
          owed       \* users that lost the one that left, to be given another

\* How many links a member has; a member told to connect to us; one without v.
Degree(m) == Cardinality(UNION {{u} \X (1 .. m.connects[u]) : u \in Users})
Relinked(m, c) == [addr |-> m.addr, sock_id |-> m.sock_id, connects |-> c]
Told(m, us) ==
  Relinked(m, [u \in Users |-> IF u \in us THEN m.connects[u] + 1 ELSE m.connects[u]])
Forgetting(m, v) == Relinked(m, [m.connects EXCEPT ![v] = 0])

\* Whom a client of user u can be given: others not linked to it yet.
Offered(u) ==
  {m \in members : m.sock_id # u /\ m.connects[u] = 0 /\ Degree(m) < MaxConnects}

\* The member a join of socket s extends or, if there is none, creates.
Own(s) ==
  LET own == {m \in members : m.sock_id = UserOf[s]}
  IN  IF own # {} THEN own
      ELSE {[addr |-> s, sock_id |-> UserOf[s], connects |-> [u \in Users |-> 0]]}

\* Socket s joins: its user and the members given to it are linked both
\* ways.  It gets Picks members, or all that can be offered.
Join(s) ==
  /\ owed = {}
  /\ \E given \in SUBSET Offered(UserOf[s]) :
       /\ \/ Cardinality(given) = Picks
          \/ Cardinality(given) < Picks /\ given = Offered(UserOf[s])
       /\ members' = (members \ (given \cup Own(s)))
                       \cup {Told(m, {UserOf[s]}) : m \in given}
                       \cup {Told(m, {g.sock_id : g \in given}) : m \in Own(s)}
  /\ UNCHANGED owed

\* The member that joined with s leaves, and everybody forgets its user.
Leave(s) ==
  /\ owed = {}
  /\ \E gone \in members :
       /\ gone.addr = s
       /\ members' = {Forgetting(m, gone.sock_id) : m \in members \ {gone}}
       /\ owed' = {m.sock_id : m \in {o \in members \ {gone} : o.connects[gone.sock_id] > 0}}

\* One that lost a member is given to another one, which alone notes it.
Replace(u) ==
  /\ u \in owed
  /\ \E m \in members : m.sock_id = u
  /\ \E cl \in Offered(u) : members' = (members \ {cl}) \cup {Told(cl, {u})}
  /\ owed' = owed \ {u}

\* It is gone itself, or nobody can be offered.
GiveUp(u) ==
  /\ u \in owed
  /\ owed' = owed \ {u}
  /\ UNCHANGED members

\* A database call was rejected: nobody else is given a replacement.
Abandon ==
  /\ owed # {}
  /\ owed' = {}
  /\ UNCHANGED members

Init == members = {} /\ owed = {}

Next ==
  \/ \E s \in Sockets : Join(s) \/ Leave(s)
  \/ \E u \in Users : Replace(u) \/ GiveUp(u)
  \/ Abandon

Spec == Init /\ [][Next]_<<members, owed>>
=============================================================================
