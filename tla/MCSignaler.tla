----------------------------- MODULE MCSignaler -----------------------------
(* Four members that join once each: enough for one to leave, two to be    *)
(* affected and a fourth to be offered in exchange.                        *)
EXTENDS Signaler, TLC

CONSTANTS a1, a2, b1, c1, d1, ua, ub, uc, ud

MCSockets == {a1, b1, c1, d1}
MCUsers == {ua, ub, uc, ud}
MCUserOf == (a1 :> ua) @@ (b1 :> ub) @@ (c1 :> uc) @@ (d1 :> ud)
MCMaxJoins == [s \in MCSockets |-> 1]

\* A permutation of the sockets and the same one of their users.
MCSymmetry ==
  {f \in Permutations(MCSockets \cup MCUsers) :
     \A s \in MCSockets : f[s] \in MCSockets /\ f[MCUserOf[s]] = MCUserOf[f[s]]}

(* Three members, the first of which leaves and joins again.               *)
RejoinSockets == {a1, b1, c1}
RejoinUsers == {ua, ub, uc}
RejoinUserOf == (a1 :> ua) @@ (b1 :> ub) @@ (c1 :> uc)
RejoinMaxJoins == (a1 :> 2) @@ (b1 :> 1) @@ (c1 :> 1)

(* Three members, the first of which loses its connection and joins again  *)
(* with a second socket while the first is being freed, or before.         *)
ReconnectSockets == {a1, a2, b1, c1}
ReconnectUserOf == (a1 :> ua) @@ (a2 :> ua) @@ (b1 :> ub) @@ (c1 :> uc)
ReconnectMaxJoins == [s \in ReconnectSockets |-> 1]
ReconnectSymmetry ==
  {f \in Permutations({b1, c1, ub, uc}) :
     /\ f[b1] \in {b1, c1} /\ f[c1] \in {b1, c1}
     /\ f[b1] = b1 <=> f[ub] = ub}
=============================================================================
