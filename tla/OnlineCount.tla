---------------------------- MODULE OnlineCount ----------------------------
(***************************************************************************)
(* What the connection registry promises to the readers of its counter     *)
(* (the MOTD's "online" figure and the load sent with every join request): *)
(* there is a set of players, a player arrives or leaves in one step, and  *)
(* the counter always shows the size of the set.  Registry refines this.   *)
(***************************************************************************)
EXTENDS Integers, FiniteSets

CONSTANT Players   \* everyone who may come online

VARIABLES players, \* who is online
          count    \* the published counter

vars == <<players, count>>

TypeOK == players \subseteq Players /\ count \in Int

Init == players = {} /\ count = 0

Arrive(p) == /\ p \notin players
             /\ players' = players \cup {p}
             /\ count' = Cardinality(players')

Leave(p) == /\ p \in players
            /\ players' = players \ {p}
            /\ count' = Cardinality(players')

Next == \E p \in Players : Arrive(p) \/ Leave(p)

Spec == Init /\ [][Next]_vars
=============================================================================
