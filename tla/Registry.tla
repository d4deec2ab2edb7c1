------------------------------ MODULE Registry ------------------------------
(***************************************************************************)
(* The connection registry of crates/prism/src/players/mod.rs: a concurrent *)
(* map from connection ids to session values, and beside it the atomic      *)
(* counter online_count that the MOTD and the join request read.            *)
(*                                                                          *)
(* No lock covers the two.  Each caller is a task on the multi-threaded     *)
(* runtime, and what it interleaves at is an access to shared memory: one   *)
(* get, insert or remove of the map, or one fetch_add or fetch_sub of the   *)
(* counter.  A call is therefore a sequence of steps, and pc[c] says where  *)
(* caller c is in its call.                                                 *)
(*                                                                          *)
(* A session value is abstracted to the connection it belongs to (the       *)
(* clones in the map share its byte counters) and its player state.         *)
(***************************************************************************)
EXTENDS Integers, FiniteSets

CONSTANTS
    Callers,      \* connections, each with one task that calls the registry
    Ids,          \* connection ids
    Absent,       \* "the map has no such key"
    NoId,         \* "the connection has no id"
    PlayerState,  \* the values of the enum, of which the code tells two apart
    ExclusiveIds  \* TRUE: an id is given to one connection at a time

Session == [owner : Callers, state : PlayerState]

ASSUME RegistryAssumption ==
    /\ IsFiniteSet(Callers)
    /\ {"Connected", "Proxying"} \subseteq PlayerState
    /\ "keep" \notin PlayerState
    /\ Absent \notin Session
    /\ NoId \notin Ids
    /\ ExclusiveIds \in BOOLEAN

VARIABLES
    sessions,     \* the map, Absent where there is no entry
    onlineCount,  \* AtomicI32 online_count
    pc,           \* where each caller is in its call
    held,         \* the id each caller has registered
    was,          \* was_proxying, a local of update_outbound and set_state
    goal,         \* the state the running update writes, or "keep"
    copy          \* the clone made by the running update

registryVars == <<sessions, onlineCount, pc, held, was, goal, copy>>

Steps == {"idle", "registered", "get", "insert", "adjust", "decrement"}

RegistryTypeOK ==
    /\ sessions \in [Ids -> Session \cup {Absent}]
    /\ onlineCount \in Int
    /\ pc \in [Callers -> Steps]
    /\ held \in [Callers -> Ids \cup {NoId}]
    /\ was \in [Callers -> BOOLEAN]
    /\ goal \in [Callers -> PlayerState \cup {"keep"}]
    /\ copy \in [Callers -> Session \cup {Absent}]

RegistryInit ==
    /\ sessions = [id \in Ids |-> Absent]
    /\ onlineCount = 0
    /\ pc = [c \in Callers |-> "idle"]
    /\ held = [c \in Callers |-> NoId]
    /\ was = [c \in Callers |-> FALSE]
    /\ goal = [c \in Callers |-> "keep"]
    /\ copy = [c \in Callers |-> Absent]

IsProxying(id) == sessions[id] # Absent /\ sessions[id].state = "Proxying"

(***************************************************************************)
(* register: one insert, which silently replaces an entry under that id.    *)
(***************************************************************************)
Register(c, id) ==
    /\ pc[c] = "idle"
    /\ ExclusiveIds => \A d \in Callers : held[d] # id
    /\ sessions' = [sessions EXCEPT ![id] = [owner |-> c, state |-> "Connected"]]
    /\ held' = [held EXCEPT ![c] = id]
    /\ pc' = [pc EXCEPT ![c] = "registered"]
    /\ UNCHANGED <<onlineCount, was, goal, copy>>

(***************************************************************************)
(* update_outbound and set_state both read whether the entry is proxying,   *)
(* run the private update, and then correct the counter by what they read.  *)
(***************************************************************************)
\* Faulty: takes for granted that the entry was not proxying.
ReadStateAssuming(c, s) ==
    /\ pc[c] = "registered"
    /\ was' = [was EXCEPT ![c] = FALSE]
    /\ goal' = [goal EXCEPT ![c] = s]
    /\ pc' = [pc EXCEPT ![c] = "get"]
    /\ UNCHANGED <<sessions, onlineCount, held, copy>>

ReadState(c, s) ==
    /\ pc[c] = "registered"
    /\ was' = [was EXCEPT ![c] = IsProxying(held[c])]
    /\ goal' = [goal EXCEPT ![c] = s]
    /\ pc' = [pc EXCEPT ![c] = "get"]
    /\ UNCHANGED <<sessions, onlineCount, held, copy>>

UpdateOutbound(c) == ReadState(c, "Proxying")

SetState(c, s) == ReadState(c, s)

\* update_handshake and update_login: the private update alone, with a
\* closure that leaves the player state as it is.
UpdateDetails(c) ==
    /\ pc[c] = "registered"
    /\ goal' = [goal EXCEPT ![c] = "keep"]
    /\ pc' = [pc EXCEPT ![c] = "get"]
    /\ UNCHANGED <<sessions, onlineCount, held, was, copy>>

AfterUpdate(c) == IF goal[c] = "keep" THEN "registered" ELSE "adjust"

\* update, first access: get and clone; without an entry it does nothing.
CloneSession(c) ==
    /\ pc[c] = "get"
    /\ copy' = [copy EXCEPT ![c] = sessions[held[c]]]
    /\ pc' = [pc EXCEPT ![c] =
                 IF sessions[held[c]] = Absent THEN AfterUpdate(c) ELSE "insert"]
    /\ UNCHANGED <<sessions, onlineCount, held, was, goal>>

\* Faulty: writes a state also for the updates that have none.
InsertCloneStateless(c) ==
    /\ pc[c] = "insert"
    /\ sessions' = [sessions EXCEPT ![held[c]] = [owner |-> copy[c].owner, state |-> goal[c]]]
    /\ copy' = [copy EXCEPT ![c] = Absent]
    /\ pc' = [pc EXCEPT ![c] = AfterUpdate(c)]
    /\ UNCHANGED <<onlineCount, held, was, goal>>

\* update, second access: insert the changed clone.
InsertClone(c) ==
    /\ pc[c] = "insert"
    /\ sessions' = [sessions EXCEPT ![held[c]] =
                       IF goal[c] = "keep" THEN copy[c]
                       ELSE [owner |-> copy[c].owner, state |-> goal[c]]]
    /\ copy' = [copy EXCEPT ![c] = Absent]
    /\ pc' = [pc EXCEPT ![c] = AfterUpdate(c)]
    /\ UNCHANGED <<onlineCount, held, was, goal>>

\* Faulty: never takes a player out; forgets what the state was.
CorrectionUpOnly(wasProxying, willBeProxying) ==
    IF willBeProxying /\ ~wasProxying THEN 1 ELSE 0
CorrectionMemoryless(wasProxying, willBeProxying) == IF willBeProxying THEN 1 ELSE -1

Correction(wasProxying, willBeProxying) ==
    IF wasProxying = willBeProxying THEN 0 ELSE IF willBeProxying THEN 1 ELSE -1

AdjustCount(c) ==
    /\ pc[c] = "adjust"
    /\ onlineCount' = onlineCount + Correction(was[c], goal[c] = "Proxying")
    /\ pc' = [pc EXCEPT ![c] = "registered"]
    /\ was' = [was EXCEPT ![c] = FALSE]
    /\ goal' = [goal EXCEPT ![c] = "keep"]
    /\ UNCHANGED <<sessions, held, copy>>

\* Faulty: keeps the entries that do not count.
RemoveEntryIfProxying(c) ==
    /\ pc[c] = "registered"
    /\ sessions' = [sessions EXCEPT ![held[c]] = IF IsProxying(held[c]) THEN Absent ELSE @]
    /\ held' = [held EXCEPT ![c] = NoId]
    /\ pc' = [pc EXCEPT ![c] = IF IsProxying(held[c]) THEN "decrement" ELSE "idle"]
    /\ UNCHANGED <<onlineCount, was, goal, copy>>

(***************************************************************************)
(* remove_connection: the removed value, not an earlier read, decides       *)
(* whether the counter goes down.                                           *)
(***************************************************************************)
RemoveEntry(c) ==
    /\ pc[c] = "registered"
    /\ sessions' = [sessions EXCEPT ![held[c]] = Absent]
    /\ held' = [held EXCEPT ![c] = NoId]
    /\ pc' = [pc EXCEPT ![c] = IF IsProxying(held[c]) THEN "decrement" ELSE "idle"]
    /\ UNCHANGED <<onlineCount, was, goal, copy>>

DecrementCount(c) ==
    /\ pc[c] = "decrement"
    /\ onlineCount' = onlineCount - 1
    /\ pc' = [pc EXCEPT ![c] = "idle"]
    /\ UNCHANGED <<sessions, held, was, goal, copy>>

\* The steps of a call that is under way.
Step(c) == \/ CloneSession(c)
           \/ InsertClone(c)
           \/ AdjustCount(c)
           \/ DecrementCount(c)

\* The calls a connection may make.
Call(c) == \/ \E id \in Ids : Register(c, id)
           \/ UpdateOutbound(c)
           \/ \E s \in PlayerState : SetState(c, s)
           \/ UpdateDetails(c)
           \/ RemoveEntry(c)

RegistryNext == \E c \in Callers : Call(c) \/ Step(c)

RegistrySpec == RegistryInit /\ [][RegistryNext]_registryVars

-----------------------------------------------------------------------------
(* Properties *)

InUpdate(c) == pc[c] \in {"get", "insert", "adjust"} /\ goal[c] # "keep"

PendingIncrement(c) == pc[c] = "adjust" /\ ~was[c] /\ goal[c] = "Proxying"
PendingDecrement(c) == \/ pc[c] = "adjust" /\ was[c] /\ goal[c] # "Proxying"
                       \/ pc[c] = "decrement"

ProxyingIds == {id \in Ids : IsProxying(id)}

\* A session value in the map is there for a connection that will still
\* remove it: nobody leaves an entry behind, although update writes back a
\* clone it read earlier.
SessionsHaveHolders ==
    \A id \in Ids : sessions[id] # Absent => \E c \in Callers : held[c] = id

\* The counter is the number of proxying entries, but for the corrections
\* that callers have still to make between a map access and a counter access.
CountMatchesMap ==
    onlineCount + Cardinality({c \in Callers : PendingIncrement(c)})
      = Cardinality(ProxyingIds) + Cardinality({c \in Callers : PendingDecrement(c)})

\* A connection counts as online from its increment to its decrement.
Online(c) ==
    \/ PendingDecrement(c)
    \/ /\ held[c] # NoId
       /\ IsProxying(held[c])
       /\ ~PendingIncrement(c)

OnlineCallers == {c \in Callers : Online(c)}

\* The counter never shows anything but the number of connections that have
\* been counted in and not yet out; in particular it is never negative.
OnlineCountExact == onlineCount = Cardinality(OnlineCallers)

-----------------------------------------------------------------------------
(* The inductive invariant behind them *)

\* A caller holds an id exactly from its register to its remove, and a call
\* under way has the locals it needs.
CallsWellFormed ==
    \A c \in Callers :
        /\ held[c] # NoId <=> pc[c] \in {"registered", "get", "insert", "adjust"}
        /\ pc[c] = "insert" => copy[c] # Absent
        /\ pc[c] = "adjust" => goal[c] # "keep"

\* Under the contract on ids, nobody else touches the entry of a holder, so
\* what its call has read is still true when it is used.
EntriesUndisturbed ==
    /\ \A c, d \in Callers : held[c] = held[d] /\ held[c] # NoId => c = d
    /\ \A c \in Callers : held[c] # NoId =>
          /\ sessions[held[c]] # Absent
          /\ sessions[held[c]].owner = c
          /\ pc[c] = "insert" => copy[c] = sessions[held[c]]
          /\ InUpdate(c) /\ pc[c] # "adjust" => (was[c] <=> IsProxying(held[c]))
          /\ pc[c] = "adjust" => (goal[c] = "Proxying" <=> IsProxying(held[c]))

RegistryInv == /\ RegistryTypeOK
               /\ CallsWellFormed
               /\ SessionsHaveHolders
               /\ EntriesUndisturbed
               /\ OnlineCountExact

-----------------------------------------------------------------------------
Published == INSTANCE OnlineCount WITH
                Players <- Callers, players <- OnlineCallers, count <- onlineCount

\* To its readers the counter behaves as the size of a set that players
\* enter and leave one at a time.
ImplementsOnlineCount == Published!Spec
=============================================================================
