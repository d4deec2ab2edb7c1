-------------------------- MODULE Registry_proofs --------------------------
(***************************************************************************)
(* Proofs about Registry for any set of connections and ids.                *)
(***************************************************************************)
EXTENDS Registry, FiniteSetTheorems, TLAPS

(***************************************************************************)
(* Types and holders: no contract on the ids is needed.                     *)
(***************************************************************************)

HolderInv == RegistryTypeOK /\ CallsWellFormed /\ SessionsHaveHolders

\* Initially the map is empty and no caller is in a call.
LEMMA HolderInvInit == RegistryInit => HolderInv
BY RegistryAssumption
   DEF RegistryInit, HolderInv, RegistryTypeOK, Steps, CallsWellFormed, SessionsHaveHolders

\* Every call and every step of a call keeps the types, the locals of the
\* calls under way, and a holder for every entry.
LEMMA HolderInvStep == HolderInv /\ [RegistryNext]_registryVars => HolderInv'
<1> SUFFICES ASSUME HolderInv, [RegistryNext]_registryVars
             PROVE  HolderInv'
    OBVIOUS
<1> USE RegistryAssumption
    DEF HolderInv, RegistryTypeOK, Steps, CallsWellFormed, SessionsHaveHolders
<1>1. CASE UNCHANGED registryVars
    BY <1>1 DEF registryVars
<1>2. ASSUME NEW c \in Callers, NEW id \in Ids, Register(c, id)
      PROVE  HolderInv'
    BY <1>2 DEF Register, Session
<1>3. ASSUME NEW c \in Callers, NEW s \in PlayerState, ReadState(c, s)
      PROVE  HolderInv'
    BY <1>3 DEF ReadState, IsProxying
<1>4. ASSUME NEW c \in Callers, UpdateDetails(c)
      PROVE  HolderInv'
    BY <1>4 DEF UpdateDetails
<1>5. ASSUME NEW c \in Callers, CloneSession(c)
      PROVE  HolderInv'
    BY <1>5 DEF CloneSession, AfterUpdate
<1>6. ASSUME NEW c \in Callers, InsertClone(c)
      PROVE  HolderInv'
    BY <1>6 DEF InsertClone, AfterUpdate, Session
<1>7. ASSUME NEW c \in Callers, AdjustCount(c)
      PROVE  HolderInv'
    BY <1>7 DEF AdjustCount, Correction
<1>8. ASSUME NEW c \in Callers, RemoveEntry(c)
      PROVE  HolderInv'
    BY <1>8 DEF RemoveEntry, IsProxying
<1>9. ASSUME NEW c \in Callers, DecrementCount(c)
      PROVE  HolderInv'
    BY <1>9 DEF DecrementCount
<1> QED
    BY <1>1, <1>2, <1>3, <1>4, <1>5, <1>6, <1>7, <1>8, <1>9
       DEF RegistryNext, Call, Step, UpdateOutbound, SetState

\* RegistryTypeOK and SessionsHaveHolders hold of every behaviour, also when
\* two connections share an id.
THEOREM HolderInvariance == RegistrySpec => []HolderInv
BY HolderInvInit, HolderInvStep, PTL DEF RegistrySpec

\* Type correctness of the registry.
THEOREM TypeCorrect == RegistrySpec => []RegistryTypeOK
<1>1. HolderInv => RegistryTypeOK
    BY DEF HolderInv
<1> QED
    BY <1>1, HolderInvariance, PTL

\* No entry of the map outlives the connections that registered its id.
THEOREM NoOrphanSession == RegistrySpec => []SessionsHaveHolders
<1>1. HolderInv => SessionsHaveHolders
    BY DEF HolderInv
<1> QED
    BY <1>1, HolderInvariance, PTL

(***************************************************************************)
(* What the contract on ids adds: a call is not disturbed, so that the      *)
(* correction it makes is the right one.                                    *)
(***************************************************************************)

\* Nobody holds an id at first.
LEMMA UndisturbedInit == RegistryInit => EntriesUndisturbed
BY RegistryAssumption DEF RegistryInit, EntriesUndisturbed, InUpdate

\* was_proxying is what the entry said when it was read.
LEMMA ReadStateLocal ==
    ASSUME NEW c \in Callers, NEW s, RegistryTypeOK, ReadState(c, s)
    PROVE  was'[c] <=> IsProxying(held[c])
<1>1. DOMAIN was = Callers /\ was' = [was EXCEPT ![c] = IsProxying(held[c])]
    BY DEF RegistryTypeOK, ReadState
<1>2. was'[c] = IsProxying(held[c])
    BY <1>1, Zenon
<1> QED
    BY <1>2, Zenon

\* With exclusive ids no step of one caller changes the entry another has read.
LEMMA UndisturbedStep ==
    ASSUME ExclusiveIds
    PROVE  HolderInv /\ EntriesUndisturbed /\ [RegistryNext]_registryVars
             => EntriesUndisturbed'
<1> SUFFICES ASSUME HolderInv, EntriesUndisturbed, [RegistryNext]_registryVars
             PROVE  EntriesUndisturbed'
    OBVIOUS
<1> USE RegistryAssumption
    DEF HolderInv, RegistryTypeOK, CallsWellFormed, EntriesUndisturbed, InUpdate, IsProxying
<1>1. CASE UNCHANGED registryVars
    BY <1>1 DEF registryVars
<1>2. ASSUME NEW c \in Callers, NEW id \in Ids, Register(c, id)
      PROVE  EntriesUndisturbed'
    BY <1>2 DEF Register, Session
<1>3. ASSUME NEW c \in Callers, NEW s \in PlayerState, ReadState(c, s)
      PROVE  EntriesUndisturbed'
    <2>1. \A d \in Callers : held[d] = held'[d]
        BY <1>3 DEF ReadState
    <2>2. /\ sessions' = sessions /\ copy' = copy
          /\ pc'[c] = "get"
          /\ \A d \in Callers \ {c} : pc'[d] = pc[d] /\ goal'[d] = goal[d]
        BY <1>3 DEF ReadState
    <2>3. \A d \in Callers \ {c} : was'[d] = was[d]
        BY <1>3 DEF ReadState
    <2>4. was'[c] <=> (sessions[held[c]] # Absent /\ sessions[held[c]].state = "Proxying")
        BY <1>3, ReadStateLocal DEF ReadState
    <2> QED
        BY <2>1, <2>2, <2>3, <2>4
<1>4. ASSUME NEW c \in Callers, UpdateDetails(c)
      PROVE  EntriesUndisturbed'
    BY <1>4 DEF UpdateDetails
<1>5. ASSUME NEW c \in Callers, CloneSession(c)
      PROVE  EntriesUndisturbed'
    BY <1>5 DEF CloneSession, AfterUpdate
<1>6. ASSUME NEW c \in Callers, InsertClone(c)
      PROVE  EntriesUndisturbed'
    BY <1>6 DEF InsertClone, AfterUpdate, Session
<1>7. ASSUME NEW c \in Callers, AdjustCount(c)
      PROVE  EntriesUndisturbed'
    BY <1>7 DEF AdjustCount
<1>8. ASSUME NEW c \in Callers, RemoveEntry(c)
      PROVE  EntriesUndisturbed'
    BY <1>8 DEF RemoveEntry
<1>9. ASSUME NEW c \in Callers, DecrementCount(c)
      PROVE  EntriesUndisturbed'
    BY <1>9 DEF DecrementCount
<1> QED
    BY <1>1, <1>2, <1>3, <1>4, <1>5, <1>6, <1>7, <1>8, <1>9
       DEF RegistryNext, Call, Step, UpdateOutbound, SetState

(***************************************************************************)
(* The counter follows the set of online connections.                       *)
(***************************************************************************)

\* One connection, given by its step: c comes online, goes offline, or the
\* set of online connections and the counter stay as they are.
CountStep ==
    \/ OnlineCallers' = OnlineCallers /\ onlineCount' = onlineCount
    \/ \E c \in Callers \ OnlineCallers :
          OnlineCallers' = OnlineCallers \cup {c} /\ onlineCount' = onlineCount + 1
    \/ \E c \in OnlineCallers :
          OnlineCallers' = OnlineCallers \ {c} /\ onlineCount' = onlineCount - 1

\* The access to the map that makes a connection proxying does not yet count
\* it, the access to the counter does; a removal is the other way round.
LEMMA CountStepHolds ==
    ASSUME ExclusiveIds, HolderInv, EntriesUndisturbed, [RegistryNext]_registryVars
    PROVE  CountStep
<1> USE RegistryAssumption
    DEF HolderInv, RegistryTypeOK, CallsWellFormed, EntriesUndisturbed, InUpdate,
        IsProxying, OnlineCallers, Online, PendingIncrement, PendingDecrement
<1>1. CASE UNCHANGED registryVars
    BY <1>1 DEF registryVars, CountStep
<1>2. ASSUME NEW c \in Callers, NEW id \in Ids, Register(c, id)
      PROVE  CountStep
    <2>1. \A d \in Callers : Online(d)' <=> Online(d)
        BY <1>2 DEF Register, Session
    <2> QED
        BY <2>1, <1>2 DEF CountStep, Register
<1>3. ASSUME NEW c \in Callers, NEW s \in PlayerState, ReadState(c, s)
      PROVE  CountStep
    <2>1. \A d \in Callers : Online(d)' <=> Online(d)
        BY <1>3 DEF ReadState
    <2> QED
        BY <2>1, <1>3 DEF CountStep, ReadState
<1>4. ASSUME NEW c \in Callers, UpdateDetails(c)
      PROVE  CountStep
    <2>1. \A d \in Callers : Online(d)' <=> Online(d)
        BY <1>4 DEF UpdateDetails
    <2> QED
        BY <2>1, <1>4 DEF CountStep, UpdateDetails
<1>5. ASSUME NEW c \in Callers, CloneSession(c)
      PROVE  CountStep
    <2>1. \A d \in Callers : Online(d)' <=> Online(d)
        BY <1>5 DEF CloneSession, AfterUpdate
    <2> QED
        BY <2>1, <1>5 DEF CountStep, CloneSession
<1>6. ASSUME NEW c \in Callers, InsertClone(c)
      PROVE  CountStep
    <2>1. \A d \in Callers : Online(d)' <=> Online(d)
        BY <1>6 DEF InsertClone, AfterUpdate, Session
    <2> QED
        BY <2>1, <1>6 DEF CountStep, InsertClone
<1>7. ASSUME NEW c \in Callers, AdjustCount(c)
      PROVE  CountStep
    <2>1. \A d \in Callers \ {c} : Online(d)' <=> Online(d)
        BY <1>7 DEF AdjustCount
    <2>2. Online(c) <=> was[c]
        BY <1>7 DEF AdjustCount
    <2>3. Online(c)' <=> goal[c] = "Proxying"
        BY <1>7 DEF AdjustCount
    <2>4. CASE was[c] <=> goal[c] = "Proxying"
        BY <2>1, <2>2, <2>3, <2>4, <1>7 DEF CountStep, AdjustCount, Correction
    <2>5. CASE ~was[c] /\ goal[c] = "Proxying"
        BY <2>1, <2>2, <2>3, <2>5, <1>7 DEF CountStep, AdjustCount, Correction
    <2>6. CASE was[c] /\ goal[c] # "Proxying"
        <3>1. onlineCount' = onlineCount - 1
            BY <2>6, <1>7 DEF AdjustCount, Correction
        <3>2. OnlineCallers' = OnlineCallers \ {c} /\ c \in OnlineCallers
            BY <2>1, <2>2, <2>3, <2>6
        <3> QED
            BY <3>1, <3>2, Zenon DEF CountStep
    <2> QED
        BY <2>4, <2>5, <2>6
<1>8. ASSUME NEW c \in Callers, RemoveEntry(c)
      PROVE  CountStep
    <2>1. \A d \in Callers : Online(d)' <=> Online(d)
        BY <1>8 DEF RemoveEntry
    <2> QED
        BY <2>1, <1>8 DEF CountStep, RemoveEntry
<1>9. ASSUME NEW c \in Callers, DecrementCount(c)
      PROVE  CountStep
    <2>1. \A d \in Callers \ {c} : Online(d)' <=> Online(d)
        BY <1>9 DEF DecrementCount
    <2>2. Online(c) /\ ~Online(c)'
        BY <1>9 DEF DecrementCount
    <2> QED
        BY <2>1, <2>2, <1>9 DEF CountStep, DecrementCount
<1> QED
    BY <1>1, <1>2, <1>3, <1>4, <1>5, <1>6, <1>7, <1>8, <1>9
       DEF RegistryNext, Call, Step, UpdateOutbound, SetState

\* The set of online connections is finite, so that its size is a number.
LEMMA OnlineFinite == IsFiniteSet(OnlineCallers) /\ Cardinality(OnlineCallers) \in Nat
<1>1. OnlineCallers \in SUBSET Callers
    BY DEF OnlineCallers
<1> QED
    BY <1>1, FS_Subset, FS_CardinalityType, RegistryAssumption

\* At first nobody is online and the counter is zero.
LEMMA OnlineInit == RegistryInit => OnlineCallers = {} /\ OnlineCountExact
<1> SUFFICES ASSUME RegistryInit
             PROVE  OnlineCallers = {} /\ OnlineCountExact
    OBVIOUS
<1>1. OnlineCallers = {}
    BY DEF RegistryInit, OnlineCallers, Online, PendingDecrement
<1> QED
    BY <1>1, FS_EmptySet DEF RegistryInit, OnlineCountExact

\* A counted step keeps the counter equal to the size of the set.
LEMMA CountStepExact ==
    ASSUME OnlineCountExact, CountStep
    PROVE  OnlineCountExact'
<1>1. CASE OnlineCallers' = OnlineCallers /\ onlineCount' = onlineCount
    BY <1>1 DEF OnlineCountExact
<1>2. ASSUME NEW c \in Callers \ OnlineCallers,
             OnlineCallers' = OnlineCallers \cup {c}, onlineCount' = onlineCount + 1
      PROVE  OnlineCountExact'
    <2>1. Cardinality(OnlineCallers \cup {c}) = Cardinality(OnlineCallers) + 1
        BY OnlineFinite, FS_AddElement
    <2> QED
        BY <1>2, <2>1 DEF OnlineCountExact
<1>3. ASSUME NEW c \in OnlineCallers,
             OnlineCallers' = OnlineCallers \ {c}, onlineCount' = onlineCount - 1
      PROVE  OnlineCountExact'
    <2>1. Cardinality(OnlineCallers \ {c}) = Cardinality(OnlineCallers) - 1
        BY OnlineFinite, FS_RemoveElement
    <2> QED
        BY <1>3, <2>1 DEF OnlineCountExact
<1> QED
    BY <1>1, <1>2, <1>3 DEF CountStep

\* RegistryInv is inductive.
THEOREM RegistryInvariance ==
    ASSUME ExclusiveIds
    PROVE  RegistrySpec => []RegistryInv
<1>1. RegistryInit => RegistryInv
    BY HolderInvInit, UndisturbedInit, OnlineInit DEF RegistryInv, HolderInv
<1>2. RegistryInv /\ [RegistryNext]_registryVars => RegistryInv'
    BY HolderInvStep, UndisturbedStep, CountStepHolds, CountStepExact
       DEF RegistryInv, HolderInv
<1> QED
    BY <1>1, <1>2, PTL DEF RegistrySpec

\* The online count shown to players and sent to the API is exact: it is the
\* number of connections counted in and not yet out.
THEOREM CountIsExact ==
    ASSUME ExclusiveIds
    PROVE  RegistrySpec => []OnlineCountExact
<1>1. RegistryInv => OnlineCountExact
    BY DEF RegistryInv
<1> QED
    BY <1>1, RegistryInvariance, PTL

\* Nothing happens to the entry of a connection between two accesses of its
\* own call, so that what the call read is still true when it acts on it.
THEOREM CallsAreUndisturbed ==
    ASSUME ExclusiveIds
    PROVE  RegistrySpec => []EntriesUndisturbed
<1>1. RegistryInv => EntriesUndisturbed
    BY DEF RegistryInv
<1> QED
    BY <1>1, RegistryInvariance, PTL

\* The registry implements a set of players with its size published.
THEOREM RegistryImplementsOnlineCount ==
    ASSUME ExclusiveIds
    PROVE  RegistrySpec => ImplementsOnlineCount
<1>1. RegistryInit => Published!Init
    BY OnlineInit DEF RegistryInit, Published!Init
<1>2. RegistryInv /\ RegistryInv' /\ [RegistryNext]_registryVars
        => [Published!Next]_(Published!vars)
    <2> SUFFICES ASSUME RegistryInv, RegistryInv', [RegistryNext]_registryVars
                 PROVE  [Published!Next]_(Published!vars)
        OBVIOUS
    <2>1. CountStep
        BY CountStepHolds DEF RegistryInv, HolderInv
    <2>2. onlineCount' = Cardinality(OnlineCallers')
        BY DEF RegistryInv, OnlineCountExact
    <2>3. CASE OnlineCallers' = OnlineCallers /\ onlineCount' = onlineCount
        BY <2>3 DEF Published!vars
    <2>4. ASSUME NEW c \in Callers \ OnlineCallers, OnlineCallers' = OnlineCallers \cup {c}
          PROVE  Published!Next
        BY <2>2, <2>4 DEF Published!Next, Published!Arrive, Published!Cardinality, Cardinality
    <2>5. ASSUME NEW c \in OnlineCallers, OnlineCallers' = OnlineCallers \ {c}
          PROVE  Published!Next
        <3>1. c \in Callers
            BY DEF OnlineCallers
        <3> QED
            BY <2>2, <2>5, <3>1 DEF Published!Next, Published!Leave, Published!Cardinality, Cardinality
    <2> QED
        BY <2>1, <2>3, <2>4, <2>5 DEF CountStep
<1> QED
    BY <1>1, <1>2, RegistryInvariance, PTL
       DEF RegistrySpec, ImplementsOnlineCount, Published!Spec

(***************************************************************************)
(* The counter and the map.                                                 *)
(***************************************************************************)

ProxyingCallers == {c \in Callers : held[c] # NoId /\ IsProxying(held[c])}

\* Exclusive ids make held a bijection from the callers whose entry is
\* proxying to the proxying entries.
LEMMA ProxyingEntriesCounted ==
    ASSUME RegistryInv
    PROVE  /\ IsFiniteSet(ProxyingCallers)
           /\ Cardinality(ProxyingIds) = Cardinality(ProxyingCallers)
<1> DEFINE f == [c \in ProxyingCallers |-> held[c]]
<1>1. IsFiniteSet(ProxyingCallers)
    <2>1. ProxyingCallers \in SUBSET Callers
        BY DEF ProxyingCallers
    <2> QED
        BY <2>1, FS_Subset, RegistryAssumption
<1>2. f \in [ProxyingCallers -> ProxyingIds]
    BY DEF ProxyingCallers, ProxyingIds, RegistryInv, RegistryTypeOK
<1>3. \A c, d \in ProxyingCallers : f[c] = f[d] => c = d
    BY DEF ProxyingCallers, RegistryInv, EntriesUndisturbed
<1>4. \A id \in ProxyingIds : \E c \in ProxyingCallers : f[c] = id
    BY RegistryAssumption
       DEF ProxyingCallers, ProxyingIds, RegistryInv, SessionsHaveHolders, IsProxying
<1>5. f \in Bijection(ProxyingCallers, ProxyingIds)
    BY <1>2, <1>3, <1>4 DEF Bijection, Injection, Surjection, IsInjective
<1> QED
    BY <1>1, <1>5, FS_Bijection DEF ExistsBijection

\* The counter is the number of proxying entries but for the corrections
\* under way.
THEOREM CountFollowsMap ==
    ASSUME ExclusiveIds
    PROVE  RegistrySpec => []CountMatchesMap
<1> DEFINE P == ProxyingCallers
           I == {c \in Callers : PendingIncrement(c)}
           D == {c \in Callers : PendingDecrement(c)}
<1>1. RegistryInv => CountMatchesMap
    <2> SUFFICES ASSUME RegistryInv
                 PROVE  CountMatchesMap
        OBVIOUS
    <2>1. I \subseteq P
        BY DEF PendingIncrement, ProxyingCallers, RegistryInv, EntriesUndisturbed, CallsWellFormed
    <2>2. D \cap P = {}
        BY DEF PendingDecrement, ProxyingCallers, RegistryInv, EntriesUndisturbed, CallsWellFormed
    <2>3. OnlineCallers = (P \ I) \cup D
        BY DEF OnlineCallers, Online, ProxyingCallers
    <2>4. IsFiniteSet(P) /\ IsFiniteSet(I) /\ IsFiniteSet(D)
        <3>1. I \in SUBSET Callers /\ D \in SUBSET Callers
            OBVIOUS
        <3> QED
            BY <3>1, ProxyingEntriesCounted, FS_Subset, RegistryAssumption
    <2>5. Cardinality(P \ I) = Cardinality(P) - Cardinality(I) /\ IsFiniteSet(P \ I)
        <3>1. P \cap I = I
            BY <2>1
        <3> QED
            BY <3>1, <2>4, FS_Difference
    <2>6. Cardinality(OnlineCallers) = Cardinality(P \ I) + Cardinality(D)
        <3>1. (P \ I) \cap D = {}
            BY <2>2
        <3>2. Cardinality((P \ I) \cup D)
                = Cardinality(P \ I) + Cardinality(D) - Cardinality((P \ I) \cap D)
            BY <2>4, <2>5, FS_Union
        <3>3. Cardinality(P \ I) \in Nat /\ Cardinality(D) \in Nat
            BY <2>4, <2>5, FS_CardinalityType
        <3> QED
            BY <2>3, <3>1, <3>2, <3>3, FS_EmptySet
    <2>7. Cardinality(P) \in Nat /\ Cardinality(I) \in Nat /\ Cardinality(D) \in Nat
        BY <2>4, FS_CardinalityType
    <2>8. onlineCount = Cardinality(P) - Cardinality(I) + Cardinality(D)
        BY <2>5, <2>6, <2>7 DEF RegistryInv, OnlineCountExact
    <2> HIDE DEF P, I, D
    <2>9. onlineCount + Cardinality(I) = Cardinality(P) + Cardinality(D)
        BY <2>7, <2>8
    <2> QED
        BY <2>9, ProxyingEntriesCounted DEF CountMatchesMap, P, I, D
<1> QED
    BY <1>1, RegistryInvariance, PTL
=============================================================================
