--------------------------- MODULE Transport_proofs ---------------------------
(***************************************************************************)
(* Proofs about Transport for any set of connections, ids and bytes: the    *)
(* handlers use the registry as it allows, finalization leaves nothing      *)
(* behind, and totals, closed events and the online count are right.        *)
(*                                                                          *)
(* The theorems on the registry are taken over twice: Any is the registry   *)
(* as Transport uses it; Exclusive is the registry under the contract that  *)
(* ids are exclusive, which the steps of Transport keep as long as no id    *)
(* was granted twice.                                                       *)
(***************************************************************************)
EXTENDS Transport, FiniteSetTheorems, TLAPS

Any == INSTANCE Registry_proofs WITH Callers <- Conns, ExclusiveIds <- UniqueIds, pc <- rpc
Exclusive == INSTANCE Registry_proofs WITH Callers <- Conns, ExclusiveIds <- TRUE, pc <- rpc

-----------------------------------------------------------------------------
(* The registry and its instances *)

\* What is assumed of the registry's constants here is what it assumes.
LEMMA ConstantsFit == Any!RegistryAssumption /\ Exclusive!RegistryAssumption
BY RegistryConstants
   DEF R!Session, Any!Session, Exclusive!Session, R!IsFiniteSet, Any!IsFiniteSet,
       Exclusive!IsFiniteSet, IsFiniteSet

\* The registry's invariant of types and holders is the same in both.
LEMMA SameHolderInv ==
    /\ Any!HolderInv <=> Exclusive!HolderInv
    /\ Any!HolderInv => R!RegistryTypeOK /\ R!CallsWellFormed /\ R!SessionsHaveHolders
BY DEF Any!HolderInv, Any!RegistryTypeOK, Any!CallsWellFormed, Any!SessionsHaveHolders,
       Any!Session, Any!Steps,
       Exclusive!HolderInv, Exclusive!RegistryTypeOK, Exclusive!CallsWellFormed,
       Exclusive!SessionsHaveHolders, Exclusive!Session, Exclusive!Steps,
       R!RegistryTypeOK, R!CallsWellFormed, R!SessionsHaveHolders, R!Session, R!Steps

\* So are its types after a step.
LEMMA RegistryTypesNext == Any!HolderInv' => R!RegistryTypeOK'
BY DEF Any!HolderInv, Any!RegistryTypeOK, Any!Session, Any!Steps,
       R!RegistryTypeOK, R!Session, R!Steps

\* A step of the registry is one of its instance.
LEMMA AnyStep == [R!RegistryNext]_registryVars => [Any!RegistryNext]_(Any!registryVars)
BY DEF registryVars, Any!registryVars,
       R!RegistryNext, R!Call, R!Step, R!Register, R!UpdateOutbound, R!SetState, R!ReadState,
       R!UpdateDetails, R!RemoveEntry, R!CloneSession, R!InsertClone, R!AdjustCount,
       R!DecrementCount, R!AfterUpdate, R!Correction, R!IsProxying,
       Any!RegistryNext, Any!Call, Any!Step, Any!Register, Any!UpdateOutbound, Any!SetState,
       Any!ReadState, Any!UpdateDetails, Any!RemoveEntry, Any!CloneSession, Any!InsertClone,
       Any!AdjustCount, Any!DecrementCount, Any!AfterUpdate, Any!Correction, Any!IsProxying

-----------------------------------------------------------------------------
(* Where a connection is, and what it holds *)

\* Before a login is allowed there is no route, before the registration no id.
Early == {"waiting", "firstByte", "handshake", "magic", "motd", "loginStart", "join", "kick"}
NoIdYet == Early \cup {"route"}
Registered == {"outbound", "updating", "connect", "hello", "relay", "hook", "settleUp",
               "settleDown", "unregister"}

\* Where its call of the registry can be, by its stage.
CallAt(c) ==
    CASE stage[c] = "outbound" -> {"registered"}
      [] stage[c] = "updating" -> {"registered", "get", "insert", "adjust"}
      [] stage[c] = "removing" -> {"idle", "decrement"}
      [] stage[c] \in Registered \ {"outbound", "updating"} ->
            {IF connId[c] = NoId THEN "idle" ELSE "registered"}
      [] OTHER -> {"idle"}

\* The inductive invariant of one connection.
RouteInv(c) ==
    /\ stage[c] \in Early => route[c] = NoId
    /\ connId[c] = IF stage[c] \in NoIdYet THEN NoId ELSE route[c]
    /\ stage[c] \in {"outbound", "updating"} => connId[c] # NoId

CallInv(c) ==
    /\ held[c] = IF stage[c] \in Registered THEN connId[c] ELSE NoId
    /\ rpc[c] \in CallAt(c)

TrafficInv(c) ==
    /\ stage[c] \notin {"relay", "done"} \cup Finalizing => traffic[c] = NoTraffic
    /\ stage[c] \in {"done"} \cup Finalizing => report[c] = traffic[c]
    /\ closed[c] # NoReport =>
          Past(c) /\ closed[c] = [id |-> connId[c], traffic |-> traffic[c]]

OneConnInv(c) == RouteInv(c) /\ CallInv(c) /\ TrafficInv(c)
ConnInv == \A c \in Conns : OneConnInv(c)

\* A record in the reporter's map is of a connection with that id that has
\* still to finish.
ActiveInv ==
    \A id \in Ids : active[id] # Absent =>
        connId[active[id]] = id /\ stage[active[id]] \in {"hello", "relay", "hook"}

\* A connection that was put into the map is there under its id until a hook,
\* its own or that of another connection with the id, sends the closed event.
OnRecord(c) ==
    /\ connId[c] # NoId
    /\ stage[c] \in {"hello", "relay", "hook"} \/ Past(c)
    /\ \/ ~Past(c) /\ active[connId[c]] # Absent
       \/ \E d \in Conns : closed[d] # NoReport /\ connId[d] = connId[c]

RecordedInv == \A c \in recorded : OnRecord(c)

\* What one task does leaves the others alone, but for the registry's entries
\* and the reporter's map.
LEMMA OthersUntouched ==
    ASSUME TypeOK, NEW c \in Conns, Accept(c) \/ Await(c) \/ Compute(c),
           NEW d \in Conns, d # c
    PROVE  /\ stage'[d] = stage[d] /\ connId'[d] = connId[d] /\ route'[d] = route[d]
           /\ traffic'[d] = traffic[d] /\ report'[d] = report[d] /\ closed'[d] = closed[d]
           /\ rpc'[d] = rpc[d] /\ held'[d] = held[d] /\ goal'[d] = goal[d]
<1> USE DEF TypeOK, R!RegistryTypeOK, Go, Resume
<1>1. CASE Accept(c)
  BY <1>1 DEF Accept, sessionVars, resultVars, sharedVars, registryVars
<1>2. CASE Await(c)
  BY <1>2
     DEF Await, LegacyPing, FirstByte, MagicHandshake, StatusHandshake, LoginHandshake,
         MagicServed, MotdServed, LoginStart, JoinAllow, JoinUnusable, JoinDeny, Kicked,
         Connected, HelloSent, RelayByte, RelayDone, Fail, End, EndEmpty, EndWithTraffic,
         sessionVars, resultVars, sharedVars, registryVars
<1>3. CASE Compute(c)
  BY <1>3
     DEF Compute, Unencodable, RouteAnonymous, RouteRegister, RouteOutbound, RouteUpdate,
         RouteUpdated, FinishHook, SettleUpload, SettleDownload, Settle, UnregisterNothing,
         Unregister, Unregistered, End, EndWithTraffic,
         R!Register, R!UpdateOutbound, R!ReadState, R!Step, R!CloneSession, R!InsertClone,
         R!AdjustCount, R!RemoveEntry, R!DecrementCount,
         sessionVars, resultVars, sharedVars, registryVars
<1> QED  BY <1>1, <1>2, <1>3

\* A task uses the registry only by the calls it offers.
LEMMA RegistryUse ==
    ASSUME TypeOK, [Next]_vars
    PROVE  [R!RegistryNext]_registryVars
<1>1. CASE Stop \/ UNCHANGED vars
  BY <1>1 DEF Stop, vars, registryVars
<1>2. ASSUME NEW c \in Conns, Accept(c) \/ Await(c)
      PROVE  UNCHANGED registryVars
  BY <1>2
     DEF Accept, Await, LegacyPing, FirstByte, MagicHandshake, StatusHandshake, LoginHandshake,
         MagicServed, MotdServed, LoginStart, JoinAllow, JoinUnusable, JoinDeny, Kicked,
         Connected, HelloSent, RelayByte, RelayDone, Fail, EndEmpty, EndWithTraffic
<1>3. ASSUME NEW c \in Conns, Compute(c)
      PROVE  [R!Call(c) \/ R!Step(c)]_registryVars
  <2>1. ASSUME RouteRegister(c) PROVE R!Call(c)
    BY <2>1 DEF RouteRegister, R!Call, TypeOK
  <2>2. CASE RouteOutbound(c) \/ RouteUpdate(c) \/ Unregister(c) \/ Unregistered(c)
    BY <2>2 DEF RouteOutbound, RouteUpdate, Unregister, Unregistered, R!Call, R!Step
  <2>3. CASE \/ Unencodable(c) \/ RouteAnonymous(c) \/ RouteUpdated(c) \/ FinishHook(c)
             \/ SettleUpload(c) \/ SettleDownload(c) \/ UnregisterNothing(c)
    BY <2>3 DEF Unencodable, RouteAnonymous, RouteUpdated, FinishHook, SettleUpload,
                SettleDownload, Settle, UnregisterNothing, EndWithTraffic
  <2> QED  BY <1>3, <2>1, <2>2, <2>3 DEF Compute
<1> QED  BY <1>1, <1>2, <1>3 DEF Next, R!RegistryNext

\* The end of a handler keeps the types.
LEMMA EndTypes ==
    ASSUME TypeOK, R!RegistryTypeOK', NEW c \in Conns, NEW s, NEW t \in [Dirs -> 0 .. MaxBytes],
           NEW result \in {"Completed", "Handled", "Failed"}, End(c, s, result),
           report' = [report EXCEPT ![c] = t], UNCHANGED <<running, sessionVars, sharedVars>>
    PROVE  TypeOK'
<1>1. report' \in [Conns -> [Dirs -> 0 .. MaxBytes]]
  BY DEF TypeOK
<1>2. stage' \in [Conns -> Stages] /\ outcome' \in [Conns -> {"none", "Completed", "Handled", "Failed"}]
  BY DEF TypeOK, End, Stages, Running
<1> QED  BY <1>1, <1>2 DEF TypeOK, sessionVars, sharedVars

\* Every step keeps the types.
LEMMA TypeStep ==
    ASSUME TypeOK, Any!HolderInv', [Next]_vars
    PROVE  TypeOK'
<1> USE DEF Dirs, Stages, Awaiting, Running, Go, Resume
<1>1. R!RegistryTypeOK'
  BY RegistryTypesNext
<1>2. NoTraffic \in [Dirs -> 0 .. MaxBytes]
  BY TransportAssumption DEF NoTraffic
<1>3. CASE UNCHANGED vars
  BY <1>1, <1>3 DEF TypeOK, vars, sessionVars, resultVars, sharedVars
<1>4. CASE Stop
  BY <1>1, <1>4 DEF TypeOK, Stop, sessionVars, resultVars, sharedVars
<1>5. ASSUME NEW c \in Conns, Accept(c) \/ Await(c) PROVE TypeOK'
  <2>1. CASE Accept(c) \/ LegacyPing(c) \/ FirstByte(c) \/ MagicHandshake(c)
             \/ StatusHandshake(c) \/ LoginHandshake(c) \/ LoginStart(c) \/ JoinDeny(c)
             \/ HelloSent(c)
    BY <1>1, <2>1
       DEF TypeOK, Accept, LegacyPing, FirstByte, MagicHandshake, StatusHandshake,
           LoginHandshake, LoginStart, JoinDeny, HelloSent, sessionVars, resultVars, sharedVars
  <2>2. CASE MagicServed(c) \/ MotdServed(c) \/ Kicked(c)
    BY <1>1, <1>2, <2>2, EndTypes DEF MagicServed, MotdServed, Kicked, EndEmpty
  <2>3. CASE JoinUnusable(c) \/ RelayDone(c) \/ Fail(c)
    <3>1. traffic[c] \in [Dirs -> 0 .. MaxBytes]
      BY DEF TypeOK
    <3> QED  BY <1>1, <2>3, <3>1, EndTypes DEF JoinUnusable, RelayDone, Fail, EndWithTraffic
  <2>4. ASSUME NEW id \in Ids \cup {NoId}, JoinAllow(c, id) PROVE TypeOK'
    BY <1>1, <2>4 DEF TypeOK, JoinAllow, resultVars, sharedVars
  <2>5. CASE Connected(c)
    BY <1>1, <2>5 DEF TypeOK, Connected, sessionVars, resultVars
  <2>6. ASSUME NEW d \in Dirs, RelayByte(c, d) PROVE TypeOK'
    <3>1. traffic[c][d] + 1 \in 0 .. MaxBytes
      BY <2>6, TransportAssumption DEF TypeOK, RelayByte
    <3>2. traffic' \in [Conns -> [Dirs -> 0 .. MaxBytes]]
      BY <2>6, <3>1 DEF TypeOK, RelayByte
    <3> QED  BY <1>1, <2>6, <3>2 DEF TypeOK, RelayByte, resultVars, sharedVars
  <2> QED  BY <1>5, <2>1, <2>2, <2>3, <2>4, <2>5, <2>6 DEF Await
<1>6. ASSUME NEW c \in Conns, Compute(c) PROVE TypeOK'
  <2>1. CASE \/ RouteAnonymous(c) \/ RouteRegister(c) \/ RouteOutbound(c) \/ RouteUpdate(c)
             \/ RouteUpdated(c) \/ UnregisterNothing(c) \/ Unregister(c) \/ Unregistered(c)
    BY <1>1, <2>1
       DEF TypeOK, RouteAnonymous, RouteRegister, RouteOutbound, RouteUpdate,
           RouteUpdated, UnregisterNothing, Unregister, Unregistered,
           sessionVars, resultVars, sharedVars
  <2>4. CASE Unencodable(c)
    <3>1. traffic[c] \in [Dirs -> 0 .. MaxBytes]
      BY DEF TypeOK
    <3> QED  BY <1>1, <2>4, <3>1, EndTypes DEF Unencodable, EndWithTraffic
  <2>2. CASE FinishHook(c)
    <3> HIDE DEF Dirs
    <3>1. [id |-> connId[c], traffic |-> report[c]]
            \in [id : Ids \cup {NoId}, traffic : [Dirs -> 0 .. MaxBytes]]
      BY DEF TypeOK
    <3>2. closed' \in [Conns -> [id : Ids \cup {NoId}, traffic : [Dirs -> 0 .. MaxBytes]]]
      BY <2>2, <3>1 DEF TypeOK, FinishHook
    <3>3. active' \in [Ids -> Conns \cup {Absent}]
      BY <2>2 DEF TypeOK, FinishHook
    <3> QED  BY <1>1, <2>2, <3>2, <3>3 DEF TypeOK, FinishHook, sessionVars, resultVars
  <2>3. CASE SettleUpload(c) \/ SettleDownload(c)
    <3>1. settled' \in [Dirs -> Nat]
      BY <2>3 DEF TypeOK, SettleUpload, SettleDownload, Settle
    <3> QED  BY <1>1, <2>3, <3>1
                DEF TypeOK, SettleUpload, SettleDownload, Settle, sessionVars, resultVars
  <2> QED  BY <1>6, <2>1, <2>2, <2>3, <2>4 DEF Compute
<1> QED  BY <1>3, <1>4, <1>5, <1>6 DEF Next

\* What concerns one connection depends on its own variables.
LEMMA UntouchedInv ==
    ASSUME NEW d \in Conns, OneConnInv(d),
           stage'[d] = stage[d], connId'[d] = connId[d], route'[d] = route[d],
           traffic'[d] = traffic[d], report'[d] = report[d], closed'[d] = closed[d],
           rpc'[d] = rpc[d], held'[d] = held[d]
    PROVE  OneConnInv(d)'
<1>1. RouteInv(d)'
  BY DEF OneConnInv, RouteInv
<1>2. CallInv(d)'
  BY DEF OneConnInv, CallInv, CallAt
<1>3. TrafficInv(d)'
  BY DEF OneConnInv, TrafficInv, Past
<1> QED  BY <1>1, <1>2, <1>3 DEF OneConnInv

\* A step before the hook keeps what is known of its connection.
LEMMA AwaitInv ==
    ASSUME TypeOK, NEW c \in Conns, OneConnInv(c), Accept(c) \/ Await(c)
    PROVE  OneConnInv(c)'
<1> USE DEF TypeOK, R!RegistryTypeOK, OneConnInv, RouteInv, CallInv, CallAt, TrafficInv, Past,
            Early, NoIdYet, Registered, Finalizing, Awaiting, Go, Resume, End
<1>1. CASE Accept(c) \/ LegacyPing(c) \/ FirstByte(c) \/ MagicHandshake(c)
           \/ StatusHandshake(c) \/ LoginHandshake(c) \/ LoginStart(c) \/ JoinDeny(c)
  BY <1>1 DEF Accept, LegacyPing, FirstByte, MagicHandshake, StatusHandshake, LoginHandshake,
              LoginStart, JoinDeny, sessionVars, resultVars, sharedVars, registryVars
<1>2. CASE MagicServed(c) \/ MotdServed(c) \/ Kicked(c)
  BY <1>2 DEF MagicServed, MotdServed, Kicked, EndEmpty, sessionVars, sharedVars, registryVars
<1>3. CASE JoinUnusable(c) \/ RelayDone(c)
  BY <1>3 DEF JoinUnusable, RelayDone, EndWithTraffic, sessionVars, sharedVars, registryVars
<1>4. CASE Fail(c)
  BY <1>4 DEF Fail, EndWithTraffic, sessionVars, sharedVars, registryVars
<1>5. ASSUME NEW id \in Ids \cup {NoId}, JoinAllow(c, id) PROVE OneConnInv(c)'
  BY <1>5 DEF JoinAllow, resultVars, sharedVars, registryVars
<1>6. CASE Connected(c) \/ HelloSent(c)
  BY <1>6 DEF Connected, HelloSent, sessionVars, resultVars, sharedVars, registryVars
<1>7. ASSUME NEW d \in Dirs, RelayByte(c, d) PROVE OneConnInv(c)'
  BY <1>7 DEF RelayByte, resultVars, sharedVars, registryVars
<1> QED  BY <1>1, <1>2, <1>3, <1>4, <1>5, <1>6, <1>7 DEF Await

\* So does a step between two awaits.
LEMMA ComputeInv ==
    ASSUME TypeOK, NEW c \in Conns, OneConnInv(c), Compute(c)
    PROVE  OneConnInv(c)'
<1> USE DEF TypeOK, R!RegistryTypeOK, OneConnInv, RouteInv, CallInv, CallAt, TrafficInv, Past,
            Early, NoIdYet, Registered, Finalizing, Go, End
<1>1. CASE Unencodable(c)
  BY <1>1 DEF Unencodable, EndWithTraffic, sessionVars, sharedVars, registryVars
<1>2. CASE RouteAnonymous(c)
  BY <1>2 DEF RouteAnonymous, sessionVars, resultVars, sharedVars, registryVars
<1>3. CASE RouteRegister(c)
  BY <1>3 DEF RouteRegister, R!Register, resultVars, sharedVars
<1>4. CASE RouteOutbound(c)
  BY <1>4 DEF RouteOutbound, R!UpdateOutbound, R!ReadState, sessionVars, resultVars, sharedVars
<1>5. CASE RouteUpdate(c)
  BY <1>5 DEF RouteUpdate, R!Step, R!CloneSession, R!InsertClone, R!AdjustCount,
              R!DecrementCount, R!AfterUpdate, sessionVars, resultVars, sharedVars
<1>6. CASE RouteUpdated(c)
  BY <1>6 DEF RouteUpdated, sessionVars, resultVars, sharedVars, registryVars
<1>7. CASE FinishHook(c)
  BY <1>7 DEF FinishHook, sessionVars, resultVars, registryVars
<1>8. CASE SettleUpload(c) \/ SettleDownload(c)
  BY <1>8 DEF SettleUpload, SettleDownload, Settle, sessionVars, resultVars, registryVars
<1>9. CASE UnregisterNothing(c)
  BY <1>9 DEF UnregisterNothing, sessionVars, resultVars, sharedVars, registryVars
<1>10. CASE Unregister(c)
  BY <1>10 DEF Unregister, R!RemoveEntry, sessionVars, resultVars, sharedVars
<1>11. CASE Unregistered(c)
  BY <1>11 DEF Unregistered, R!DecrementCount, sessionVars, resultVars, sharedVars, registryVars
<1> QED  BY <1>1, <1>2, <1>3, <1>4, <1>5, <1>6, <1>7, <1>8, <1>9, <1>10, <1>11 DEF Compute

\* Every step keeps what is known of every connection.
LEMMA ConnStep ==
    ASSUME TypeOK, ConnInv, [Next]_vars
    PROVE  ConnInv'
<1>1. ASSUME NEW c \in Conns, Accept(c) \/ Await(c) \/ Compute(c) PROVE ConnInv'
  <2>1. OneConnInv(c)'
    BY <1>1, AwaitInv, ComputeInv DEF ConnInv
  <2>2. ASSUME NEW d \in Conns, d # c PROVE OneConnInv(d)'
    BY <1>1, <2>2, OthersUntouched, UntouchedInv DEF ConnInv
  <2> QED  BY <2>1, <2>2 DEF ConnInv
<1>2. ASSUME Stop \/ UNCHANGED vars PROVE ConnInv'
  <2> SUFFICES ASSUME NEW d \in Conns PROVE OneConnInv(d)'
    BY DEF ConnInv
  <2> QED  BY <1>2, UntouchedInv
              DEF ConnInv, Stop, vars, sessionVars, resultVars, sharedVars, registryVars
<1> QED  BY <1>1, <1>2 DEF Next

\* Only a connection that reaches its upstream enters the reporter's map, and
\* only the finish hook of one with that id takes it out.
LEMMA ActiveStep ==
    ASSUME TypeOK, ConnInv, ActiveInv, [Next]_vars
    PROVE  ActiveInv'
<1> DEFINE Open == {"hello", "relay", "hook"}
<1>1. ASSUME active' = active,
             \A d \in Conns : stage[d] \in Open => stage'[d] \in Open /\ connId'[d] = connId[d]
      PROVE  ActiveInv'
  BY <1>1 DEF ActiveInv, TypeOK
<1>2. CASE Stop \/ UNCHANGED vars
  BY <1>1, <1>2 DEF Stop, vars, sessionVars, sharedVars
<1>3. ASSUME NEW c \in Conns, Accept(c) \/ Await(c) PROVE ActiveInv'
  <2>1. CASE Connected(c)
    <3>1. connId[c] = route[c] /\ stage'[c] = "hello" /\ stage[c] \notin Open
      BY <2>1 DEF Connected, Resume, Go, TypeOK, ConnInv, OneConnInv, RouteInv, NoIdYet, Early
    <3> QED  BY <2>1, <3>1 DEF Connected, Resume, Go, ActiveInv, TypeOK, sessionVars
  <2>2. CASE ~Connected(c)
    <3> SUFFICES /\ active' = active
                 /\ \A d \in Conns :
                      stage[d] \in Open => stage'[d] \in Open /\ connId'[d] = connId[d]
      BY <1>1
    <3> QED
      BY <1>3, <2>2
         DEF Accept, Await, LegacyPing, FirstByte, MagicHandshake, StatusHandshake, LoginHandshake,
             MagicServed, MotdServed, LoginStart, JoinAllow, JoinUnusable, JoinDeny, Kicked,
             HelloSent, RelayByte, RelayDone, Fail, EndEmpty, EndWithTraffic, End, Resume, Go,
             TypeOK, sessionVars, resultVars, sharedVars
  <2> QED  BY <2>1, <2>2
<1>4. ASSUME NEW c \in Conns, Compute(c) PROVE ActiveInv'
  <2>1. CASE FinishHook(c)
    <3>1. \A d \in Conns \ {c} : stage'[d] = stage[d]
      BY <2>1 DEF FinishHook, Go, TypeOK
    <3>2. \A id \in Ids : active'[id] # Absent => active'[id] = active[id] /\ id # connId[c]
      BY <2>1, RegistryConstants DEF FinishHook, TypeOK, R!RegistryAssumption
    <3>3. connId' = connId /\ active' \in [Ids -> Conns \cup {Absent}]
      BY <2>1 DEF FinishHook, TypeOK, sessionVars
    <3>4. ASSUME NEW id \in Ids, active'[id] # Absent
          PROVE  connId[active[id]] = id /\ stage'[active[id]] \in Open /\ active'[id] = active[id]
      <4>1. active[id] \in Conns \ {c} /\ connId[active[id]] = id
        BY <3>2, <3>4 DEF ActiveInv, TypeOK
      <4> QED  BY <3>1, <3>2, <3>4, <4>1 DEF ActiveInv
    <3> QED  BY <3>3, <3>4 DEF ActiveInv
  <2>2. CASE RouteRegister(c)
    BY <1>1, <2>2 DEF RouteRegister, Go, TypeOK, sharedVars
  <2>3. CASE \/ Unencodable(c) \/ RouteAnonymous(c) \/ RouteOutbound(c) \/ RouteUpdate(c)
             \/ RouteUpdated(c) \/ SettleUpload(c) \/ SettleDownload(c)
             \/ UnregisterNothing(c) \/ Unregister(c) \/ Unregistered(c)
    <3> SUFFICES /\ active' = active
                 /\ \A d \in Conns :
                      stage[d] \in Open => stage'[d] \in Open /\ connId'[d] = connId[d]
      BY <1>1
    <3> QED
      BY <2>3
         DEF Unencodable, RouteAnonymous, RouteOutbound, RouteUpdate, RouteUpdated, SettleUpload,
             SettleDownload, Settle, UnregisterNothing, Unregister, Unregistered,
             EndWithTraffic, End, Go, TypeOK, sessionVars, resultVars, sharedVars
  <2> QED  BY <1>4, <2>1, <2>2, <2>3 DEF Compute
<1> QED  BY <1>2, <1>3, <1>4 DEF Next

\* Only the connect puts a connection on record, and only the hook of one with
\* its id takes it off, which sends the closed event.
LEMMA RecordedStep ==
    ASSUME TypeOK, ConnInv, RecordedInv, [Next]_vars
    PROVE  RecordedInv'
<1> USE DEF TypeOK
<1> DEFINE Open == {"hello", "relay", "hook"}
\* Events stay, and so do the ids of those that sent them.
<1>1. \A d \in Conns : closed[d] # NoReport => Past(d)
  BY DEF ConnInv, OneConnInv, TrafficInv
<1>2. ASSUME UNCHANGED <<active, recorded, closed>>,
             \A d \in Conns : stage[d] \in Open \/ Past(d) => connId'[d] = connId[d],
             \A d \in Conns : stage[d] \in Open => stage'[d] \in Open,
             \A d \in Conns : Past(d) => Past(d)'
      PROVE  RecordedInv'
  <2> SUFFICES ASSUME NEW c \in recorded PROVE OnRecord(c)'
    BY <1>2 DEF RecordedInv
  <2>1. OnRecord(c)
    BY DEF RecordedInv
  <2>2. connId'[c] = connId[c] /\ (stage'[c] \in Open \/ Past(c)') /\ (Past(c)' => Past(c))
    BY <1>2, <2>1 DEF OnRecord, Past
  <2>3. \A d \in Conns : closed[d] # NoReport /\ connId[d] = connId[c] =>
                             closed'[d] # NoReport /\ connId'[d] = connId'[c]
    BY <1>1, <1>2, <2>2
  <2> QED  BY <1>2, <2>1, <2>2, <2>3 DEF OnRecord
<1>3. CASE Stop \/ UNCHANGED vars
  BY <1>2, <1>3 DEF Stop, vars, sessionVars, sharedVars, Past
<1>4. ASSUME NEW c \in Conns, Accept(c) \/ Await(c) PROVE RecordedInv'
  <2>1. CASE Connected(c)
    <3>1. connId[c] = route[c] /\ stage[c] = "connect" /\ stage' = [stage EXCEPT ![c] = "hello"]
      BY <2>1 DEF Connected, Resume, Go, ConnInv, OneConnInv, RouteInv, NoIdYet, Early
    <3>2. connId' = connId /\ closed' = closed /\ \A d \in Conns : d # c => (Past(d)' <=> Past(d))
      BY <2>1, <3>1 DEF Connected, Past, sessionVars
    <3>3. ASSUME NEW d \in recorded, d # c PROVE OnRecord(d)'
      <4>1. OnRecord(d) /\ connId[d] \in Ids /\ stage'[d] = stage[d] /\ (Past(d)' <=> Past(d))
        BY <3>1, <3>2, <3>3 DEF RecordedInv, OnRecord
      <4>2. active[connId[d]] # Absent => active'[connId[d]] # Absent
        BY <2>1, <4>1, TransportAssumption DEF Connected
      <4> QED  BY <3>2, <4>1, <4>2 DEF OnRecord
    <3>4. c \notin recorded
      BY <3>1 DEF RecordedInv, OnRecord, Past
    <3>5. ASSUME route[c] # NoId PROVE OnRecord(c)'
      <4>1. connId'[c] = route[c] /\ route[c] \in Ids /\ active'[route[c]] = c
        BY <2>1, <3>1, <3>2, <3>5 DEF Connected
      <4> QED  BY <3>1, <3>5, <4>1, TransportAssumption DEF OnRecord, Past
    <3>6. recorded' \subseteq recorded \cup {c} /\ (c \in recorded' => route[c] # NoId)
      BY <2>1, <3>4 DEF Connected
    <3> QED  BY <3>3, <3>5, <3>6 DEF RecordedInv
  <2>2. CASE ~Connected(c)
    <3> SUFFICES /\ UNCHANGED <<active, recorded, closed>>
                 /\ \A d \in Conns : stage[d] \in Open \/ Past(d) => connId'[d] = connId[d]
                 /\ \A d \in Conns : stage[d] \in Open => stage'[d] \in Open
                 /\ \A d \in Conns : Past(d) => Past(d)'
      BY <1>2
    <3> QED
      BY <1>4, <2>2
         DEF Accept, Await, LegacyPing, FirstByte, MagicHandshake, StatusHandshake, LoginHandshake,
             MagicServed, MotdServed, LoginStart, JoinAllow, JoinUnusable, JoinDeny, Kicked,
             HelloSent, RelayByte, RelayDone, Fail, EndEmpty, EndWithTraffic, End, Resume, Go,
             Awaiting, Past, sessionVars, resultVars, sharedVars
  <2> QED  BY <2>1, <2>2
<1>5. ASSUME NEW c \in Conns, Compute(c) PROVE RecordedInv'
  <2>1. CASE FinishHook(c)
    <3>1. /\ connId' = connId /\ recorded' = recorded /\ Past(c)' /\ stage[c] = "hook"
          /\ \A d \in Conns : d # c => stage'[d] = stage[d] /\ (Past(d)' <=> Past(d))
      BY <2>1 DEF FinishHook, Go, Past, sessionVars
    <3>2. \A d \in Conns : closed[d] # NoReport => closed'[d] # NoReport
      <4>1. closed[c] = NoReport
        BY <1>1, <3>1 DEF Past
      <4> QED  BY <2>1, <4>1 DEF FinishHook
    <3>3. ASSUME connId[c] # NoId, active[connId[c]] # Absent PROVE closed'[c] # NoReport
      <4>1. closed'[c].id # NoId
        BY <2>1, <3>3 DEF FinishHook
      <4> QED  BY <4>1 DEF NoReport
    <3> SUFFICES ASSUME NEW d \in recorded PROVE OnRecord(d)'
      BY <3>1 DEF RecordedInv
    <3>4. OnRecord(d) /\ connId[d] \in Ids
      BY DEF RecordedInv, OnRecord
    <3>5. stage'[d] \in Open \/ Past(d)'
      BY <3>1, <3>4 DEF OnRecord
    <3>6. CASE \E e \in Conns : closed[e] # NoReport /\ connId[e] = connId[d]
      BY <3>1, <3>2, <3>4, <3>5, <3>6 DEF OnRecord
    <3>7. CASE ~Past(d) /\ active[connId[d]] # Absent
      <4>1. CASE connId[d] = connId[c]
        BY <3>1, <3>3, <3>4, <3>5, <3>7, <4>1 DEF OnRecord
      <4>2. CASE connId[d] # connId[c]
        <5>1. active'[connId[d]] = active[connId[d]] /\ d # c
          BY <2>1, <3>4, <4>2 DEF FinishHook
        <5> QED  BY <3>1, <3>4, <3>5, <3>7, <5>1 DEF OnRecord
      <4> QED  BY <4>1, <4>2
    <3> QED  BY <3>4, <3>6, <3>7 DEF OnRecord
  <2>2. CASE RouteRegister(c)
    <3>1. stage[c] = "route" /\ stage' = [stage EXCEPT ![c] = "outbound"]
          /\ connId' = [connId EXCEPT ![c] = route[c]] /\ UNCHANGED <<active, recorded, closed>>
      BY <2>2 DEF RouteRegister, Go, sharedVars
    <3> QED  BY <1>2, <3>1 DEF Past
  <2>3. CASE \/ Unencodable(c) \/ RouteAnonymous(c) \/ RouteOutbound(c) \/ RouteUpdate(c)
             \/ RouteUpdated(c) \/ SettleUpload(c) \/ SettleDownload(c)
             \/ UnregisterNothing(c) \/ Unregister(c) \/ Unregistered(c)
    <3> SUFFICES /\ UNCHANGED <<active, recorded, closed, connId>>
                 /\ \A d \in Conns : stage[d] \in Open => stage'[d] \in Open
                 /\ \A d \in Conns : Past(d) => Past(d)'
      BY <1>2
    <3> QED
      BY <2>3
         DEF Unencodable, RouteAnonymous, RouteOutbound, RouteUpdate, RouteUpdated, SettleUpload,
             SettleDownload, Settle, UnregisterNothing, Unregister, Unregistered,
             EndWithTraffic, End, Go, Past, sessionVars, resultVars, sharedVars
  <2> QED  BY <1>5, <2>1, <2>2, <2>3 DEF Compute
<1> QED  BY <1>3, <1>4, <1>5 DEF Next

-----------------------------------------------------------------------------
(* What holds whatever ids the API grants *)

TransportInv == TypeOK /\ Any!HolderInv /\ ConnInv /\ ActiveInv /\ RecordedInv

\* At first no connection has been accepted.
LEMMA TransportInit == Init => TransportInv
<1> SUFFICES ASSUME Init PROVE TransportInv
  OBVIOUS
<1>1. Any!HolderInv
  BY ConstantsFit, Any!HolderInvInit DEF Init, R!RegistryInit, Any!RegistryInit
<1>2. NoTraffic \in [Dirs -> 0 .. MaxBytes] /\ NoTraffic \in [Dirs -> Nat]
  BY TransportAssumption DEF NoTraffic
<1>3. TypeOK
  BY <1>1, <1>2, SameHolderInv DEF Init, TypeOK, Stages, NoReport
<1>4. ConnInv
  BY DEF Init, R!RegistryInit, ConnInv, OneConnInv, RouteInv, CallInv, CallAt, TrafficInv, Early,
         NoIdYet, Registered, Finalizing
<1>5. ActiveInv
  BY DEF Init, ActiveInv
<1>6. RecordedInv
  BY DEF Init, RecordedInv
<1> QED  BY <1>1, <1>3, <1>4, <1>5, <1>6 DEF TransportInv

\* Every step keeps the invariant.
LEMMA TransportStep == TransportInv /\ [Next]_vars => TransportInv'
<1> SUFFICES ASSUME TransportInv, [Next]_vars PROVE TransportInv'
  OBVIOUS
<1>1. Any!HolderInv'
  <2>1. [Any!RegistryNext]_(Any!registryVars)
    BY RegistryUse, AnyStep DEF TransportInv
  <2> QED  BY <2>1, ConstantsFit, Any!HolderInvStep DEF TransportInv
<1> QED  BY <1>1, TypeStep, ConnStep, ActiveStep, RecordedStep DEF TransportInv

\* The inductive invariant of the connections, with any ids.
THEOREM TransportInvariance == Spec => []TransportInv
BY TransportInit, TransportStep, PTL DEF Spec

\* Type correctness of the connections.
THEOREM TypeCorrect == Spec => []TypeOK
<1>1. TransportInv => TypeOK
  BY DEF TransportInv
<1> QED  BY <1>1, TransportInvariance, PTL

\* Whoever is finalized leaves neither an entry of the registry nor a record
\* of the traffic reporter behind, also when an id was granted twice.
THEOREM FinalizationIsComplete == Spec => []NothingLeftBehind
<1>1. TransportInv => NothingLeftBehind
  <2> SUFFICES ASSUME TransportInv, NEW id \in Ids
               PROVE  /\ sessions[id] # Absent => \E c \in Conns : connId[c] = id /\ Unfinished(c)
                      /\ active[id] # Absent =>
                           \E c \in Conns : /\ connId[c] = id
                                           /\ stage[c] \in {"connect", "hello", "relay", "hook"}
    BY DEF NothingLeftBehind
  <2>1. ASSUME sessions[id] # Absent
        PROVE  \E c \in Conns : connId[c] = id /\ Unfinished(c)
    <3>1. PICK c \in Conns : held[c] = id
      BY <2>1, SameHolderInv DEF TransportInv, R!SessionsHaveHolders
    <3>2. stage[c] \in Registered /\ connId[c] = id
      BY <3>1, RegistryConstants
         DEF TransportInv, ConnInv, OneConnInv, CallInv, R!RegistryAssumption
    <3> QED  BY <3>2 DEF Unfinished, Registered
  <2>2. ASSUME active[id] # Absent
        PROVE  \E c \in Conns : /\ connId[c] = id
                               /\ stage[c] \in {"connect", "hello", "relay", "hook"}
    BY <2>2 DEF TransportInv, ActiveInv, TypeOK
  <2> QED  BY <2>1, <2>2
<1> QED  BY <1>1, TransportInvariance, PTL

\* The API is sent a closed event for every connection it was given a record
\* of, also of one that relayed nothing; its own, if its id was granted once;
\* and every event carries the final counts of the connection that sent it.
THEOREM ClosedEventsAreFinal == Spec => []ClosedOnceWithFinalTraffic
<1>1. TransportInv => ClosedOnceWithFinalTraffic
  <2> SUFFICES ASSUME TransportInv, NEW c \in recorded, Past(c)
               PROVE  \E d \in Conns : /\ closed[d] # NoReport /\ connId[d] = connId[c]
                                       /\ DistinctRoutes => d = c
    BY DEF TransportInv, ConnInv, OneConnInv, TrafficInv, ClosedOnceWithFinalTraffic
  <2>1. PICK d \in Conns : closed[d] # NoReport /\ connId[d] = connId[c]
    BY DEF TransportInv, RecordedInv, OnRecord
  <2>2. c \in Conns /\ connId[c] # NoId
    BY DEF TransportInv, TypeOK, RecordedInv, OnRecord
  <2>3. route[c] = connId[c] /\ route[d] = connId[d]
    BY <2>1, <2>2 DEF TransportInv, ConnInv, OneConnInv, RouteInv
  <2> QED  BY <2>1, <2>2, <2>3 DEF DistinctRoutes
<1> QED  BY <1>1, TransportInvariance, PTL

-----------------------------------------------------------------------------
(* The settled totals *)

SettledBytes(d) == UNION {BytesOf(c, d) : c \in SettledBy(d)}

\* The bytes of a connection are as many as its counter says.
LEMMA BytesCounted ==
    ASSUME TypeOK, NEW c \in Conns, NEW d \in Dirs
    PROVE  IsFiniteSet(BytesOf(c, d)) /\ Cardinality(BytesOf(c, d)) = traffic[c][d]
<1> DEFINE n == traffic[c][d]
<1>1. n \in Nat
  BY TransportAssumption DEF TypeOK
<1> HIDE DEF n
<1>2. IsFiniteSet(1 .. n) /\ Cardinality(1 .. n) = n
  BY <1>1, FS_Interval
<1>3. IsFiniteSet({c}) /\ Cardinality({c}) = 1
  BY FS_Singleton
<1>4. IsFiniteSet({c} \X (1 .. n)) /\ Cardinality({c} \X (1 .. n)) = 1 * n
  BY <1>2, <1>3, FS_Product
<1> QED  BY <1>1, <1>4 DEF BytesOf, n

\* Finitely many bytes have been settled.
LEMMA SettledFinite ==
    ASSUME TypeOK, NEW d \in Dirs
    PROVE  IsFiniteSet(SettledBytes(d))
<1>1. IsFiniteSet(Conns)
  BY RegistryConstants DEF R!RegistryAssumption, R!IsFiniteSet, IsFiniteSet
<1>2. IsFiniteSet(1 .. MaxBytes)
  BY TransportAssumption, FS_Interval
<1>3. IsFiniteSet(Conns \X (1 .. MaxBytes))
  BY <1>1, <1>2, FS_Product
<1>4. SettledBytes(d) \in SUBSET (Conns \X (1 .. MaxBytes))
  <2> SUFFICES ASSUME NEW c \in Conns PROVE BytesOf(c, d) \subseteq Conns \X (1 .. MaxBytes)
    BY DEF SettledBytes, SettledBy
  <2>1. traffic[c][d] \in 0 .. MaxBytes
    BY DEF TypeOK
  <2>2. 1 .. traffic[c][d] \subseteq 1 .. MaxBytes
    BY <2>1, TransportAssumption
  <2> QED  BY <2>2 DEF BytesOf
<1> QED  BY <1>3, <1>4, FS_Subset

\* A step that settles nothing: everybody stays among those settled in each
\* direction, or outside, and the counters of those settled stay.
LEMMA NothingSettled ==
    ASSUME SettledExactly, settled' = settled,
           \A c \in Conns :
              /\ stage[c] \in {"settleDown", "unregister", "removing", "done"}
                    => traffic'[c] = traffic[c]
              /\ stage'[c] = "settleDown" <=> stage[c] = "settleDown"
              /\ stage'[c] \in {"unregister", "removing", "done"}
                    <=> stage[c] \in {"unregister", "removing", "done"}
    PROVE  SettledExactly'
<1> SUFFICES ASSUME NEW d \in Dirs
             PROVE  settled'[d] = Cardinality(UNION {BytesOf(c, d) : c \in SettledBy(d)})'
  BY DEF SettledExactly
<1>1. SettledBy(d)' = SettledBy(d)
  BY DEF SettledBy
<1>2. \A c \in SettledBy(d) : BytesOf(c, d)' = BytesOf(c, d)
  BY DEF SettledBy, BytesOf
<1>3. SettledBytes(d)' = SettledBytes(d)
  BY <1>1, <1>2 DEF SettledBytes
<1> QED  BY <1>3 DEF SettledExactly, SettledBytes

\* A step that settles a connection adds its bytes in one direction.
LEMMA OneSettled ==
    ASSUME TypeOK, ConnInv, SettledExactly, NEW c \in Conns, NEW d \in Dirs,
           traffic' = traffic, settled' = [settled EXCEPT ![d] = @ + report[c][d]],
           stage[c] \in Finalizing, c \notin SettledBy(d),
           \A e \in Dirs : SettledBy(e)' = SettledBy(e) \cup IF e = d THEN {c} ELSE {}
    PROVE  SettledExactly'
<1> SUFFICES ASSUME NEW e \in Dirs
             PROVE  settled'[e] = Cardinality(SettledBytes(e))'
  BY DEF SettledExactly, SettledBytes
<1>1. settled[e] = Cardinality(SettledBytes(e))
  BY DEF SettledExactly, SettledBytes
<1>2. CASE e = d
  <2>1. SettledBytes(d)' = SettledBytes(d) \cup BytesOf(c, d)
    BY <1>2 DEF SettledBytes, BytesOf
  <2>2. SettledBytes(d) \cap BytesOf(c, d) = {}
    BY DEF SettledBytes, BytesOf
  <2>3. report[c][d] = traffic[c][d] /\ traffic[c][d] \in Nat /\ settled[d] \in Nat
    BY TransportAssumption DEF TypeOK, ConnInv, OneConnInv, TrafficInv
  <2>4. Cardinality(SettledBytes(d))'
          = Cardinality(SettledBytes(d)) + Cardinality(BytesOf(c, d)) - Cardinality({})
    BY <2>1, <2>2, BytesCounted, SettledFinite, FS_Union
  <2>5. Cardinality(SettledBytes(d))' = settled[d] + traffic[c][d]
    BY <1>1, <1>2, <2>3, <2>4, BytesCounted, FS_EmptySet
  <2> QED  BY <1>2, <2>3, <2>5 DEF TypeOK
<1>3. CASE e # d
  <2>1. SettledBytes(e)' = SettledBytes(e)
    BY <1>3 DEF SettledBytes, BytesOf
  <2> QED  BY <1>1, <1>3, <2>1 DEF TypeOK
<1> QED  BY <1>2, <1>3

\* Every step keeps the totals exact.
LEMMA SettledStep ==
    ASSUME TypeOK, ConnInv, SettledExactly, [Next]_vars
    PROVE  SettledExactly'
<1>1. CASE Stop \/ UNCHANGED vars
  BY <1>1, NothingSettled DEF Stop, vars, sessionVars, sharedVars
<1>2. ASSUME NEW c \in Conns, Accept(c) \/ Await(c) PROVE SettledExactly'
  <2>1. /\ settled' = settled
        /\ stage[c] \notin {"settleDown", "unregister", "removing", "done"}
        /\ stage'[c] \notin {"settleDown", "unregister", "removing", "done"}
    BY <1>2
       DEF Accept, Await, LegacyPing, FirstByte, MagicHandshake, StatusHandshake, LoginHandshake,
           MagicServed, MotdServed, LoginStart, JoinAllow, JoinUnusable, JoinDeny, Kicked,
           Connected, HelloSent, RelayByte, RelayDone, Fail, EndEmpty, EndWithTraffic, End,
           Awaiting, Resume, Go, TypeOK, sharedVars
  <2> QED  BY <1>2, <2>1, OthersUntouched, NothingSettled
<1>3. ASSUME NEW c \in Conns, Compute(c) PROVE SettledExactly'
  <2>1. CASE SettleUpload(c)
    <3>1. \A e \in Dirs : SettledBy(e)' = SettledBy(e) \cup IF e = "up" THEN {c} ELSE {}
      BY <2>1 DEF SettleUpload, Settle, Go, SettledBy, TypeOK, Dirs
    <3>2. stage[c] = "settleUp" /\ c \notin SettledBy("up")
      BY <2>1 DEF SettleUpload, Settle, Go, SettledBy
    <3> QED  BY <2>1, <3>1, <3>2, OneSettled
                DEF SettleUpload, Settle, Finalizing, Dirs, sessionVars
  <2>2. CASE SettleDownload(c)
    <3>1. \A e \in Dirs : SettledBy(e)' = SettledBy(e) \cup IF e = "down" THEN {c} ELSE {}
      BY <2>2 DEF SettleDownload, Settle, Go, SettledBy, TypeOK, Dirs
    <3>2. stage[c] = "settleDown" /\ c \notin SettledBy("down")
      BY <2>2 DEF SettleDownload, Settle, Go, SettledBy
    <3> QED  BY <2>2, <3>1, <3>2, OneSettled
                DEF SettleDownload, Settle, Finalizing, Dirs, sessionVars
  <2>3. CASE \/ Unencodable(c) \/ RouteAnonymous(c) \/ RouteRegister(c) \/ RouteOutbound(c)
             \/ RouteUpdate(c) \/ RouteUpdated(c) \/ FinishHook(c)
             \/ UnregisterNothing(c) \/ Unregister(c) \/ Unregistered(c)
    <3>1. /\ settled' = settled /\ traffic' = traffic
          /\ stage'[c] = "settleDown" <=> stage[c] = "settleDown"
          /\ stage'[c] \in {"unregister", "removing", "done"}
                <=> stage[c] \in {"unregister", "removing", "done"}
      BY <2>3
         DEF Unencodable, RouteAnonymous, RouteRegister, RouteOutbound, RouteUpdate, RouteUpdated,
             FinishHook, UnregisterNothing, Unregister, Unregistered, EndWithTraffic, End, Go,
             TypeOK, sessionVars, sharedVars
    <3> QED  BY <1>3, <3>1, OthersUntouched, NothingSettled
  <2> QED  BY <1>3, <2>1, <2>2, <2>3 DEF Compute
<1> QED  BY <1>1, <1>2, <1>3 DEF Next

\* Every byte a connection has relayed is settled exactly once, whatever way
\* the connection ended.
THEOREM TotalsAreExact == Spec => []SettledExactly
<1>1. Init => SettledExactly
  <2> SUFFICES ASSUME Init, NEW d \in Dirs PROVE settled[d] = Cardinality(SettledBytes(d))
    BY DEF SettledExactly, SettledBytes
  <2>1. SettledBytes(d) = {}
    BY DEF Init, SettledBytes, SettledBy
  <2> QED  BY <2>1, FS_EmptySet DEF Init, NoTraffic
<1>2. TransportInv /\ SettledExactly /\ [Next]_vars => SettledExactly'
  BY SettledStep DEF TransportInv
<1> QED  BY <1>1, <1>2, TransportInvariance, PTL DEF Spec

-----------------------------------------------------------------------------
(* What holds as long as no id was granted twice *)

\* Its entry of the registry is proxying from the insert of update_outbound on.
ProxyingInv(c) ==
    /\ stage[c] = "outbound" => ~R!IsProxying(held[c])
    /\ stage[c] = "updating" /\ rpc[c] # "registered" => goal[c] = "Proxying"
    /\ Counted(c) \/ (stage[c] = "updating" /\ rpc[c] \in {"adjust", "registered"})
          => R!IsProxying(held[c])

DistinctBody == /\ Exclusive!EntriesUndisturbed
                /\ Exclusive!OnlineCountExact
                /\ \A c \in Conns : ProxyingInv(c)

DistinctInv == DistinctRoutes => DistinctBody

\* A granted id stays, so that ids that are distinct now always were.
LEMMA DistinctBefore ==
    ASSUME TypeOK, ConnInv, [Next]_vars, DistinctRoutes'
    PROVE  DistinctRoutes
<1> SUFFICES \A d \in Conns : route[d] # NoId => route'[d] = route[d]
  BY DEF DistinctRoutes
<1>1. CASE Stop \/ UNCHANGED vars
  BY <1>1 DEF Stop, vars, sessionVars
<1>2. ASSUME NEW c \in Conns, Accept(c) \/ Await(c) \/ Compute(c)
      PROVE  route[c] # NoId => route'[c] = route[c]
  <2>1. ASSUME NEW id \in Ids \cup {NoId}, JoinAllow(c, id) PROVE route[c] = NoId
    BY <2>1 DEF JoinAllow, Resume, Go, ConnInv, OneConnInv, RouteInv, Early
  <2> QED
    BY <1>2, <2>1
       DEF Accept, Await, LegacyPing, FirstByte, MagicHandshake, StatusHandshake, LoginHandshake,
           MagicServed, MotdServed, LoginStart, JoinUnusable, JoinDeny, Kicked, Connected,
           HelloSent, RelayByte, RelayDone, Fail, EndEmpty, EndWithTraffic,
           Compute, Unencodable, RouteAnonymous, RouteRegister, RouteOutbound, RouteUpdate,
           RouteUpdated, FinishHook, SettleUpload, SettleDownload, Settle, UnregisterNothing,
           Unregister, Unregistered, sessionVars
<1> QED  BY <1>1, <1>2, OthersUntouched DEF Next

\* Whoever registers is the only one with its id.
LEMMA NobodyHolds ==
    ASSUME TransportInv, DistinctRoutes, NEW c \in Conns, stage[c] = "route", route[c] # NoId,
           NEW d \in Conns
    PROVE  held[d] # route[c]
BY DEF TransportInv, ConnInv, OneConnInv, RouteInv, CallInv, DistinctRoutes, Registered

\* Then the registry's contract on ids is kept.
LEMMA ContractKept ==
    ASSUME TransportInv, DistinctRoutes, [Next]_vars
    PROVE  [Exclusive!RegistryNext]_(Exclusive!registryVars)
<1> USE DEF registryVars, Exclusive!registryVars
<1>1. CASE Stop \/ UNCHANGED vars
  BY <1>1 DEF Stop, vars
<1>2. ASSUME NEW c \in Conns, Accept(c) \/ Await(c)
      PROVE  UNCHANGED registryVars
  BY <1>2
     DEF Accept, Await, LegacyPing, FirstByte, MagicHandshake, StatusHandshake, LoginHandshake,
         MagicServed, MotdServed, LoginStart, JoinAllow, JoinUnusable, JoinDeny, Kicked,
         Connected, HelloSent, RelayByte, RelayDone, Fail, EndEmpty, EndWithTraffic
<1>3. ASSUME NEW c \in Conns, Compute(c)
      PROVE  [Exclusive!Call(c) \/ Exclusive!Step(c)]_(Exclusive!registryVars)
  <2>1. ASSUME RouteRegister(c) PROVE Exclusive!Call(c)
    <3>1. route[c] \in Ids /\ R!Register(c, route[c]) /\ \A d \in Conns : held[d] # route[c]
      BY <2>1, NobodyHolds DEF RouteRegister, Go, TransportInv, TypeOK
    <3>2. Exclusive!Register(c, route[c])
      BY <3>1 DEF R!Register, Exclusive!Register
    <3> QED  BY <3>1, <3>2 DEF Exclusive!Call
  <2>2. CASE RouteOutbound(c) \/ Unregister(c)
    BY <2>2 DEF RouteOutbound, Unregister, R!UpdateOutbound, R!ReadState, R!RemoveEntry,
                R!IsProxying, Exclusive!Call, Exclusive!UpdateOutbound, Exclusive!ReadState,
                Exclusive!RemoveEntry, Exclusive!IsProxying
  <2>3. CASE RouteUpdate(c) \/ Unregistered(c)
    BY <2>3 DEF RouteUpdate, Unregistered, R!Step, R!CloneSession, R!InsertClone, R!AdjustCount,
                R!DecrementCount, R!AfterUpdate, R!Correction, Exclusive!Step,
                Exclusive!CloneSession, Exclusive!InsertClone, Exclusive!AdjustCount,
                Exclusive!DecrementCount, Exclusive!AfterUpdate, Exclusive!Correction
  <2>4. CASE \/ Unencodable(c) \/ RouteAnonymous(c) \/ RouteUpdated(c) \/ FinishHook(c)
             \/ SettleUpload(c) \/ SettleDownload(c) \/ UnregisterNothing(c)
    BY <2>4 DEF Unencodable, RouteAnonymous, RouteUpdated, FinishHook, SettleUpload,
                SettleDownload, Settle, UnregisterNothing, EndWithTraffic
  <2> QED  BY <1>3, <2>1, <2>2, <2>3, <2>4 DEF Compute
<1> QED  BY <1>1, <1>2, <1>3 DEF Next, Exclusive!RegistryNext

\* So what the registry promises under its contract goes on.
LEMMA RegistryStep ==
    ASSUME TransportInv, DistinctRoutes, DistinctBody, [Next]_vars
    PROVE  Exclusive!EntriesUndisturbed' /\ Exclusive!OnlineCountExact'
<1>1. [Exclusive!RegistryNext]_(Exclusive!registryVars)
  BY ContractKept
<1>2. Exclusive!HolderInv
  BY SameHolderInv DEF TransportInv
<1>3. Exclusive!EntriesUndisturbed'
  BY <1>1, <1>2, ConstantsFit, Exclusive!UndisturbedStep DEF DistinctBody
<1>4. Exclusive!CountStep
  BY <1>1, <1>2, ConstantsFit, Exclusive!CountStepHolds DEF DistinctBody
<1>5. Exclusive!OnlineCountExact'
  BY <1>4, ConstantsFit, Exclusive!CountStepExact DEF DistinctBody
<1> QED  BY <1>3, <1>5

\* Ids of two connections differ, and so do the entries they hold.
LEMMA IdsDiffer ==
    ASSUME TransportInv, DistinctRoutes, NEW c \in Conns, NEW d \in Conns, c # d
    PROVE  /\ connId[d] # NoId => connId[d] \in Ids /\ connId[d] # connId[c] /\ connId[d] # route[c]
           /\ held[d] # NoId => held[d] \in Ids /\ held[d] # held[c] /\ held[d] # route[c]
BY DEF TransportInv, TypeOK, ConnInv, OneConnInv, RouteInv, CallInv, DistinctRoutes,
       R!RegistryTypeOK

\* What one task does leaves the entries of the others alone.
LEMMA OthersEntries ==
    ASSUME TransportInv, DistinctRoutes, NEW c \in Conns, Accept(c) \/ Await(c) \/ Compute(c),
           NEW d \in Conns, c # d
    PROVE  held[d] # NoId => sessions'[held[d]] = sessions[held[d]]
<1> USE IdsDiffer DEF TransportInv, TypeOK, R!RegistryTypeOK
<1>1. CASE Connected(c)
  BY <1>1 DEF Connected, registryVars
<1>2. CASE FinishHook(c)
  BY <1>2 DEF FinishHook, registryVars
<1>3. CASE RouteRegister(c)
  BY <1>3 DEF RouteRegister, R!Register, sharedVars
<1>4. CASE RouteOutbound(c) \/ RouteUpdate(c)
  BY <1>4 DEF RouteOutbound, RouteUpdate, R!UpdateOutbound, R!ReadState, R!Step, R!CloneSession,
              R!InsertClone, R!AdjustCount, R!DecrementCount, sharedVars
<1>5. CASE Unregister(c) \/ Unregistered(c)
  BY <1>5 DEF Unregister, Unregistered, R!RemoveEntry, R!DecrementCount, sharedVars, registryVars
<1>6. CASE (Accept(c) \/ Await(c)) /\ ~Connected(c)
  BY <1>6
     DEF Accept, Await, LegacyPing, FirstByte, MagicHandshake, StatusHandshake, LoginHandshake,
         MagicServed, MotdServed, LoginStart, JoinAllow, JoinUnusable, JoinDeny, Kicked,
         HelloSent, RelayByte, RelayDone, Fail, EndEmpty, EndWithTraffic, sharedVars, registryVars
<1>7. CASE \/ Unencodable(c) \/ RouteAnonymous(c) \/ RouteUpdated(c) \/ SettleUpload(c)
           \/ SettleDownload(c) \/ UnregisterNothing(c)
  BY <1>7 DEF Unencodable, RouteAnonymous, RouteUpdated, SettleUpload, SettleDownload, Settle,
              UnregisterNothing, EndWithTraffic, sharedVars, registryVars
<1> QED  BY <1>1, <1>2, <1>3, <1>4, <1>5, <1>6, <1>7 DEF Compute

\* What is known of the others by their ids stays.
LEMMA OthersDistinct ==
    ASSUME TransportInv, DistinctRoutes, DistinctBody, NEW c \in Conns,
           Accept(c) \/ Await(c) \/ Compute(c), NEW d \in Conns, c # d
    PROVE  ProxyingInv(d)'
<1>1. /\ stage'[d] = stage[d] /\ connId'[d] = connId[d]
      /\ rpc'[d] = rpc[d] /\ held'[d] = held[d] /\ goal'[d] = goal[d]
  BY OthersUntouched DEF TransportInv
<1>2. held[d] # NoId => sessions'[held[d]] = sessions[held[d]]
  BY OthersEntries
<1>3. stage[d] \in {"outbound", "updating"} \/ Counted(d) => held[d] # NoId
  BY DEF TransportInv, ConnInv, OneConnInv, RouteInv, CallInv, Registered, Counted, Finalizing
<1> QED  BY <1>1, <1>2, <1>3 DEF DistinctBody, ProxyingInv, Counted, R!IsProxying

\* Up to the hook, a connection with an upstream is proxying.
LEMMA AwaitDistinct ==
    ASSUME TransportInv, DistinctRoutes, DistinctBody, NEW c \in Conns, Accept(c) \/ Await(c)
    PROVE  ProxyingInv(c)'
<1> USE DEF TransportInv, TypeOK, R!RegistryTypeOK, ConnInv, OneConnInv, RouteInv, TrafficInv,
            Early, NoIdYet, Finalizing, Awaiting, Go, Resume, End, Past
<1>1. ProxyingInv(c)
  BY DEF DistinctBody
<1>2. UNCHANGED registryVars
  BY DEF Accept, Await, LegacyPing, FirstByte, MagicHandshake, StatusHandshake, LoginHandshake,
         MagicServed, MotdServed, LoginStart, JoinAllow, JoinUnusable, JoinDeny, Kicked,
         Connected, HelloSent, RelayByte, RelayDone, Fail, EndEmpty, EndWithTraffic
<1>3. CASE Accept(c) \/ LegacyPing(c) \/ FirstByte(c) \/ MagicHandshake(c)
           \/ StatusHandshake(c) \/ LoginHandshake(c) \/ LoginStart(c) \/ JoinDeny(c)
           \/ MagicServed(c) \/ MotdServed(c) \/ Kicked(c)
  BY <1>3 DEF ProxyingInv, Counted,
         Accept, LegacyPing, FirstByte, MagicHandshake, StatusHandshake, LoginHandshake,
         LoginStart, JoinDeny, MagicServed, MotdServed, Kicked, EndEmpty,
         sessionVars, resultVars, sharedVars
<1>4. CASE JoinUnusable(c)
  BY <1>4 DEF ProxyingInv, Counted, JoinUnusable, EndWithTraffic, sessionVars
<1>5. ASSUME NEW id \in Ids \cup {NoId}, JoinAllow(c, id)
      PROVE  ProxyingInv(c)'
  BY <1>5 DEF ProxyingInv, Counted, JoinAllow
<1>6. CASE Connected(c) \/ HelloSent(c) \/ RelayDone(c) \/ Fail(c)
  BY <1>1, <1>2, <1>6
     DEF ProxyingInv, Counted, R!IsProxying, registryVars, Connected, HelloSent, RelayDone, Fail,
         EndWithTraffic, sessionVars
<1>7. ASSUME NEW d \in Dirs, RelayByte(c, d) PROVE ProxyingInv(c)'
  BY <1>1, <1>2, <1>7
     DEF ProxyingInv, Counted, R!IsProxying, registryVars, RelayByte, sharedVars
<1> QED  BY <1>3, <1>4, <1>5, <1>6, <1>7 DEF Await

\* Its entry is proxying from before it is connected until it is removed.
LEMMA ComputeDistinct ==
    ASSUME TransportInv, DistinctRoutes, DistinctBody, NEW c \in Conns, Compute(c)
    PROVE  ProxyingInv(c)'
<1> USE DEF TransportInv, TypeOK, R!RegistryTypeOK, ConnInv, OneConnInv, RouteInv, TrafficInv,
            Early, NoIdYet, Finalizing, Go, End, Past
<1>1. ProxyingInv(c) /\ CallInv(c)
  BY DEF DistinctBody
<1>2. CASE \/ Unencodable(c) \/ RouteAnonymous(c) \/ RouteUpdated(c) \/ SettleUpload(c)
           \/ SettleDownload(c) \/ UnregisterNothing(c)
  BY <1>1, <1>2
     DEF Unencodable, RouteAnonymous, RouteUpdated, SettleUpload, SettleDownload, Settle,
         UnregisterNothing, EndWithTraffic, ProxyingInv, Counted, R!IsProxying,
         sessionVars, resultVars, sharedVars, registryVars
<1>3. CASE RouteRegister(c)
  BY <1>3 DEF RouteRegister, R!Register, ProxyingInv, Counted, R!IsProxying,
              resultVars, sharedVars
<1>4. CASE RouteOutbound(c)
  BY <1>4 DEF RouteOutbound, R!UpdateOutbound, R!ReadState, ProxyingInv, Counted,
              sessionVars, resultVars, sharedVars
<1>5. CASE RouteUpdate(c)
  <2>1. /\ held[c] = connId[c] /\ connId[c] \in Ids /\ stage[c] = "updating"
        /\ sessions[held[c]] # Absent
        /\ rpc[c] \in {"registered", "get", "insert", "adjust"}
    BY <1>1, <1>5, RegistryConstants
       DEF RouteUpdate, CallInv, CallAt, Registered, DistinctBody, Exclusive!EntriesUndisturbed,
           R!RegistryAssumption
  <2>3. CASE R!CloneSession(c)
    BY <1>1, <1>5, <2>1, <2>3
       DEF RouteUpdate, R!CloneSession, ProxyingInv, Counted
  <2>4. CASE R!InsertClone(c)
    <3>1. goal[c] = "Proxying" /\ rpc[c] = "insert"
      BY <1>1, <2>1, <2>4 DEF R!InsertClone, ProxyingInv
    <3>2. sessions'[held[c]] = [owner |-> copy[c].owner, state |-> "Proxying"]
      BY <2>1, <2>4, <3>1 DEF R!InsertClone
    <3>3. sessions'[held[c]] # Absent
      <4>1. copy[c] # Absent /\ copy[c] \in R!Session \cup {Absent}
        BY <3>1 DEF Any!HolderInv, Any!CallsWellFormed
      <4>2. sessions'[held[c]] \in R!Session
        BY <3>2, <4>1, RegistryConstants DEF R!Session, R!RegistryAssumption
      <4> QED  BY <4>2, RegistryConstants DEF R!RegistryAssumption
    <3>4. R!IsProxying(held[c])'
      BY <2>4, <3>2, <3>3 DEF R!InsertClone, R!IsProxying
    <3> QED  BY <1>5, <2>1, <2>4, <3>1, <3>4 DEF RouteUpdate, R!InsertClone, ProxyingInv
  <2>5. CASE R!AdjustCount(c)
    BY <1>1, <1>5, <2>1, <2>5
       DEF RouteUpdate, R!AdjustCount, ProxyingInv, Counted, R!IsProxying
  <2>6. CASE R!DecrementCount(c)
    BY <2>1, <2>6 DEF R!DecrementCount
  <2> QED  BY <1>5, <2>3, <2>4, <2>5, <2>6 DEF RouteUpdate, R!Step
<1>6. CASE FinishHook(c)
  BY <1>1, <1>6
     DEF FinishHook, ProxyingInv, Counted, R!IsProxying, sessionVars, registryVars
<1>7. CASE Unregister(c) \/ Unregistered(c)
  BY <1>1, <1>7
     DEF Unregister, Unregistered, ProxyingInv, Counted,
         sessionVars, resultVars, sharedVars
<1> QED  BY <1>2, <1>3, <1>4, <1>5, <1>6, <1>7 DEF Compute

\* Every step keeps what holds of distinct ids, as long as they are.
LEMMA DistinctStep == TransportInv /\ DistinctInv /\ [Next]_vars => DistinctInv'
<1> SUFFICES ASSUME TransportInv, DistinctInv, [Next]_vars, DistinctRoutes' PROVE DistinctBody'
  BY DEF DistinctInv
<1>1. DistinctRoutes /\ DistinctBody
  BY DistinctBefore DEF TransportInv, DistinctInv
<1>2. Exclusive!EntriesUndisturbed' /\ Exclusive!OnlineCountExact'
  BY <1>1, RegistryStep
<1>3. ASSUME NEW c \in Conns, Accept(c) \/ Await(c) \/ Compute(c), NEW d \in Conns
      PROVE  ProxyingInv(d)'
  <2>1. CASE d = c
    <3>1. ProxyingInv(c)'
      BY <1>1, <1>3, AwaitDistinct, ComputeDistinct
    <3> QED  BY <2>1, <3>1
  <2>2. CASE c # d
    BY <1>1, <1>3, <2>2, OthersDistinct
  <2> QED  BY <2>1, <2>2
<1>4. ASSUME Stop \/ UNCHANGED vars, NEW d \in Conns
      PROVE  ProxyingInv(d)'
  <2>1. ProxyingInv(d)
    BY <1>1 DEF DistinctBody
  <2> QED
    BY <1>4, <2>1 DEF Stop, vars, sessionVars, registryVars, ProxyingInv, Counted, R!IsProxying
<1>5. \A d \in Conns : ProxyingInv(d)'
  BY <1>3, <1>4 DEF Next
<1> QED  BY <1>2, <1>5 DEF DistinctBody

\* At first no id has been granted at all.
LEMMA DistinctInit == Init => DistinctInv
<1> SUFFICES ASSUME Init PROVE DistinctBody
  BY DEF DistinctInv
<1>1. Exclusive!RegistryInit
  BY DEF Init, R!RegistryInit, Exclusive!RegistryInit
<1>2. Exclusive!EntriesUndisturbed /\ Exclusive!OnlineCountExact
  BY <1>1, ConstantsFit, Exclusive!UndisturbedInit, Exclusive!OnlineInit
<1>3. ASSUME NEW c \in Conns PROVE ProxyingInv(c)
  BY DEF Init, ProxyingInv, Counted
<1> QED  BY <1>2, <1>3 DEF DistinctBody

\* What holds of connections whose ids are distinct.
THEOREM DistinctInvariance == Spec => []DistinctInv
BY DistinctInit, DistinctStep, TransportInvariance, PTL DEF Spec

\* The online count is the number of connections being proxied, but for those
\* coming or going.
THEOREM OnlineCountIsTheProxied == Spec => []OnlineTracksProxying
<1> DEFINE Low == {c \in Conns : Counted(c)}
           High == {c \in Conns : Counted(c) \/ stage[c] \in {"updating", "removing"}}
<1>1. TransportInv /\ DistinctInv => OnlineTracksProxying
  <2> SUFFICES ASSUME TransportInv, DistinctBody
               PROVE  onlineCount >= Cardinality(Low) /\ onlineCount <= Cardinality(High)
    BY DEF DistinctInv, OnlineTracksProxying
  <2>1. Low \subseteq Exclusive!OnlineCallers
    <3> SUFFICES ASSUME NEW c \in Conns, Counted(c) PROVE Exclusive!Online(c)
      BY DEF Exclusive!OnlineCallers
    <3>1. held[c] # NoId /\ rpc[c] = "registered"
      BY DEF Counted, Finalizing, TransportInv, ConnInv, OneConnInv, CallInv, CallAt, Registered
    <3>2. R!IsProxying(held[c])
      BY DEF DistinctBody, ProxyingInv
    <3> QED  BY <3>1, <3>2 DEF Exclusive!Online, Exclusive!PendingIncrement, R!IsProxying,
                               Exclusive!IsProxying
  <2>2. Exclusive!OnlineCallers \subseteq High
    <3> SUFFICES ASSUME NEW c \in Conns, Exclusive!Online(c)
                 PROVE  Counted(c) \/ stage[c] \in {"updating", "removing"}
      BY DEF Exclusive!OnlineCallers
    <3>1. CASE Exclusive!PendingDecrement(c)
      BY <3>1 DEF Exclusive!PendingDecrement, TransportInv, ConnInv, OneConnInv, CallInv, CallAt,
                  Registered
    <3>2. CASE held[c] # NoId /\ Exclusive!IsProxying(held[c])
      <4>1. stage[c] # "outbound" /\ stage[c] \in Registered /\ connId[c] # NoId
        BY <3>2 DEF DistinctBody, ProxyingInv, R!IsProxying, Exclusive!IsProxying, TransportInv,
                    ConnInv, OneConnInv, CallInv
      <4> QED  BY <4>1 DEF Registered, Counted, Finalizing
    <3> QED  BY <3>1, <3>2 DEF Exclusive!Online
  <2>3. IsFiniteSet(Conns)
    BY RegistryConstants DEF R!RegistryAssumption, R!IsFiniteSet, IsFiniteSet
  <2>4. IsFiniteSet(High)
    <3>1. High \in SUBSET Conns
      OBVIOUS
    <3> QED  BY <2>3, <3>1, FS_Subset
  <2> HIDE DEF Low, High
  <2>5. Cardinality(Exclusive!OnlineCallers) <= Cardinality(High)
    BY <2>2, <2>4, FS_Subset
  <2>6. Cardinality(Low) <= Cardinality(Exclusive!OnlineCallers)
    <3>1. IsFiniteSet(Exclusive!OnlineCallers)
      BY <2>2, <2>4, FS_Subset
    <3> QED  BY <2>1, <3>1, FS_Subset
  <2>7. onlineCount = Cardinality(Exclusive!OnlineCallers)
    BY DEF DistinctBody, Exclusive!OnlineCountExact, Exclusive!Cardinality, Cardinality
  <2> QED  BY <2>5, <2>6, <2>7
<1> QED  BY <1>1, TransportInvariance, DistinctInvariance, PTL
=============================================================================
