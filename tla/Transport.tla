------------------------------ MODULE Transport ------------------------------
(***************************************************************************)
(* The life of inbound connections in necron-prism: the accept loop         *)
(* (crates/prism/src/inbound), the handler task it spawns for each of them  *)
(* (crates/prism/src/transport), the calls that task makes to the hooks of  *)
(* src/proxy/hooks.rs, and its use of the connection registry, of the       *)
(* traffic reporter's map and of the settled totals.                        *)
(*                                                                          *)
(* A connection is one task.  Its stage is the await point it is suspended  *)
(* at, or, between two awaits, its next access to state that other tasks    *)
(* share.  Local computation in between is part of the step before it.      *)
(* Packets are reduced to what the handler branches on; what the client,    *)
(* the API and the upstream do is chosen freely.                            *)
(***************************************************************************)
EXTENDS Integers, FiniteSets

CONSTANTS
    Conns,        \* connections the listener may accept
    Ids,          \* connection ids the API may grant
    PlayerState, Absent, NoId,
    UniqueIds,    \* TRUE: the API grants every id once, as the mock does
    MaxBytes      \* bound: bytes relayed per connection

Dirs == {"up", "down"}
NoTraffic == [d \in Dirs |-> 0]
NoReport == [id |-> NoId, traffic |-> NoTraffic]

ASSUME TransportAssumption == MaxBytes \in Nat /\ Absent \notin Conns

VARIABLES
    running,   \* FALSE once run() has returned and the runtime is dropped
    stage,     \* per connection, where its task is
    kind,      \* session.kind
    connId,    \* session.connection_id, a OnceLock
    route,     \* route.connection_id of an allowed login
    traffic,   \* session.upload_bytes and download_bytes
    report,    \* traffic of the ConnectionReport the handler ended with
    outcome,   \* ConnectionOutcome
    active,    \* TrafficReporter.sessions: id -> the connection registered
    recorded,  \* history: the connections that were put there
    closed,    \* the closed event finish() spawned for each connection
    settled,   \* ConnectionTotals
    sessions, onlineCount, rpc, held, was, goal, copy   \* see Registry

R == INSTANCE Registry WITH Callers <- Conns, ExclusiveIds <- UniqueIds, pc <- rpc

ASSUME RegistryConstants == R!RegistryAssumption

registryVars == <<sessions, onlineCount, rpc, held, was, goal, copy>>
sessionVars == <<kind, connId, route, traffic>>
resultVars == <<report, outcome>>
sharedVars == <<active, recorded, closed, settled>>
vars == <<running, stage, sessionVars, resultVars, sharedVars, registryVars>>

\* The task is suspended: it can be timed out, and dropped with the runtime.
Awaiting == {"firstByte", "handshake", "magic", "motd", "loginStart", "join",
             "kick", "connect", "hello", "relay"}

\* Between two awaits: nothing but the scheduler delays the next step.
Running == {"route", "outbound", "updating", "hook", "settleUp", "settleDown",
            "unregister", "removing"}

Stages == {"waiting", "done"} \cup Awaiting \cup Running

Finalizing == {"hook", "settleUp", "settleDown", "unregister", "removing"}

TypeOK ==
    /\ running \in BOOLEAN
    /\ stage \in [Conns -> Stages]
    /\ kind \in [Conns -> {"Unknown", "Motd", "Proxy"}]
    /\ connId \in [Conns -> Ids \cup {NoId}]
    /\ route \in [Conns -> Ids \cup {NoId}]
    /\ traffic \in [Conns -> [Dirs -> 0 .. MaxBytes]]
    /\ report \in [Conns -> [Dirs -> 0 .. MaxBytes]]
    /\ outcome \in [Conns -> {"none", "Completed", "Handled", "Failed"}]
    /\ active \in [Ids -> Conns \cup {Absent}]
    /\ recorded \subseteq Conns
    /\ closed \in [Conns -> [id : Ids \cup {NoId}, traffic : [Dirs -> 0 .. MaxBytes]]]
    /\ settled \in [Dirs -> Nat]
    /\ R!RegistryTypeOK

Init ==
    /\ running = TRUE
    /\ stage = [c \in Conns |-> "waiting"]
    /\ kind = [c \in Conns |-> "Unknown"]
    /\ connId = [c \in Conns |-> NoId]
    /\ route = [c \in Conns |-> NoId]
    /\ traffic = [c \in Conns |-> NoTraffic]
    /\ report = [c \in Conns |-> NoTraffic]
    /\ outcome = [c \in Conns |-> "none"]
    /\ active = [id \in Ids |-> Absent]
    /\ recorded = {}
    /\ closed = [c \in Conns |-> NoReport]
    /\ settled = NoTraffic
    /\ R!RegistryInit

Go(c, from, to) == stage[c] = from /\ stage' = [stage EXCEPT ![c] = to]

\* A task suspended in stage s goes on, which takes a runtime.
Resume(c, s, to) == running /\ s \in Awaiting /\ Go(c, s, to)

-----------------------------------------------------------------------------
(* Accepting, and the end of the process *)

Accept(c) ==
    /\ running
    /\ Go(c, "waiting", "firstByte")
    /\ UNCHANGED <<running, sessionVars, resultVars, sharedVars, registryVars>>

\* A signal, or an error of listener.accept(), ends run(): the tasks are
\* dropped at the await they are suspended at, or reach next.
Stop ==
    /\ running
    /\ running' = FALSE
    /\ UNCHANGED <<stage, sessionVars, resultVars, sharedVars, registryVars>>

-----------------------------------------------------------------------------
(* handle_connection: how the handler's result becomes an outcome *)

End(c, s, result) ==
    /\ stage[c] = s
    /\ stage' = [stage EXCEPT ![c] = "hook"]
    /\ outcome' = [outcome EXCEPT ![c] = result]

\* Ok and HandledConnection carry the empty report of the early returns.
EndEmpty(c, s, result) ==
    /\ running /\ s \in Awaiting
    /\ End(c, s, result)
    /\ report' = [report EXCEPT ![c] = NoTraffic]
    /\ UNCHANGED <<running, sessionVars, sharedVars, registryVars>>

\* Faulty: an error ends with an empty report.
EndWithoutTraffic(c, s, result) ==
    /\ End(c, s, result)
    /\ report' = [report EXCEPT ![c] = IF result = "Failed" THEN NoTraffic ELSE traffic[c]]
    /\ UNCHANGED <<running, sessionVars, sharedVars, registryVars>>

\* An error, or the end of the relay, reports the session's counters.
EndWithTraffic(c, s, result) ==
    /\ End(c, s, result)
    /\ report' = [report EXCEPT ![c] = traffic[c]]
    /\ UNCHANGED <<running, sessionVars, sharedVars, registryVars>>

\* Any await may end in an error; for those under a timeout this step is the
\* timeout as well.  The join is not among them: its errors become a denial.
Fail(c) == /\ running
           /\ stage[c] \in Awaiting \ {"join"}
           /\ EndWithTraffic(c, stage[c], "Failed")

-----------------------------------------------------------------------------
(* handle_client *)

LegacyPing(c) ==
    /\ Resume(c, "firstByte", "motd")
    /\ kind' = [kind EXCEPT ![c] = "Motd"]
    /\ UNCHANGED <<running, connId, route, traffic, resultVars, sharedVars, registryVars>>

FirstByte(c) ==
    /\ Resume(c, "firstByte", "handshake")
    /\ UNCHANGED <<running, sessionVars, resultVars, sharedVars, registryVars>>

MagicHandshake(c) ==
    /\ Resume(c, "handshake", "magic")
    /\ UNCHANGED <<running, sessionVars, resultVars, sharedVars, registryVars>>

StatusHandshake(c) ==
    /\ Resume(c, "handshake", "motd")
    /\ kind' = [kind EXCEPT ![c] = "Motd"]
    /\ UNCHANGED <<running, connId, route, traffic, resultVars, sharedVars, registryVars>>

LoginHandshake(c) ==
    /\ Resume(c, "handshake", "loginStart")
    /\ kind' = [kind EXCEPT ![c] = "Proxy"]
    /\ UNCHANGED <<running, connId, route, traffic, resultVars, sharedVars, registryVars>>

MagicServed(c) == EndEmpty(c, "magic", "Completed")
MotdServed(c) == EndEmpty(c, "motd", "Completed")

\* The API is asked, and told the online count read here, which nothing of
\* the proxy depends on; a hello that does not decode fails the connection
\* (see Fail).
LoginStart(c) ==
    /\ Resume(c, "loginStart", "join")
    /\ UNCHANGED <<running, sessionVars, resultVars, sharedVars, registryVars>>

-----------------------------------------------------------------------------
(* on_login: the decision of the join API *)

\* The mock API numbers its ids with one counter for the whole process; the
\* HTTP API is free in what it grants, and may leave the id out.
Grantable(id) == id # NoId /\ UniqueIds => \A d \in Conns : route[d] # id

JoinAllow(c, id) ==
    /\ Resume(c, "join", "route")
    /\ Grantable(id)
    /\ route' = [route EXCEPT ![c] = id]
    /\ UNCHANGED <<running, kind, connId, traffic, resultVars, sharedVars, registryVars>>

\* The API allows the login with an address that does not parse.
JoinUnusable(c) == running /\ EndWithTraffic(c, "join", "Failed")

\* A denial, an unexpected status, an error or a timeout of the request.
JoinDeny(c) ==
    /\ Resume(c, "join", "kick")
    /\ UNCHANGED <<running, sessionVars, resultVars, sharedVars, registryVars>>

Kicked(c) == EndEmpty(c, "kick", "Handled")

-----------------------------------------------------------------------------
(* proxy_connection *)

\* The rewritten handshake cannot be encoded, which comes after the
\* registration if there is one.
Unencodable(c) ==
    \/ route[c] = NoId /\ EndWithTraffic(c, "route", "Failed")
    \/ rpc[c] = "registered" /\ EndWithTraffic(c, "updating", "Failed")

RouteAnonymous(c) ==
    /\ route[c] = NoId
    /\ Go(c, "route", "connect")
    /\ UNCHANGED <<running, sessionVars, resultVars, sharedVars, registryVars>>

RouteRegister(c) ==
    /\ route[c] # NoId
    /\ Go(c, "route", "outbound")
    /\ connId' = [connId EXCEPT ![c] = route[c]]
    /\ R!Register(c, route[c])
    /\ UNCHANGED <<running, kind, route, traffic, resultVars, sharedVars>>

RouteOutbound(c) ==
    /\ Go(c, "outbound", "updating")
    /\ R!UpdateOutbound(c)
    /\ UNCHANGED <<running, sessionVars, resultVars, sharedVars>>

RouteUpdate(c) ==
    /\ stage[c] = "updating"
    /\ R!Step(c)
    /\ UNCHANGED <<running, stage, sessionVars, resultVars, sharedVars>>

RouteUpdated(c) ==
    /\ rpc[c] = "registered"
    /\ Go(c, "updating", "connect")
    /\ UNCHANGED <<running, sessionVars, resultVars, sharedVars, registryVars>>

\* The upstream is connected; on_connection_established puts the session in
\* the traffic reporter's map.
Connected(c) ==
    /\ Resume(c, "connect", "hello")
    /\ IF route[c] = NoId
       THEN UNCHANGED <<active, recorded>>
       ELSE /\ active' = [active EXCEPT ![route[c]] = c]
            /\ recorded' = recorded \cup {c}
    /\ UNCHANGED <<running, sessionVars, resultVars, closed, settled, registryVars>>

HelloSent(c) ==
    /\ Resume(c, "hello", "relay")
    /\ UNCHANGED <<running, sessionVars, resultVars, sharedVars, registryVars>>

\* Faulty: counts the size of the buffer, not of what was read into it.
RelayBuffer(c, d) ==
    /\ running
    /\ stage[c] = "relay"
    /\ traffic[c]["up"] + traffic[c]["down"] < MaxBytes
    /\ traffic' = [traffic EXCEPT ![c][d] = @ + MaxBytes + 1]
    /\ UNCHANGED <<running, stage, kind, connId, route, resultVars, sharedVars, registryVars>>

RelayByte(c, d) ==
    /\ running
    /\ stage[c] = "relay"
    /\ traffic[c]["up"] + traffic[c]["down"] < MaxBytes
    /\ traffic' = [traffic EXCEPT ![c][d] = @ + 1]
    /\ UNCHANGED <<running, stage, kind, connId, route, resultVars, sharedVars, registryVars>>

RelayDone(c) == running /\ EndWithTraffic(c, "relay", "Completed")

-----------------------------------------------------------------------------
(* finalize_connection *)

\* Faulty: there is nothing to tell of a connection that relayed nothing.
FinishHookIdle(c) ==
    /\ Go(c, "hook", "settleUp")
    /\ IF connId[c] # NoId /\ active[connId[c]] # Absent
       THEN /\ active' = [active EXCEPT ![connId[c]] = Absent]
            /\ closed' = IF report[c] = NoTraffic THEN closed
                         ELSE [closed EXCEPT ![c] = [id |-> connId[c], traffic |-> report[c]]]
       ELSE UNCHANGED <<active, closed>>
    /\ UNCHANGED <<running, sessionVars, resultVars, recorded, settled, registryVars>>

\* on_connection_finished: finish() takes the record out of the map and
\* spawns the closed event; without a record it only warns.
FinishHook(c) ==
    /\ Go(c, "hook", "settleUp")
    /\ IF connId[c] # NoId /\ active[connId[c]] # Absent
       THEN /\ active' = [active EXCEPT ![connId[c]] = Absent]
            /\ closed' = [closed EXCEPT ![c] = [id |-> connId[c], traffic |-> report[c]]]
       ELSE UNCHANGED <<active, closed>>
    /\ UNCHANGED <<running, sessionVars, resultVars, recorded, settled, registryVars>>

\* record_finished_connection: one fetch_add per direction.
Settle(c, d, from, to) ==
    /\ Go(c, from, to)
    /\ settled' = [settled EXCEPT ![d] = @ + report[c][d]]
    /\ UNCHANGED <<running, sessionVars, resultVars, active, recorded, closed, registryVars>>

\* Faulty: stops with the process.
SettleDownloadRunning(c) == running /\ Settle(c, "down", "settleDown", "unregister")

SettleUpload(c) == Settle(c, "up", "settleUp", "settleDown")
SettleDownload(c) == Settle(c, "down", "settleDown", "unregister")

UnregisterNothing(c) ==
    /\ connId[c] = NoId
    /\ Go(c, "unregister", "done")
    /\ UNCHANGED <<running, sessionVars, resultVars, sharedVars, registryVars>>

\* Faulty: only connections that ended well are unregistered.
UnregisterCompleted(c) ==
    /\ connId[c] # NoId
    /\ Go(c, "unregister", "removing")
    /\ IF outcome[c] = "Completed" THEN R!RemoveEntry(c) ELSE UNCHANGED registryVars
    /\ UNCHANGED <<running, sessionVars, resultVars, sharedVars>>

Unregister(c) ==
    /\ connId[c] # NoId
    /\ Go(c, "unregister", "removing")
    /\ R!RemoveEntry(c)
    /\ UNCHANGED <<running, sessionVars, resultVars, sharedVars>>

\* Faulty: never decrements.
UnregisteredUncounted(c) ==
    /\ Go(c, "removing", "done")
    /\ UNCHANGED <<running, sessionVars, resultVars, sharedVars, registryVars>>

Unregistered(c) ==
    /\ Go(c, "removing", "done")
    /\ IF rpc[c] = "decrement" THEN R!DecrementCount(c) ELSE UNCHANGED registryVars
    /\ UNCHANGED <<running, sessionVars, resultVars, sharedVars>>

-----------------------------------------------------------------------------
\* Steps that wait for a client, the API or an upstream.
Await(c) ==
    \/ LegacyPing(c) \/ FirstByte(c)
    \/ MagicHandshake(c) \/ StatusHandshake(c) \/ LoginHandshake(c)
    \/ MagicServed(c) \/ MotdServed(c)
    \/ LoginStart(c)
    \/ \E id \in Ids \cup {NoId} : JoinAllow(c, id)
    \/ JoinUnusable(c) \/ JoinDeny(c) \/ Kicked(c)
    \/ Connected(c) \/ HelloSent(c)
    \/ \E d \in Dirs : RelayByte(c, d)
    \/ RelayDone(c)
    \/ Fail(c)

\* Steps between two awaits.
Compute(c) ==
    \/ Unencodable(c)
    \/ RouteAnonymous(c) \/ RouteRegister(c)
    \/ RouteOutbound(c) \/ RouteUpdate(c) \/ RouteUpdated(c)
    \/ FinishHook(c) \/ SettleUpload(c) \/ SettleDownload(c)
    \/ UnregisterNothing(c) \/ Unregister(c) \/ Unregistered(c)

Next == Stop \/ \E c \in Conns : Accept(c) \/ Await(c) \/ Compute(c)

\* tokio fires a timer that is due.  Only these awaits are under one: the
\* first byte and the handshake (first_packet_timeout_ms), the join request
\* (the client's timeout_ms) and the connect (upstream_connect_timeout_ms).
Timeout(c) == \/ stage[c] \in {"firstByte", "handshake", "connect"} /\ Fail(c)
              \/ JoinDeny(c)

\* The runtime goes on with a task that is not suspended, and fires timers.
Fairness == \A c \in Conns : WF_vars(Compute(c)) /\ WF_vars(Timeout(c))

Spec == Init /\ [][Next]_vars /\ Fairness

-----------------------------------------------------------------------------
(* Properties *)

Unfinished(c) == stage[c] # "done"

\* Finalization leaves nothing behind: an entry of the registry or of the
\* traffic reporter's map is there for a connection with that id that has
\* still to be finalized, also when two connections were given the same id.
NothingLeftBehind ==
    \A id \in Ids :
        /\ sessions[id] # Absent => \E c \in Conns : connId[c] = id /\ Unfinished(c)
        /\ active[id] # Absent =>
             \E c \in Conns : connId[c] = id /\ stage[c] \in {"connect", "hello", "relay", "hook"}

SettledBy(d) ==
    {c \in Conns : stage[c] \in {"unregister", "removing", "done"}
                     \cup IF d = "up" THEN {"settleDown"} ELSE {}}

\* The bytes of a connection in one direction, numbered.
BytesOf(c, d) == {c} \X (1 .. traffic[c][d])

\* Every byte a connection has relayed is in the settled totals, once, as
\* soon as its finalization has added it: no early return or error path
\* drops the session's counters, no path settles twice.
SettledExactly ==
    \A d \in Dirs :
        settled[d] = Cardinality(UNION {BytesOf(c, d) : c \in SettledBy(d)})

Past(c) == stage[c] \in {"settleUp", "settleDown", "unregister", "removing", "done"}

\* No two connections were granted the same id.
DistinctRoutes ==
    \A c, d \in Conns : c # d /\ route[c] # NoId => route[c] # route[d]

\* The API hears of the end of every connection it was given a record of, that
\* is, whose upstream was connected: by the time the finish hook is past,
\* whatever the connection relayed or failed with, a closed event of its id has
\* been spawned, its own one if the id was granted once.  If it was granted twice,
\* whoever finishes first may take the other's record out.  The byte counts of
\* an event are the final ones of the connection that sent it.
ClosedOnceWithFinalTraffic ==
    /\ \A c \in Conns :
          closed[c] # NoReport =>
              Past(c) /\ closed[c] = [id |-> connId[c], traffic |-> traffic[c]]
    /\ \A c \in recorded :
          Past(c) => \E d \in Conns :
              /\ closed[d] # NoReport /\ connId[d] = connId[c]
              /\ DistinctRoutes => d = c

Counted(c) == connId[c] # NoId
                /\ stage[c] \in {"connect", "hello", "relay"} \cup (Finalizing \ {"removing"})

\* With ids granted once, the online count is the number of connections that
\* are being proxied, but for those in the middle of coming or going.  They
\* count from before their upstream is connected until after their totals are
\* settled.
OnlineTracksProxying ==
    DistinctRoutes =>
        /\ onlineCount >= Cardinality({c \in Conns : Counted(c)})
        /\ onlineCount <= Cardinality({c \in Conns : Counted(c) \/ stage[c] \in {"updating", "removing"}})

\* Liveness: the awaits under a timeout end although the client, the API or
\* the upstream never answers; and a finalization that has begun is completed, also
\* when the process is told to stop in the middle of it, since it never awaits.
TimedStages == {"firstByte", "handshake", "join", "connect"}
ConnectionsEnd ==
    \A c \in Conns :
        /\ stage[c] \in TimedStages ~> stage[c] \notin TimedStages \/ ~running
        /\ stage[c] = "hook" ~> stage[c] = "done"
=============================================================================
