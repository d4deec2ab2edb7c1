-------------------------------- MODULE Motd --------------------------------
(***************************************************************************)
(* The status exchange of src/motd: a client that asks for the server's     *)
(* status and may then ping, the handler (serve and StatusContext), and the *)
(* upstream it may ask in turn (UpstreamStatusSession); and the legacy ping, *)
(* which is one byte and gets one answer (serve_legacy_ping).               *)
(*                                                                          *)
(* A packet is its kind.  A status sent to the client is reduced to where   *)
(* its text comes from, a pong to whose payload it carries.                 *)
(***************************************************************************)
EXTENDS Naturals, Sequences

CONSTANT MaxSent   \* bound: packets the client sends

ASSUME MotdAssumption == MaxSent \in Nat \ {0}

VARIABLES
    config,        \* the settings the exchange is served by
    exchange,      \* what serve() does next
    fromClient,    \* packets of the client not yet read
    asked,         \* packets the client has sent
    session,       \* an UpstreamStatusSession is open
    hasJson,       \* its status_json is read
    owed,          \* requests the upstream has still to answer
    fromUpstream,  \* packets of the upstream not yet read
    gone,          \* peers that have closed their connection
    toClient       \* what the client was sent

askVars == <<fromClient, asked>>
upstreamVars == <<session, hasJson, owed, fromUpstream>>
motdVars == <<config, exchange, askVars, upstreamVars, gone, toClient>>

\* MotdMode, MotdFaviconMode ("Json" stands for Remove as well),
\* StatusPingMode, and which of the three addresses parse.
Config == [mode : {"Local", "Upstream"},
           favicon : {"Json", "Path", "Passthrough"},
           ping : {"Local", "ZeroMs", "Passthrough", "Disconnect"},
           parses : SUBSET {"upstream", "favicon", "ping"}]

Waits == {"request", "connect", "readJson", "build", "ping",
          "connectPing", "readPingJson", "pong", "legacy", "legacyRead"}

Status == [kind : {"status"}, text : {"local", "upstream"}]
Legacy == [kind : {"legacy"}, text : {"local", "upstream", "template"}]
Pong == [kind : {"pong"}, payload : {"client", "zero"}]

MotdTypeOK ==
    /\ config \in Config
    /\ exchange \in Waits \cup {"done", "failed"}
    /\ fromClient \in Seq({"request", "ping"})
    /\ asked \in Seq({"request", "ping", "legacy"}) /\ Len(asked) <= MaxSent
    /\ session \in BOOLEAN /\ hasJson \in BOOLEAN
    /\ owed \in Seq({"request", "ping"})
    /\ fromUpstream \in Seq({"status", "pong"})
    /\ gone \subseteq {"client", "upstream"}
    /\ toClient \in Seq(Status \cup Pong \cup Legacy)

MotdInit ==
    /\ config \in Config
    /\ \/ exchange = "request" /\ asked = <<>>
       \/ exchange = "legacy" /\ asked = <<"legacy">>
    /\ fromClient = <<>>
    /\ session = FALSE /\ hasJson = FALSE
    /\ owed = <<>> /\ fromUpstream = <<>>
    /\ gone = {}
    /\ toClient = <<>>

Goes(from, to) == exchange = from /\ exchange' = to

ClientSent(kind) == fromClient # <<>> /\ Head(fromClient) = kind
UpstreamSent(kind) == fromUpstream # <<>> /\ Head(fromUpstream) = kind

-----------------------------------------------------------------------------
(* The peers, which are outside the program *)

\* What follows a legacy ping is never read, and left out.
ClientAsks(kind) ==
    /\ "client" \notin gone /\ Len(asked) < MaxSent /\ asked # <<"legacy">>
    /\ asked' = Append(asked, kind)
    /\ fromClient' = Append(fromClient, kind)
    /\ UNCHANGED <<config, exchange, upstreamVars, gone, toClient>>

UpstreamAnswers ==
    /\ "upstream" \notin gone /\ owed # <<>>
    /\ owed' = Tail(owed)
    /\ fromUpstream' = Append(fromUpstream, IF Head(owed) = "request" THEN "status" ELSE "pong")
    /\ UNCHANGED <<config, exchange, askVars, session, hasJson, gone, toClient>>

Leaves(peer) ==
    /\ peer \notin gone
    /\ gone' = gone \cup {peer}
    /\ UNCHANGED <<config, exchange, askVars, upstreamVars, toClient>>

-----------------------------------------------------------------------------
(* Which upstream is asked *)

WantsUpstream == \/ config.mode = "Upstream"
                 \/ config.favicon = "Passthrough"
                 \/ config.ping = "Passthrough"

UpstreamTarget == IF config.mode = "Upstream" THEN "upstream"
                  ELSE IF config.favicon = "Passthrough" THEN "favicon"
                  ELSE "ping"

NeedsJson == config.mode = "Upstream" \/ config.favicon = "Passthrough"

-----------------------------------------------------------------------------
(* serve *)

\* A target that does not parse means no session, an upstream address that
\* does not parse (it replaces the host of the handshake) an error.
ReadRequest ==
    /\ ClientSent("request")
    /\ fromClient' = Tail(fromClient)
    /\ Goes("request",
          IF ~(WantsUpstream /\ UpstreamTarget \in config.parses) THEN "build"
          ELSE IF "upstream" \in config.parses THEN "connect" ELSE "failed")
    /\ UNCHANGED <<config, asked, upstreamVars, gone, toClient>>

\* Faulty: sends the request once more when its answer will be needed.
ConnectTwice ==
    /\ "upstream" \notin gone
    /\ session' = TRUE
    /\ owed' = IF NeedsJson THEN owed \o <<"request", "request">> ELSE Append(owed, "request")
    /\ Goes("connect", IF NeedsJson THEN "readJson" ELSE "build")
    /\ UNCHANGED <<config, askVars, hasJson, fromUpstream, gone, toClient>>

\* The handshake and the client's request are sent in either case; the
\* answer is read only if it is needed.
Connect ==
    /\ "upstream" \notin gone
    /\ session' = TRUE
    /\ owed' = Append(owed, "request")
    /\ Goes("connect", IF NeedsJson THEN "readJson" ELSE "build")
    /\ UNCHANGED <<config, askVars, hasJson, fromUpstream, gone, toClient>>

ReadJson ==
    /\ UpstreamSent("status")
    /\ fromUpstream' = Tail(fromUpstream)
    /\ hasJson' = TRUE
    /\ Goes("readJson", "build")
    /\ UNCHANGED <<config, askVars, session, owed, gone, toClient>>

\* Faulty: the setting is sent where the text should be.
StatusSentAsSet == [kind |-> "status", text |-> config.mode]

\* render_local_json answers a local exchange, build_json the others.
StatusSent ==
    [kind |-> "status", text |-> IF config.mode = "Local" THEN "local" ELSE "upstream"]

SendStatus ==
    /\ config.mode = "Upstream" => session
    /\ Goes("build", IF config.ping \in {"ZeroMs", "Disconnect"} THEN "done" ELSE "ping")
    /\ toClient' = toClient \o
          IF config.ping = "ZeroMs"
          THEN <<StatusSent, [kind |-> "pong", payload |-> "zero"]>>
          ELSE <<StatusSent>>
    /\ UNCHANGED <<config, askVars, upstreamVars, gone>>

SendPong == toClient' = Append(toClient, [kind |-> "pong", payload |-> "client"])

-----------------------------------------------------------------------------
(* StatusContext::finish *)

ReadPingLocal ==
    /\ config.ping = "Local" /\ ClientSent("ping")
    /\ fromClient' = Tail(fromClient)
    /\ Goes("ping", "done")
    /\ SendPong
    /\ UNCHANGED <<config, asked, upstreamVars, gone>>

\* The session that is open is asked.
ReadPingOpen ==
    /\ config.ping = "Passthrough" /\ session /\ ClientSent("ping")
    /\ fromClient' = Tail(fromClient)
    /\ owed' = Append(owed, "ping")
    /\ Goes("ping", "pong")
    /\ UNCHANGED <<config, asked, session, hasJson, fromUpstream, gone, toClient>>

\* Without one, another is opened to the ping target.
ReadPingClosed ==
    /\ config.ping = "Passthrough" /\ ~session /\ ClientSent("ping")
    /\ fromClient' = Tail(fromClient)
    /\ Goes("ping", IF {"ping", "upstream"} \subseteq config.parses THEN "connectPing" ELSE "failed")
    /\ UNCHANGED <<config, asked, upstreamVars, gone, toClient>>

ConnectPing ==
    /\ "upstream" \notin gone
    /\ session' = TRUE
    /\ owed' = Append(owed, "request")
    /\ Goes("connectPing", "readPingJson")
    /\ UNCHANGED <<config, askVars, hasJson, fromUpstream, gone, toClient>>

\* Faulty: waits for the pong without having sent the ping.
ReadPingJsonOnly ==
    /\ UpstreamSent("status")
    /\ fromUpstream' = Tail(fromUpstream)
    /\ hasJson' = TRUE
    /\ Goes("readPingJson", "pong")
    /\ UNCHANGED <<config, askVars, session, owed, gone, toClient>>

ReadPingJson ==
    /\ UpstreamSent("status")
    /\ fromUpstream' = Tail(fromUpstream)
    /\ hasJson' = TRUE
    /\ owed' = Append(owed, "ping")
    /\ Goes("readPingJson", "pong")
    /\ UNCHANGED <<config, askVars, session, gone, toClient>>

ReadPong ==
    /\ UpstreamSent("pong")
    /\ fromUpstream' = Tail(fromUpstream)
    /\ Goes("pong", "done")
    /\ SendPong
    /\ UNCHANGED <<config, askVars, session, hasJson, owed, gone>>

-----------------------------------------------------------------------------
(* serve_legacy_ping *)

LegacyReply(text) == toClient' = Append(toClient, [kind |-> "legacy", text |-> text])

LegacyLocal ==
    /\ config.mode = "Local" /\ Goes("legacy", "done")
    /\ LegacyReply("local")
    /\ UNCHANGED <<config, askVars, upstreamVars, gone>>

\* The connect has no timeout but the kernel's.
LegacyConnect ==
    /\ config.mode = "Upstream" /\ Goes("legacy", "legacyRead")
    /\ "upstream" \in config.parses \ gone
    /\ session' = TRUE
    /\ owed' = Append(owed, "request")
    /\ UNCHANGED <<config, askVars, hasJson, fromUpstream, gone, toClient>>

\* For a status that does not decode, the template of the local text stands in
\* as it is, with nothing filled in.
LegacyRead ==
    /\ UpstreamSent("status")
    /\ fromUpstream' = Tail(fromUpstream)
    /\ Goes("legacyRead", "done")
    /\ LegacyReply("upstream") \/ LegacyReply("template")
    /\ UNCHANGED <<config, askVars, session, hasJson, owed, gone>>

-----------------------------------------------------------------------------
(* Errors end the exchange *)

Fails(from) ==
    /\ Goes(from, "failed")
    /\ UNCHANGED <<config, askVars, upstreamVars, gone, toClient>>

\* A packet of the client that does not decode as what is expected, or its end.
ClientFails ==
    \/ fromClient # <<>> /\ ~ClientSent("request") /\ Fails("request")
    \/ fromClient # <<>> /\ ~ClientSent("ping") /\ Fails("ping")
    \/ fromClient = <<>> /\ "client" \in gone /\ (Fails("request") \/ Fails("ping"))
    \/ "client" \in gone /\ (Fails("build") \/ (config.mode = "Local" /\ Fails("legacy")))
    \/ "client" \in gone /\ UpstreamSent("status") /\ Fails("legacyRead")

\* A connect that is refused or timed out; of a legacy ping, also one to an
\* address that does not parse.
ConnectFails == \/ Fails("connect") \/ Fails("connectPing")
                \/ config.mode = "Upstream" /\ Fails("legacy")

\* A status that is too large for MAX_STATUS_PACKET_SIZE or does not decode,
\* a packet read as a pong that is none, or the upstream's end.
UpstreamFails ==
    \E from \in {"readJson", "readPingJson", "pong", "legacyRead"} :
        /\ UpstreamSent("status") \/ (fromUpstream = <<>> /\ "upstream" \in gone)
        /\ Fails(from)

\* Upstream mode without a session.
BuildFails == config.mode = "Upstream" /\ ~session /\ Fails("build")

\* A favicon file that cannot be read; a local text does without it.
FaviconFails == config.mode = "Upstream" /\ config.favicon = "Path" /\ Fails("build")

-----------------------------------------------------------------------------
Serve == \/ ReadRequest \/ Connect \/ ReadJson \/ SendStatus
         \/ ReadPingLocal \/ ReadPingOpen \/ ReadPingClosed
         \/ ConnectPing \/ ReadPingJson \/ ReadPong
         \/ LegacyLocal \/ LegacyConnect \/ LegacyRead
         \/ ClientFails \/ ConnectFails \/ UpstreamFails
         \/ BuildFails \/ FaviconFails

MotdNext == \/ Serve
            \/ \E kind \in {"request", "ping"} : ClientAsks(kind)
            \/ UpstreamAnswers
            \/ \E peer \in {"client", "upstream"} : Leaves(peer)

\* The handler runs.  Its reads have no timeout of their own, so nothing
\* can be said of an exchange unless an upstream that owes an answer gives
\* it or leaves; one that owes none may stay and be silent for ever.
Fairness ==
    /\ WF_motdVars(Serve)
    /\ WF_motdVars(owed # <<>> /\ (UpstreamAnswers \/ Leaves("upstream")))

MotdSpec == MotdInit /\ [][MotdNext]_motdVars /\ Fairness

-----------------------------------------------------------------------------
(* Properties *)

\* The client gets one status, and after it at most one pong: none in
\* Disconnect mode, and its own payload only once it has been read from a
\* ping, and, when pings are passed through, back from the upstream.  A legacy
\* ping gets one answer and nothing else.  The upstream in turn is asked one
\* thing at a time: once its status has been read, or a legacy ping is
\* served, the handler waits for the one answer that is due and never leaves
\* another behind, so that packets cannot be taken for each other.
OneAnswerEach ==
    /\ Len(toClient) <= 2
    /\ \A i \in DOMAIN toClient :
          /\ (toClient[i].kind = "pong") = (i = 2)
          /\ (toClient[i].kind = "legacy") = (asked = <<"legacy">>)
    /\ Len(toClient) = 2 =>
          /\ exchange = "done" /\ config.ping # "Disconnect"
          /\ (toClient[2].payload = "zero") = (config.ping = "ZeroMs")
          /\ config.ping = "Passthrough" => session /\ owed = <<>> /\ fromUpstream = <<>>
    /\ exchange # "failed" /\ (hasJson \/ asked = <<"legacy">>) =>
          Len(owed) + Len(fromUpstream) = IF exchange \in {"pong", "legacyRead"} THEN 1 ELSE 0

\* Liveness: the exchange ends; the handler never waits for a packet that
\* neither the client nor the upstream has any reason to send.
ExchangeEnds == asked \in {<<"request", "ping">>, <<"legacy">>} ~> exchange \in {"done", "failed"}

\* What ping() reads and decodes as the pong is the pong.
PongIsNext == exchange = "pong" /\ fromUpstream # <<>> => UpstreamSent("pong")
=============================================================================
