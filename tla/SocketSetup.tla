----------------------------- MODULE SocketSetup -----------------------------
(***************************************************************************)
(* How a TCP socket of the proxy is made ready: the connect to an upstream  *)
(* (crates/prism/src/outbound), which tries the addresses of a name one     *)
(* after the other, the listener and the sockets it accepts                 *)
(* (crates/prism/src/inbound), and the options that crates/prism/src/network *)
(* sets on each of them, some of which may fail and some of which may not.   *)
(*                                                                          *)
(* The build is one for Linux, with the feature linux-accel or without it.   *)
(* MOTD's connects (src/motd) and the API's client make sockets of their own, *)
(* to which none of this applies.                                            *)
(*                                                                          *)
(* An option is its name; what it is set to is left out.  Whether a system  *)
(* call succeeds, and what the hosts behind the addresses do, is chosen     *)
(* freely.                                                                  *)
(***************************************************************************)
EXTENDS Naturals, Sequences

CONSTANTS
    Optional,     \* options that the configuration may ask for or not
    MaxAddrs      \* bound: addresses a name resolves to

\* What a host does with a SYN, and whether the kernel has a Fast Open cookie
\* of it.
Hosts == [does : {"answers", "refuses", "unroutable", "silent"}, cookie : BOOLEAN]

\* The options in the order in which they are set.
PreBind == <<"reuse_address", "reuse_port", "interface", "mark">>
PostListen == <<"fastopen", "congestion">>
PreConnect == <<"interface", "mark", "congestion", "fastopen">>
SockRef == <<"nodelay", "keepalive", "quickack", "tos", "notsent_lowat", "busy_poll",
             "recv_buffer", "send_buffer">>

Always == {"nodelay", "keepalive"}
Names(list) == {list[i] : i \in DOMAIN list}
AllOptions == UNION {Names(l) : l \in {PreBind, PostListen, PreConnect, SockRef}}

\* Options that only a build with the feature linux-accel has code for.
Accelerated == {"interface", "mark", "congestion", "fastopen", "quickack", "tos",
                "notsent_lowat", "busy_poll"}

ASSUME SetupAssumption ==
    Optional \subseteq AllOptions \ Always /\ MaxAddrs \in Nat

VARIABLES
    accel,     \* built with the feature linux-accel
    role,      \* what the socket is for
    wanted,    \* the options that are configured
    hosts,     \* what the addresses stand for
    at,        \* the address that is being tried
    stage,
    todo,      \* options still to be set in this stage
    applied,   \* options set on the socket
    used,      \* per bind or connect: the address and the options set by then
    unusable,  \* addresses that were given up before a connect
    result

configVars == <<accel, role, wanted, hosts>>
vars == <<configVars, at, stage, todo, applied, used, unusable, result>>

\* The configured options that this build sets.  The loader leaves the others
\* in the configuration (src/config/canonicalize.rs), and nobody tells of them.
Supported == IF accel THEN wanted ELSE wanted \ Accelerated

\* Options whose failure is logged and ignored.
BestEffort == {"fastopen", "congestion", "tos", "notsent_lowat", "busy_poll"}

\* Options whose failure is an error; a congestion control whose name
\* contains a NUL is one too.
MayFail == (AllOptions \ BestEffort) \cup {"congestion"}

TypeOK ==
    /\ accel \in BOOLEAN
    /\ role \in {"connect", "listen", "accept"}
    /\ wanted \in SUBSET AllOptions /\ Always \subseteq wanted
    /\ hosts \in Seq(Hosts) /\ Len(hosts) <= MaxAddrs
    /\ at \in 0 .. MaxAddrs
    /\ stage \in {"resolve", "socket", "before", "writable", "after", "end"}
    /\ todo \in Seq(AllOptions) /\ Names(todo) \cap applied = {}
    /\ applied \subseteq wanted
    /\ used \subseteq [addr : 1 .. MaxAddrs, applied : SUBSET wanted]
    /\ unusable \subseteq 1 .. MaxAddrs
    /\ result \in {"none", "ok", "lookup", "attempts", "options", "bind", "timeout"}

Init ==
    /\ accel \in BOOLEAN
    /\ role \in {"connect", "listen", "accept"}
    /\ \E chosen \in SUBSET Optional : wanted = Always \cup chosen
    /\ \E n \in 0 .. MaxAddrs : hosts \in [1 .. n -> Hosts]
    /\ at = 0
    /\ stage = IF role = "accept" THEN "after" ELSE "resolve"
    /\ todo = IF role = "accept" THEN SockRef ELSE <<>>
    /\ applied = {}
    /\ used = {}
    /\ unusable = {}
    /\ result = "none"

Finish(r) == /\ stage' = "end" /\ result' = r
             /\ UNCHANGED <<at, todo, applied>>

-----------------------------------------------------------------------------
(* The addresses of a name *)

\* Faulty: counts the options of the last socket as set on the next one.
TryNextKeepsOptions ==
    IF at < Len(hosts) /\ (role = "connect" \/ at = 0)
    THEN /\ at' = at + 1
         /\ stage' = "socket"
         /\ todo' = <<>>
         /\ UNCHANGED <<applied, result>>
    ELSE Finish("attempts")

\* The loop of try_connect; a listener has one address only.
TryNext ==
    IF at < Len(hosts) /\ (role = "connect" \/ at = 0)
    THEN /\ at' = at + 1
         /\ stage' = "socket"
         /\ todo' = <<>> /\ applied' = {}
         /\ UNCHANGED result
    ELSE Finish("attempts")

\* lookup_host gives some addresses, perhaps none, or fails.
Resolve ==
    /\ stage = "resolve"
    /\ IF hosts = <<>> THEN Finish("lookup") ELSE TryNext \/ Finish("lookup")
    /\ UNCHANGED <<configVars, used, unusable>>

\* The attempt at this address is over before anything was sent.
GiveUpAddress == unusable' = unusable \cup {at} /\ TryNext

-----------------------------------------------------------------------------
(* The socket and its options *)

\* An MPTCP socket if configured, built for and known to the kernel, otherwise
\* a TCP one.
CreateSocket ==
    /\ stage = "socket"
    /\ stage' = "before"
    /\ todo' = IF role = "listen" THEN PreBind ELSE PreConnect
    /\ UNCHANGED <<configVars, at, applied, used, unusable, result>>

\* No socket: an error of the MPTCP socket other than that it is not
\* supported, or any error of the TCP socket.
CreateFails ==
    /\ stage = "socket"
    /\ GiveUpAddress
    /\ UNCHANGED <<configVars, used>>

\* An option that is not configured is left as it is, and so is one that the
\* build has no code for.
SetOption ==
    /\ stage \in {"before", "after"} /\ todo # <<>>
    /\ todo' = Tail(todo)
    /\ applied' = applied \cup ({Head(todo)} \cap Supported)
    /\ UNCHANGED <<configVars, at, stage, used, unusable, result>>

\* Faulty: goes on without the mark, too.
OptionIgnoredMark ==
    /\ stage \in {"before", "after"} /\ todo # <<>>
    /\ Head(todo) \in Supported \cap (BestEffort \cup {"mark"})
    /\ todo' = Tail(todo)
    /\ UNCHANGED <<configVars, at, stage, applied, used, unusable, result>>

OptionIgnored ==
    /\ stage \in {"before", "after"} /\ todo # <<>>
    /\ Head(todo) \in Supported \cap BestEffort
    /\ todo' = Tail(todo)
    /\ UNCHANGED <<configVars, at, stage, applied, used, unusable, result>>

\* Before a connect, the address is given up; before a bind, the listener.
OptionFailsBefore ==
    /\ stage = "before" /\ todo # <<>>
    /\ Head(todo) \in Supported \cap MayFail
    /\ IF role = "connect" THEN GiveUpAddress
       ELSE Finish("options") /\ UNCHANGED unusable
    /\ UNCHANGED <<configVars, used>>

\* After a connect, all of it fails, and no other address is tried.  On an
\* accepted socket, and on both at the start of a relay, the rest of the options is
\* left out and the connection goes on.
OptionFailsAfter ==
    /\ stage = "after" /\ todo # <<>>
    /\ Head(todo) \in Supported \cap MayFail
    /\ Finish(IF role = "accept" THEN "ok" ELSE "options")
    /\ UNCHANGED <<configVars, used, unusable>>

-----------------------------------------------------------------------------
(* bind, listen, connect *)

Prepared == stage = "before" /\ todo = <<>>
Use == used' = used \cup {[addr |-> at, applied |-> applied]}

Bind ==
    /\ Prepared /\ role = "listen"
    /\ Use
    /\ \/ /\ stage' = "after" /\ todo' = PostListen
          /\ UNCHANGED <<at, applied, result>>
       \/ Finish("bind")
    /\ UNCHANGED <<configVars, unusable>>

\* The socket counts as connected before anything was sent if Fast Open is on
\* and the kernel has a cookie of the host; the handshake is then left to the
\* first write.
Deferred == "fastopen" \in applied /\ hosts[at].cookie

Connected == /\ stage' = "after" /\ todo' = SockRef
             /\ UNCHANGED <<at, applied, result>>

\* connect() of a socket that does not block.
Connect ==
    /\ Prepared /\ role = "connect"
    /\ Use
    /\ \/ Deferred /\ Connected
       \/ ~Deferred /\ hosts[at].does = "unroutable" /\ TryNext
       \/ ~Deferred /\ hosts[at].does # "unroutable"
          /\ stage' = "writable" /\ UNCHANGED <<at, todo, applied, result>>
    /\ UNCHANGED <<configVars, unusable>>

\* Faulty: does not look at the socket's error.
WritableUnchecked ==
    /\ stage = "writable" /\ hosts[at].does \in {"answers", "refuses"}
    /\ Connected
    /\ UNCHANGED <<configVars, used, unusable>>

\* The socket becomes writable; take_error tells what came of the connect.
Writable ==
    /\ stage = "writable"
    /\ \/ hosts[at].does = "answers" /\ Connected
       \/ hosts[at].does = "refuses" /\ TryNext
    /\ UNCHANGED <<configVars, used, unusable>>

\* Faulty: one that does not cover the wait for the connection.
TimedOutResolving ==
    /\ role = "connect" /\ stage = "resolve"
    /\ Finish("timeout")
    /\ UNCHANGED <<configVars, used, unusable>>

\* One timeout for the lookup and all addresses together.
TimedOut ==
    /\ role = "connect" /\ stage \in {"resolve", "writable"}
    /\ Finish("timeout")
    /\ UNCHANGED <<configVars, used, unusable>>

Ready ==
    /\ stage = "after" /\ todo = <<>>
    /\ Finish("ok")
    /\ UNCHANGED <<configVars, used, unusable>>

-----------------------------------------------------------------------------
Options == SetOption \/ OptionIgnored \/ OptionFailsBefore \/ OptionFailsAfter
Step == \/ Resolve \/ CreateSocket \/ CreateFails
        \/ Options
        \/ Bind \/ Connect \/ Ready

Next == Step \/ Writable \/ TimedOut

\* Local steps are taken, and a timer that is due fires; hosts need not answer.
Spec == Init /\ [][Next]_vars /\ WF_vars(Step) /\ WF_vars(TimedOut)

-----------------------------------------------------------------------------
(* Properties *)

Mandatory == {"interface", "mark"}

\* In a build with linux-accel, neither the listener nor a connect for a
\* player's connection goes by another interface or without the mark: such a
\* socket is bound or connected only with both of them set, if they are
\* configured, whichever address it is and whatever other option has failed.
\* A build without the feature sets neither, and says nothing.
PolicyHolds == accel => \A u \in used : wanted \cap Mandatory \subseteq u.applied

Tried == {u.addr : u \in used}

\* Addresses are tried in their order and up to the first that answers.  A
\* connect that gives up has tried all of them; one that succeeds has found a
\* host that answers, or has left that to the first write.
TriedInOrder ==
    /\ Tried \cup unusable \subseteq 1 .. at
    /\ \A i \in Tried : i < at => hosts[i].does \in {"refuses", "unroutable"}
    /\ role = "connect" /\ result = "attempts" => Tried \cup unusable = DOMAIN hosts
    /\ role = "connect" /\ result = "ok" => hosts[at].does = "answers" \/ Deferred

\* Liveness: setting a socket up ends, also if a host stays silent; an
\* accepted connection is never refused for its options.
SetupEnds ==
    /\ stage # "end" ~> stage = "end"
    /\ role = "accept" ~> result = "ok"
=============================================================================
