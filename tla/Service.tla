------------------------------- MODULE Service -------------------------------
(***************************************************************************)
(* The process around the connections: run() of src/proxy, which loads      *)
(* config.toml, serves, loads it again when .reload is touched, and stops    *)
(* on a signal; PrismContext, from which a connection takes its             *)
(* configuration; and the runtime's blocking threads, on which splice       *)
(* relays run and for which the process waits at its end.                   *)
(*                                                                          *)
(* The main task runs inbound::run, the reload loop and the signal handler   *)
(* in one select!: between two awaits, no other of the three runs.  The      *)
(* connections have tasks of their own, and the operator changes files at    *)
(* any time.                                                                *)
(*                                                                          *)
(* The content of config.toml is a name.  Of the configuration there are     *)
(* three parts, which may be in force from three contents: prism, reduced    *)
(* to the relay's mode, and the log filter, which a reload replaces, and the  *)
(* rest, which it does not: the api section with the reporter's interval and  *)
(* the entry node's key, the log writers and the listener.                   *)
(***************************************************************************)
EXTENDS Naturals, FiniteSets

CONSTANTS
    Conns,       \* connections
    Good,        \* contents that can be used
    Splices,     \* those of them with the relay mode splice
    Default,     \* what is written when there is no file; also what an empty file means
    Broken,      \* contents that do not parse or are refused by validate_config
    BadLevel,    \* contents that load, but whose log level is no filter
    Fatal,       \* contents that make the loader panic, an api that is no table
    PoolSize,    \* blocking threads of the runtime (512 unless it is told otherwise)
    MaxTime,     \* bound: time stamps
    MaxEdits     \* bound: changes of config.toml

Contents == Good \cup Broken \cup BadLevel \cup Fatal \cup {"missing"}

ASSUME ServiceAssumption ==
    /\ Default \in Good /\ Splices \subseteq Good
    /\ (Good \cap (Broken \cup BadLevel \cup Fatal \cup {"missing", "none"})) = {}
    /\ IsFiniteSet(Conns) /\ PoolSize \in Nat /\ MaxTime \in Nat /\ MaxEdits \in Nat

VARIABLES
    accel,       \* built for Linux with the feature linux-accel
    file,        \* the content of config.toml
    edits,
    stamp,       \* modification time of .reload, 0 for none
    pc,          \* what the main task does next
    last,        \* the reload loop's last stamp
    loaded,      \* the configuration that is being loaded
    filter,      \* whose log level is in force
    running,     \* the configuration in PrismContext, config.prism
    atStart,     \* the content of which everything else is, as long as the
                 \* process lives
    signalled,   \* SIGINT or SIGTERM has come
    stage,       \* of each connection
    taken,       \* the configuration it connects and relays with while it lasts
    fresh        \* history: .reload was touched, later than the loop has seen
                 \* it, and config.toml has not changed since

fileVars == <<file, edits>>
mainVars == <<pc, last, loaded, filter, running, atStart>>
connVars == <<stage, taken>>
vars == <<accel, fileVars, stamp, mainVars, signalled, connVars, fresh>>

None == [from |-> "none", relay |-> "async"]
Config == [from : Good \cup BadLevel, relay : {"async", "splice"}]

Booting == running = None
Stages == {"none", "login", "connect", "queued", "blocking", "async", "done"}

TypeOK ==
    /\ accel \in BOOLEAN
    /\ file \in Contents /\ edits \in 0 .. MaxEdits
    /\ stamp \in 0 .. MaxTime /\ last \in 0 .. MaxTime
    /\ pc \in {"exists", "write", "read", "filter", "update", "watch", "wait",
               "draining", "exited"}
    /\ loaded \in Config \cup {None} /\ running \in Config \cup {None}
    /\ filter \in Good \cup {"none"} /\ atStart \in Good \cup BadLevel \cup {"none"}
    /\ signalled \in BOOLEAN /\ fresh \in BOOLEAN
    /\ stage \in [Conns -> Stages] /\ taken \in [Conns -> Config \cup {None}]
    /\ Cardinality({c \in Conns : stage[c] = "blocking"}) <= PoolSize

Init ==
    /\ accel \in BOOLEAN
    /\ file \in Contents /\ edits = 0
    /\ stamp \in 0 .. MaxTime
    /\ pc = "exists" /\ last = 0
    /\ loaded = None /\ filter = "none" /\ running = None /\ atStart = "none"
    /\ signalled = FALSE
    /\ stage = [c \in Conns |-> "none"] /\ taken = [c \in Conns |-> None]
    /\ fresh = FALSE

Alive == pc # "exited"

-----------------------------------------------------------------------------
(* The operator *)

\* An editor that empties the file before it writes is two changes.
Edit(content) ==
    /\ edits < MaxEdits /\ content # file
    /\ file' = content /\ edits' = edits + 1
    /\ fresh' = FALSE
    /\ UNCHANGED <<accel, stamp, mainVars, signalled, connVars>>

\* A touch, or a removal (0), or a clock that stands still or is set back.
\* While the process starts there is no loop yet, and a touch goes unseen.
Touch(time) ==
    /\ stamp' = time
    /\ fresh' = (~Booting /\ pc # "watch" /\ time > last)
    /\ UNCHANGED <<accel, fileVars, mainVars, signalled, connVars>>

Signal == /\ pc \notin {"draining", "exited"} /\ ~Booting
          /\ signalled' = TRUE
          /\ UNCHANGED <<accel, fileVars, stamp, mainVars, connVars, fresh>>

-----------------------------------------------------------------------------
(* The main task: loading a configuration, at the start and again *)

\* The runtime is dropped: tasks are cancelled at their await, and so are
\* jobs that no blocking thread has taken; running ones are waited for.
Drain ==
    /\ pc' = "draining"
    /\ stage' = [c \in Conns |-> IF stage[c] \in {"none", "blocking"} THEN stage[c] ELSE "done"]

\* Without a configuration run() returns the error; later it is logged.  A
\* touch that the loop has not seen yet is not answered by it.
LoadFails ==
    /\ IF Booting THEN Drain ELSE pc' = "wait" /\ UNCHANGED stage
    /\ fresh' = (fresh /\ stamp > last)

\* The loop's second is over: the stamp is marked as seen first of all.
Check ==
    /\ pc = "wait" /\ stamp > last
    /\ last' = stamp
    /\ pc' = "exists"
    /\ UNCHANGED <<accel, fileVars, stamp, loaded, filter, running, atStart,
                   signalled, connVars, fresh>>

Exists ==
    /\ pc = "exists"
    /\ pc' = IF file = "missing" THEN "write" ELSE "read"
    /\ UNCHANGED <<accel, fileVars, stamp, last, loaded, filter, running, atStart,
                   signalled, connVars, fresh>>

\* Also over a file that has come into being in between.
WriteDefault ==
    /\ pc = "write"
    /\ file' = Default
    /\ pc' = "read"
    /\ UNCHANGED <<accel, edits, stamp, last, loaded, filter, running, atStart,
                   signalled, connVars, fresh>>

WriteFails ==
    /\ pc = "write"
    /\ LoadFails
    /\ UNCHANGED <<accel, fileVars, stamp, last, loaded, filter, running, atStart,
                   signalled, taken>>

\* canonicalize_runtime_config: relays other than async, of which only splice
\* uses blocking threads, are for linux-accel only.
Canonical(content) ==
    [from |-> content, relay |-> IF content \in Splices /\ accel THEN "splice" ELSE "async"]

\* Faulty: warns of a level that is no filter, and goes on with the rest.
ReadLeniently ==
    /\ pc = "read" /\ file \in Good \cup BadLevel
    /\ loaded' = Canonical(file)
    /\ pc' = IF file \in Good THEN "filter" ELSE "update"
    /\ UNCHANGED <<accel, fileVars, stamp, last, filter, running, atStart, signalled, connVars,
                   fresh>>

\* Read, parsed, validated, made canonical, and its level made a filter.
Read ==
    /\ pc = "read" /\ file \in Good
    /\ loaded' = Canonical(file)
    /\ pc' = "filter"
    /\ UNCHANGED <<accel, fileVars, stamp, last, filter, running, atStart, signalled, connVars,
                   fresh>>

ReadFails ==
    /\ pc = "read" /\ file \in Broken \cup BadLevel \cup {"missing"}
    /\ LoadFails
    /\ UNCHANGED <<accel, fileVars, stamp, last, loaded, filter, running, atStart,
                   signalled, taken>>

\* A release build aborts on a panic, with all its connections.
Panic ==
    /\ pc = "read" /\ file \in Fatal
    /\ pc' = "exited"
    /\ stage' = [c \in Conns |-> "done"]
    /\ UNCHANGED <<accel, fileVars, stamp, last, loaded, filter, running, atStart,
                   signalled, taken, fresh>>

\* acta::init or set_filter.
SetFilter ==
    /\ pc = "filter"
    /\ \/ /\ filter' = loaded.from /\ pc' = "update"
          /\ UNCHANGED <<stage, fresh>>
       \/ LoadFails /\ UNCHANGED filter
    /\ UNCHANGED <<accel, fileVars, stamp, last, loaded, running, atStart, signalled, taken>>

\* Only the start makes anything of the rest of the configuration.
KeepsRest == atStart' = IF Booting THEN loaded.from ELSE atStart

\* Faulty: marks as seen what .reload is by now.
UpdateMarks ==
    /\ pc = "update"
    /\ running' = loaded /\ KeepsRest
    /\ loaded' = None
    /\ pc' = IF Booting THEN "watch" ELSE "wait"
    /\ last' = stamp
    /\ UNCHANGED <<accel, fileVars, stamp, filter, signalled, connVars, fresh>>

\* update_config takes config.prism; at the start PrismContext::new, after
\* ApiService, the reporter and the hooks were made of config.api.
Update ==
    /\ pc = "update"
    /\ running' = loaded /\ KeepsRest
    /\ loaded' = None
    /\ pc' = IF Booting THEN "watch" ELSE "wait"
    /\ UNCHANGED <<accel, fileVars, stamp, last, filter, signalled, connVars, fresh>>

\* ApiService::new, HTTP without the feature or without a client.
ApiFails ==
    /\ pc = "update" /\ Booting
    /\ Drain
    /\ UNCHANGED <<accel, fileVars, stamp, last, loaded, filter, running, atStart,
                   signalled, taken, fresh>>

\* The first poll of the select!: the stamp there is counts as seen.
Watch ==
    /\ pc = "watch"
    /\ last' = stamp
    /\ pc' = "wait"
    /\ UNCHANGED <<accel, fileVars, stamp, loaded, filter, running, atStart, signalled, connVars,
                   fresh>>

-----------------------------------------------------------------------------
(* The main task: accepting and stopping *)

Accept(c) ==
    /\ pc = "wait" /\ stage[c] = "none"
    /\ stage' = [stage EXCEPT ![c] = "login"]
    /\ UNCHANGED <<accel, fileVars, stamp, mainVars, signalled, taken, fresh>>

\* The listener or accept() fails.
InboundFails ==
    /\ pc = "wait"
    /\ Drain
    /\ UNCHANGED <<accel, fileVars, stamp, last, loaded, filter, running, atStart,
                   signalled, taken, fresh>>

Stop ==
    /\ pc = "wait" /\ signalled
    /\ Drain
    /\ UNCHANGED <<accel, fileVars, stamp, last, loaded, filter, running, atStart,
                   signalled, taken, fresh>>

Blocking == {c \in Conns : stage[c] = "blocking"}

Exit ==
    /\ pc = "draining" /\ Blocking = {}
    /\ pc' = "exited"
    /\ UNCHANGED <<accel, fileVars, stamp, last, loaded, filter, running, atStart,
                   signalled, connVars, fresh>>

-----------------------------------------------------------------------------
(* Connections *)

Move(c, from, to) ==
    /\ Alive /\ stage[c] = from
    /\ stage' = [stage EXCEPT ![c] = to]
    /\ UNCHANGED <<accel, fileVars, stamp, mainVars, signalled, fresh>>

\* proxy_connection takes the configuration, by which it will also relay.
Route(c) == Move(c, "login", "connect") /\ taken' = [taken EXCEPT ![c] = running]

\* A splice relay is a job for a blocking thread.
Connect(c) ==
    /\ Move(c, "connect", IF taken[c].relay = "splice" THEN "queued" ELSE "async")
    /\ UNCHANGED taken

\* Faulty: a thread too many.
StartBlockingBeyond(c) ==
    /\ Cardinality(Blocking) <= PoolSize
    /\ Move(c, "queued", "blocking")
    /\ UNCHANGED taken

StartBlocking(c) ==
    /\ Cardinality(Blocking) < PoolSize
    /\ Move(c, "queued", "blocking")
    /\ UNCHANGED taken

\* An error of the login or the connect, or the end of the relay.
End(c) ==
    /\ \E from \in {"login", "connect", "async", "blocking"} : Move(c, from, "done")
    /\ taken' = [taken EXCEPT ![c] = None]

-----------------------------------------------------------------------------
Load == \/ Check \/ Exists \/ WriteDefault \/ WriteFails
        \/ Read \/ ReadFails \/ Panic \/ SetFilter \/ Update \/ ApiFails \/ Watch

Main == Load \/ Stop \/ Exit

Operator == \/ \E content \in Contents : Edit(content)
            \/ \E time \in 0 .. MaxTime : Touch(time)
            \/ Signal

Connection == \E c \in Conns : Accept(c) \/ Route(c) \/ Connect(c) \/ StartBlocking(c) \/ End(c)

Next == Main \/ InboundFails \/ Operator \/ Connection

\* The main task runs, its loop's timer fires.  Nothing is assumed of the
\* operator, and of no connection that it ever ends.
Spec == Init /\ [][Next]_vars /\ WF_vars(Main)

-----------------------------------------------------------------------------
(* Properties *)

\* The prism section in use was loaded from one content of the file that
\* passed every check, and is what this build can do; so is the one of
\* every connection, whenever it has taken it.  The log filter is of the same
\* content, but between the two steps that put a new one in force.  The rest
\* is of a content that passed the checks, too, if not of the same, and
\* is there before any connection is.
RunningConfigIsChecked ==
    /\ \A config \in {running} \cup {taken[c] : c \in Conns} :
          config # None => config.from \in Good /\ config = Canonical(config.from)
    /\ ~Booting => filter = IF pc = "update" THEN loaded.from ELSE running.from
    /\ atStart \in IF Booting THEN {"none"} ELSE Good
    /\ Booting => \A c \in Conns : taken[c] = None /\ stage[c] \in {"none", "done"}
    /\ \A c \in Conns : stage[c] = "blocking" => accel /\ taken[c].from \in Splices

\* Liveness: the prism section and the log level of a file that can be used
\* are in force some time after it was touched, unless the operator changes
\* his mind, is told that it failed, or the process stops; also if touches and
\* changes fall into the middle of an earlier reload, one that fails included.
\* Of the file's other sections nothing is claimed: they wait for the next
\* start.  A process that stops ends once no splice relay runs.
OperatorIsServed ==
    /\ \A content \in Good :
          (fresh /\ file = content) ~>
              \/ ~fresh \/ file # content \/ pc \in {"draining", "exited"}
              \/ running.from = content /\ filter = content
    /\ signalled ~> pc \in {"draining", "exited"}
    /\ (pc = "draining" /\ Blocking = {}) ~> pc = "exited"
=============================================================================
