--------------------------- MODULE Service_proofs ----------------------------
(***************************************************************************)
(* Proofs about Service: the configuration in force, and the one of every   *)
(* connection, has passed every check, for any number of connections,       *)
(* blocking threads, contents of the file and changes to it.                *)
(***************************************************************************)
EXTENDS Service, FiniteSetTheorems, TLAPS

\* What Read leaves behind: a content that can be used, made canonical.
Checked(config) == config.from \in Good /\ config = Canonical(config.from)

\* The relay of a connection runs on a blocking thread only in a build that
\* can splice, and only if the configuration it took says so.
Spliced(c) == stage[c] \in {"queued", "blocking"} => accel /\ taken[c].from \in Splices

\* The inductive invariant.  Beyond the property it says what is being loaded
\* at each step of the main task, that it waits only with a configuration in
\* force, and which relays are queued for a thread.
LoadedInv ==
    /\ pc \in {"filter", "update"} => Checked(loaded)
    /\ pc = "update" => filter = loaded.from

RunningInv ==
    /\ running = None \/ Checked(running)
    /\ ~Booting /\ pc # "update" => filter = running.from
    /\ pc \in {"watch", "wait"} => ~Booting

ConnInv ==
    /\ stage \in [Conns -> Stages]
    /\ taken \in [Conns -> Config \cup {None}]
    /\ \A c \in Conns : (taken[c] = None \/ Checked(taken[c])) /\ Spliced(c)

IInv == LoadedInv /\ RunningInv /\ ConnInv

\* The rest of the configuration is there as soon as a first one is in force,
\* and before that there is no connection that could need it.
BootInv ==
    /\ atStart \in IF Booting THEN {"none"} ELSE Good
    /\ Booting => \A c \in Conns : taken[c] = None /\ stage[c] \in {"none", "done"}

\* A content that can be used is no placeholder.
LEMMA CheckedIsSome == ASSUME NEW config, Checked(config)
                       PROVE  config # None
BY ServiceAssumption DEF Checked, None

\* What canonicalize_runtime_config returns is checked, and it is a
\* configuration.
LEMMA CanonicalIsChecked ==
    ASSUME NEW content \in Good
    PROVE  /\ Checked(Canonical(content)) /\ Canonical(content) \in Config
           /\ Canonical(content).from = content
BY DEF Checked, Canonical, Config

\* A checked configuration asks for splice only in a build that can.
LEMMA SpliceNeedsBuild ==
    ASSUME NEW config, Checked(config), config.relay = "splice"
    PROVE  accel /\ config.from \in Splices
BY DEF Checked, Canonical

\* At the start nothing is loaded, in force or taken.
LEMMA InitIInv == Init => IInv
BY DEF Init, IInv, LoadedInv, RunningInv, ConnInv, Booting, Stages, Spliced, None

\* The inductive invariants imply the property.
LEMMA IInvProperty == IInv /\ BootInv => RunningConfigIsChecked
<1> SUFFICES ASSUME IInv, BootInv PROVE RunningConfigIsChecked
  OBVIOUS
<1>1. \A config \in {running} \cup {taken[c] : c \in Conns} :
        config # None => config.from \in Good /\ config = Canonical(config.from)
  BY DEF IInv, RunningInv, ConnInv, Checked
<1>2. ~Booting => filter = IF pc = "update" THEN loaded.from ELSE running.from
  BY DEF IInv, LoadedInv, RunningInv
<1>3. \A c \in Conns : stage[c] = "blocking" => accel /\ taken[c].from \in Splices
  BY DEF IInv, ConnInv, Spliced
<1> QED  BY <1>1, <1>2, <1>3 DEF BootInv, RunningConfigIsChecked

\* Stopping cancels connections and keeps the relays on a blocking thread as
\* they are.
LEMMA DrainKeepsConnections ==
    ASSUME IInv, Drain, UNCHANGED <<accel, taken>>
    PROVE  ConnInv' /\ pc' = "draining"
BY DEF IInv, ConnInv, Drain, Spliced, Stages, Checked, Canonical, Config, None

\* Loading fails without a trace, but for the end of a process that has not
\* come up.
LEMMA FailureKeepsInv ==
    ASSUME IInv, LoadFails, UNCHANGED <<accel, loaded, filter, running, taken>>,
           pc # "update"
    PROVE  IInv'
<1> USE DEF IInv
<1>1. CASE Booting
  <2>1. Drain
    BY <1>1 DEF LoadFails
  <2>2. ConnInv' /\ pc' = "draining"
    BY <2>1, DrainKeepsConnections
  <2>3. LoadedInv' /\ RunningInv'
    BY <1>1, <2>2 DEF LoadedInv, RunningInv, Booting, Checked, Canonical, None
  <2> QED  BY <2>2, <2>3
<1>2. CASE ~Booting
  <2>1. pc' = "wait" /\ stage' = stage
    BY <1>2 DEF LoadFails
  <2>2. LoadedInv' /\ RunningInv'
    BY <1>2, <2>1 DEF LoadedInv, RunningInv, Booting, Checked, Canonical, None
  <2>3. ConnInv'
    BY <2>1 DEF ConnInv, Spliced, Checked, Canonical, Config, None
  <2> QED  BY <2>2, <2>3
<1> QED  BY <1>1, <1>2

\* No other variable than these six matters to the invariant.
LEMMA FrameKeepsInv ==
    ASSUME IInv, UNCHANGED <<accel, pc, loaded, filter, running, stage, taken>>
    PROVE  IInv'
BY DEF IInv, LoadedInv, RunningInv, ConnInv, Spliced, Checked, Canonical, Config,
       Booting, None

\* A step of the load but its failure.
LEMMA LoadKeepsInv ==
    ASSUME IInv, Load
    PROVE  IInv'
<1> USE DEF IInv
<1>0. ASSUME UNCHANGED <<accel, stage, taken>>
      PROVE  ConnInv'
  BY <1>0 DEF ConnInv, Spliced, Checked, Canonical, Config, None
<1>1. CASE Check \/ Exists \/ WriteDefault
  <2>1. /\ pc' \in {"exists", "write", "read"} /\ pc \in {"wait", "exists", "write"}
        /\ UNCHANGED <<accel, loaded, filter, running, stage, taken>>
    BY <1>1 DEF Check, Exists, WriteDefault, connVars
  <2>2. LoadedInv' /\ RunningInv'
    BY <2>1 DEF LoadedInv, RunningInv, Booting, Checked, Canonical, None
  <2> QED  BY <1>0, <2>1, <2>2
<1>2. CASE WriteFails
  BY <1>2, FailureKeepsInv DEF WriteFails
<1>3. CASE Read
  <2>1. file \in Good /\ loaded' = Canonical(file) /\ pc = "read" /\ pc' = "filter"
    BY <1>3 DEF Read
  <2>2. UNCHANGED <<accel, filter, running, stage, taken>>
    BY <1>3 DEF Read, connVars
  <2>3. Checked(Canonical(file))
    BY <2>1, CanonicalIsChecked
  <2>4. LoadedInv'
    BY <2>1, <2>2, <2>3 DEF LoadedInv, Checked, Canonical
  <2>5. RunningInv'
    BY <2>1, <2>2 DEF RunningInv, Booting, Checked, Canonical, None
  <2> QED  BY <1>0, <2>2, <2>4, <2>5
<1>4. CASE ReadFails
  BY <1>4, FailureKeepsInv DEF ReadFails
<1>5. CASE Panic
  <2>1. /\ pc' = "exited" /\ pc = "read" /\ stage' = [c \in Conns |-> "done"]
        /\ UNCHANGED <<accel, loaded, filter, running, taken>>
    BY <1>5 DEF Panic
  <2>2. LoadedInv' /\ RunningInv'
    BY <2>1 DEF LoadedInv, RunningInv, Booting, Checked, Canonical, None
  <2>3. ConnInv'
    BY <2>1 DEF ConnInv, Spliced, Stages, Checked, Canonical, Config, None
  <2> QED  BY <2>2, <2>3
<1>6. CASE SetFilter
  <2>1. pc = "filter" /\ UNCHANGED <<accel, loaded, running, taken>>
    BY <1>6 DEF SetFilter
  <2>2. CASE LoadFails /\ UNCHANGED filter
    BY <2>1, <2>2, FailureKeepsInv
  <2>3. CASE filter' = loaded.from /\ pc' = "update" /\ UNCHANGED stage
    <3>1. LoadedInv' /\ RunningInv'
      BY <2>1, <2>3 DEF LoadedInv, RunningInv, Booting, Checked, Canonical, None
    <3> QED  BY <1>0, <2>1, <2>3, <3>1
  <2> QED  BY <1>6, <2>2, <2>3 DEF SetFilter
<1>7. CASE Update
  <2>1. /\ pc = "update" /\ running' = loaded /\ pc' \in {"watch", "wait"}
        /\ UNCHANGED <<accel, filter, stage, taken>>
    BY <1>7 DEF Update, connVars
  <2>2. Checked(loaded) /\ filter = loaded.from
    BY <2>1 DEF LoadedInv
  <2>3. loaded # None
    BY <2>2, CheckedIsSome
  <2>4. RunningInv'
    BY <2>1, <2>2, <2>3 DEF RunningInv, Booting, Checked, Canonical, None
  <2>5. LoadedInv'
    BY <2>1 DEF LoadedInv
  <2> QED  BY <1>0, <2>1, <2>4, <2>5
<1>8. CASE ApiFails
  <2>1. Drain /\ Booting /\ UNCHANGED <<accel, loaded, filter, running, taken>>
    BY <1>8 DEF ApiFails
  <2>2. ConnInv' /\ pc' = "draining"
    BY <2>1, DrainKeepsConnections
  <2>3. LoadedInv' /\ RunningInv'
    BY <2>1, <2>2 DEF LoadedInv, RunningInv, Booting, Checked, Canonical, None
  <2> QED  BY <2>2, <2>3
<1>9. CASE Watch
  <2>1. /\ pc = "watch" /\ pc' = "wait"
        /\ UNCHANGED <<accel, loaded, filter, running, stage, taken>>
    BY <1>9 DEF Watch, connVars
  <2>2. LoadedInv' /\ RunningInv'
    BY <2>1 DEF LoadedInv, RunningInv, Booting, Checked, Canonical, None
  <2> QED  BY <1>0, <2>1, <2>2
<1> QED  BY <1>1, <1>2, <1>3, <1>4, <1>5, <1>6, <1>7, <1>8, <1>9 DEF Load

\* Accepting, failing to and stopping.
LEMMA ServeKeepsInv ==
    ASSUME IInv, Stop \/ Exit \/ InboundFails
    PROVE  IInv'
<1> USE DEF IInv
<1>1. CASE Stop \/ InboundFails
  <2>1. Drain /\ pc = "wait" /\ UNCHANGED <<accel, loaded, filter, running, taken>>
    BY <1>1 DEF Stop, InboundFails
  <2>2. ConnInv' /\ pc' = "draining"
    BY <2>1, DrainKeepsConnections
  <2>3. LoadedInv' /\ RunningInv'
    BY <2>1, <2>2 DEF LoadedInv, RunningInv, Booting, Checked, Canonical, None
  <2> QED  BY <2>2, <2>3
<1>2. CASE Exit
  <2>1. /\ pc = "draining" /\ pc' = "exited"
        /\ UNCHANGED <<accel, loaded, filter, running, stage, taken>>
    BY <1>2 DEF Exit, connVars
  <2>2. LoadedInv' /\ RunningInv'
    BY <2>1 DEF LoadedInv, RunningInv, Booting, Checked, Canonical, None
  <2>3. ConnInv'
    BY <2>1 DEF ConnInv, Spliced, Checked, Canonical, Config, None
  <2> QED  BY <2>2, <2>3
<1> QED  BY <1>1, <1>2

\* A connection takes what is in force and goes its way with it.
LEMMA ConnectionKeepsInv ==
    ASSUME IInv, NEW c \in Conns,
           Accept(c) \/ Route(c) \/ Connect(c) \/ StartBlocking(c) \/ End(c)
    PROVE  IInv'
<1> USE DEF IInv
<1>1. UNCHANGED <<accel, pc, loaded, filter, running>>
  BY DEF Accept, Route, Connect, StartBlocking, End, Move, mainVars
<1>2. LoadedInv' /\ RunningInv'
  BY <1>1 DEF LoadedInv, RunningInv, Booting, Checked, Canonical, None
<1>3. CASE Accept(c)
  BY <1>1, <1>2, <1>3 DEF Accept, ConnInv, Spliced, Stages, Checked, Canonical, Config, None
<1>4. CASE Route(c)
  <2>1. /\ stage' = [stage EXCEPT ![c] = "connect"]
        /\ taken' = [taken EXCEPT ![c] = running]
    BY <1>4 DEF Route, Move
  <2>2. running \in Config \cup {None} /\ (running = None \/ Checked(running))
    BY DEF RunningInv, Checked, Canonical, Config
  <2>3. ConnInv'
    BY <1>1, <2>1, <2>2 DEF ConnInv, Spliced, Stages, Checked, Canonical
  <2> QED  BY <1>2, <2>3
<1>5. CASE Connect(c)
  <2>1. /\ stage' = [stage EXCEPT ![c] =
                       IF taken[c].relay = "splice" THEN "queued" ELSE "async"]
        /\ taken' = taken
    BY <1>5 DEF Connect, Move
  <2>2. taken[c].relay = "splice" => accel /\ taken[c].from \in Splices
    BY SpliceNeedsBuild DEF ConnInv, None
  <2>3. ConnInv'
    BY <1>1, <2>1, <2>2 DEF ConnInv, Spliced, Stages, Checked, Canonical, Config, None
  <2> QED  BY <1>2, <2>3
<1>6. CASE StartBlocking(c)
  <2>1. /\ stage[c] = "queued" /\ stage' = [stage EXCEPT ![c] = "blocking"]
        /\ taken' = taken
    BY <1>6 DEF StartBlocking, Move
  <2>2. ConnInv'
    BY <1>1, <2>1 DEF ConnInv, Spliced, Stages, Checked, Canonical, Config, None
  <2> QED  BY <1>2, <2>2
<1>7. CASE End(c)
  <2>1. /\ stage' = [stage EXCEPT ![c] = "done"]
        /\ taken' = [taken EXCEPT ![c] = None]
    BY <1>7 DEF End, Move
  <2>2. ConnInv'
    BY <1>1, <2>1 DEF ConnInv, Spliced, Stages, Checked, Canonical
  <2> QED  BY <1>2, <2>2
<1> QED  BY <1>2, <1>3, <1>4, <1>5, <1>6, <1>7

\* Every step preserves the inductive invariant.
LEMMA IInvStep == IInv /\ [Next]_vars => IInv'
<1> SUFFICES ASSUME IInv, [Next]_vars PROVE IInv'
  OBVIOUS
<1>1. CASE Main
  BY <1>1, LoadKeepsInv, ServeKeepsInv DEF Main
<1>2. CASE InboundFails
  BY <1>2, ServeKeepsInv
<1>3. CASE Operator
  BY <1>3, FrameKeepsInv DEF Operator, Edit, Touch, Signal, mainVars, connVars
<1>4. CASE Connection
  BY <1>4, ConnectionKeepsInv DEF Connection
<1>5. CASE UNCHANGED vars
  BY <1>5, FrameKeepsInv DEF vars, mainVars, connVars
<1> QED  BY <1>1, <1>2, <1>3, <1>4, <1>5 DEF Next

\* Only the first configuration brings the rest with it, and connections are
\* accepted only when there is one.
LEMMA BootStep == ASSUME IInv, BootInv, [Next]_vars PROVE BootInv'
<1>1. CASE Update
  <2>1. pc = "update" /\ running' = loaded /\ KeepsRest
    BY <1>1 DEF Update
  <2>2. Checked(loaded) /\ loaded # None
    BY <2>1, CheckedIsSome DEF IInv, LoadedInv
  <2>3. ~Booting' /\ loaded.from \in Good
    BY <2>1, <2>2 DEF Booting, Checked, None
  <2> QED  BY <2>1, <2>3 DEF BootInv, KeepsRest
<1>2. ASSUME UNCHANGED <<running, atStart, taken>>,
             \A c \in Conns : stage[c] \in {"none", "done"} => stage'[c] \in {"none", "done"}
      PROVE  BootInv'
  BY <1>2 DEF BootInv, Booting, None
<1>3. CASE Drain /\ UNCHANGED <<running, atStart, taken>>
  BY <1>2, <1>3 DEF Drain
<1>4. CASE LoadFails /\ UNCHANGED <<running, atStart, taken>>
  BY <1>2, <1>3, <1>4 DEF LoadFails
<1>5. CASE Check \/ Exists \/ WriteDefault \/ Read \/ Watch \/ Exit
  BY <1>2, <1>5 DEF Check, Exists, WriteDefault, Read, Watch, Exit, connVars
<1>6. CASE WriteFails \/ ReadFails
  BY <1>4, <1>6 DEF WriteFails, ReadFails
<1>7. CASE Panic
  BY <1>2, <1>7 DEF Panic
<1>8. CASE SetFilter
  BY <1>2, <1>4, <1>8 DEF SetFilter
<1>9. CASE ApiFails \/ Stop \/ InboundFails
  BY <1>3, <1>9 DEF ApiFails, Stop, InboundFails
<1>10. CASE Operator \/ UNCHANGED vars
  BY <1>2, <1>10 DEF Operator, Edit, Touch, Signal, vars, mainVars, connVars
<1>11. ASSUME NEW c \in Conns,
              Accept(c) \/ Route(c) \/ Connect(c) \/ StartBlocking(c) \/ End(c)
       PROVE  BootInv'
  <2>1. UNCHANGED <<running, atStart>>
    BY <1>11 DEF Accept, Route, Connect, StartBlocking, End, Move, mainVars
  <2>2. ~Booting
    <3>1. CASE Accept(c)
      BY <3>1 DEF Accept, IInv, RunningInv
    <3>2. CASE ~Accept(c)
      <4>1. stage[c] \notin {"none", "done"}
        BY <1>11, <3>2 DEF Route, Connect, StartBlocking, End, Move
      <4> QED  BY <4>1 DEF BootInv
    <3> QED  BY <3>1, <3>2
  <2> QED  BY <2>1, <2>2 DEF BootInv, Booting, None
<1> QED
  BY <1>1, <1>5, <1>6, <1>7, <1>8, <1>9, <1>10, <1>11 DEF Next, Main, Load, Connection

\* Whatever the operator does to the files, and whenever, the prism section in
\* force and the one of each connection have passed every check, the log
\* filter belongs to the same content, the rest to one that passed them too and
\* is there before any connection, and a relay sits on a blocking thread only
\* where that was configured and built.
THEOREM ConfigIsAlwaysChecked == Spec => []RunningConfigIsChecked
<1>1. Init => IInv /\ BootInv
  BY InitIInv DEF Init, BootInv, Booting
<1>2. IInv /\ BootInv /\ [Next]_vars => IInv' /\ BootInv'
  BY IInvStep, BootStep
<1>3. IInv /\ BootInv => RunningConfigIsChecked
  BY IInvProperty
<1> QED  BY <1>1, <1>2, <1>3, PTL DEF Spec

-----------------------------------------------------------------------------
(* Types, and the limit of the runtime's blocking threads *)

\* All of TypeOK but the limit.
DataOK ==
    /\ accel \in BOOLEAN
    /\ file \in Contents /\ edits \in 0 .. MaxEdits
    /\ stamp \in 0 .. MaxTime /\ last \in 0 .. MaxTime
    /\ pc \in {"exists", "write", "read", "filter", "update", "watch", "wait",
               "draining", "exited"}
    /\ loaded \in Config \cup {None} /\ running \in Config \cup {None}
    /\ filter \in Good \cup {"none"} /\ atStart \in Good \cup BadLevel \cup {"none"}
    /\ signalled \in BOOLEAN /\ fresh \in BOOLEAN
    /\ stage \in [Conns -> Stages] /\ taken \in [Conns -> Config \cup {None}]

\* A filter is set from what Read has loaded, which can be used.
LEMMA DataStep == ASSUME DataOK, LoadedInv, [Next]_vars PROVE DataOK'
<1> USE DEF DataOK
<1>1. ASSUME LoadFails, UNCHANGED <<accel, file, edits, stamp, last, loaded, filter,
                                    running, atStart, signalled, taken>>
      PROVE  DataOK'
  BY <1>1 DEF LoadFails, Drain, Stages
<1>2. CASE Load
  <2>1. CASE Check \/ Exists \/ Watch \/ ApiFails \/ Panic
    BY <2>1 DEF Check, Exists, Watch, ApiFails, Panic, Drain, Stages, fileVars, connVars
  <2>2. CASE WriteDefault
    BY <2>2, ServiceAssumption DEF WriteDefault, Contents, connVars
  <2>3. CASE WriteFails \/ ReadFails
    BY <1>1, <2>3 DEF WriteFails, ReadFails, fileVars
  <2>4. CASE Read
    <3>1. file \in Good /\ loaded' = Canonical(file)
      BY <2>4 DEF Read
    <3>2. loaded' \in Config
      BY <3>1, CanonicalIsChecked
    <3> QED  BY <2>4, <3>2 DEF Read, fileVars, connVars
  <2>5. CASE SetFilter
    <3>1. loaded.from \in Good
      BY <2>5 DEF SetFilter, LoadedInv, Checked
    <3> QED  BY <1>1, <2>5, <3>1 DEF SetFilter, fileVars
  <2>6. CASE Update
    <3>1. loaded.from \in Good
      BY <2>6 DEF Update, LoadedInv, Checked
    <3> QED  BY <2>6, <3>1 DEF Update, KeepsRest, fileVars, connVars
  <2> QED  BY <1>2, <2>1, <2>2, <2>3, <2>4, <2>5, <2>6 DEF Load
<1>3. CASE Stop \/ Exit \/ InboundFails
  BY <1>3 DEF Stop, Exit, InboundFails, Drain, Stages, fileVars, connVars
<1>4. ASSUME NEW content \in Contents, Edit(content) PROVE DataOK'
  <2>1. edits' \in 0 .. MaxEdits
    BY <1>4, ServiceAssumption DEF Edit
  <2> QED  BY <1>4, <2>1 DEF Edit, mainVars, connVars
<1>5. ASSUME NEW time \in 0 .. MaxTime, Touch(time) PROVE DataOK'
  BY <1>5 DEF Touch, fileVars, mainVars, connVars
<1>6. CASE Signal
  BY <1>6 DEF Signal, fileVars, mainVars, connVars
<1>7. ASSUME NEW c \in Conns,
             Accept(c) \/ Route(c) \/ Connect(c) \/ StartBlocking(c) \/ End(c)
      PROVE  DataOK'
  <2>1. UNCHANGED <<accel, file, edits, stamp, pc, last, loaded, filter, running,
                    atStart, signalled, fresh>>
    BY <1>7 DEF Accept, Route, Connect, StartBlocking, End, Move, mainVars, fileVars
  <2>2. stage' \in [Conns -> Stages]
    BY <1>7 DEF Accept, Route, Connect, StartBlocking, End, Move, Stages
  <2>3. taken' \in [Conns -> Config \cup {None}]
    BY <1>7 DEF Accept, Route, Connect, StartBlocking, End
  <2> QED  BY <2>1, <2>2, <2>3
<1>8. CASE UNCHANGED vars
  BY <1>8 DEF vars, fileVars, mainVars, connVars
<1> QED
  BY <1>2, <1>3, <1>4, <1>5, <1>6, <1>7, <1>8 DEF Next, Main, Operator, Connection

\* Only StartBlocking takes a thread, and it looks for a free one.
LEMMA PoolStep == ASSUME TypeOK, [Next]_vars
                  PROVE  Cardinality(Blocking') <= PoolSize
<1>1. IsFiniteSet(Blocking) /\ Cardinality(Blocking) \in Nat
  BY ServiceAssumption, FS_Subset, FS_CardinalityType DEF Blocking
<1>2. Cardinality(Blocking) <= PoolSize
  BY DEF TypeOK, Blocking
<1>3. ASSUME Blocking' \subseteq Blocking PROVE Cardinality(Blocking') <= PoolSize
  <2>1. Cardinality(Blocking') \in Nat /\ Cardinality(Blocking') <= Cardinality(Blocking)
    BY <1>1, <1>3, FS_Subset, FS_CardinalityType
  <2> QED  BY <1>1, <1>2, <2>1, ServiceAssumption
<1>4. ASSUME NEW c \in Conns, StartBlocking(c) PROVE Cardinality(Blocking') <= PoolSize
  <2>1. Blocking' = Blocking \cup {c} /\ c \notin Blocking
    BY <1>4 DEF StartBlocking, Move, Blocking, TypeOK
  <2>2. Cardinality(Blocking') = Cardinality(Blocking) + 1
    BY <1>1, <2>1, FS_AddElement
  <2>3. Cardinality(Blocking) < PoolSize
    BY <1>4 DEF StartBlocking
  <2> QED  BY <1>1, <2>2, <2>3, ServiceAssumption
<1>5. ASSUME NEW c \in Conns, Accept(c) \/ Route(c) \/ Connect(c) \/ End(c)
      PROVE  Blocking' \subseteq Blocking
  BY <1>5 DEF Accept, Route, Connect, End, Move, Blocking, TypeOK
<1>6. CASE Load
  BY <1>3, <1>6 DEF Load, Check, Exists, WriteDefault, WriteFails, Read, ReadFails, Panic,
              SetFilter, Update, ApiFails, Watch, LoadFails, Drain, Blocking, TypeOK,
              connVars
<1>7. CASE Stop \/ Exit \/ InboundFails \/ Operator \/ UNCHANGED vars
  BY <1>3, <1>7 DEF Stop, Exit, InboundFails, Operator, Edit, Touch, Signal, vars, Drain,
                    Blocking, TypeOK, connVars
<1> QED
  BY <1>3, <1>4, <1>5, <1>6, <1>7 DEF Next, Main, Connection

\* Type correctness; and there are never more splice relays at work than the
\* runtime has blocking threads.
THEOREM ServiceTypeCorrect == Spec => []TypeOK
<1>1. Init => TypeOK /\ IInv
  <2> SUFFICES ASSUME Init PROVE TypeOK
    BY InitIInv
  <2>1. 0 \in 0 .. MaxEdits /\ 0 \in 0 .. MaxTime
    BY ServiceAssumption
  <2>2. DataOK
    BY <2>1 DEF Init, DataOK, Stages
  <2>3. {c \in Conns : stage[c] = "blocking"} = {}
    BY DEF Init
  <2> QED  BY <2>2, <2>3, FS_EmptySet, ServiceAssumption DEF DataOK, TypeOK
<1>2. TypeOK /\ IInv /\ [Next]_vars => TypeOK' /\ IInv'
  <2> SUFFICES ASSUME TypeOK, IInv, [Next]_vars PROVE TypeOK'
    BY IInvStep
  <2>1. DataOK'
    BY DataStep DEF TypeOK, DataOK, IInv
  <2>2. Cardinality(Blocking') <= PoolSize
    BY PoolStep
  <2> QED  BY <2>1, <2>2 DEF TypeOK, DataOK, Blocking
<1> QED  BY <1>1, <1>2, PTL DEF Spec
=============================================================================
