--------------------------- MODULE TrafficReporter ---------------------------
(***************************************************************************)
(* Traffic reporting: src/proxy/traffic/reporter.rs (register, finish,      *)
(* shutdown), the loop of src/proxy/traffic/background.rs, and the API      *)
(* behind src/proxy/api as its client sees it.                              *)
(*                                                                          *)
(* Three kinds of task share the reporter's map of records: the connection  *)
(* tasks that register and finish, the relays that count bytes into the     *)
(* sessions the records hold, and the loop, which reads a snapshot, awaits  *)
(* a batch request, and only then stores what it has sent.                  *)
(*                                                                          *)
(* The API is outside.  A request may be lost, fail, be applied although    *)
(* the client has given up on it, and arrive after later ones.  An id is    *)
(* that of one connection (see UniqueIds in Transport).                     *)
(***************************************************************************)
EXTENDS Integers, FiniteSets

CONSTANTS
    Ids,        \* connection ids
    Dirs,       \* directions that are counted: upload and download
    MaxBytes,   \* bound: bytes counted per id and direction
    MaxClosed,  \* CLOSED_REPORT_MAX_CONCURRENT
    MaxLate,    \* bound: abandoned requests still on their way
    Absent      \* "not in the map"

ASSUME ReporterAssumption ==
    /\ MaxBytes \in Nat
    /\ MaxClosed \in Nat \ {0}
    /\ MaxLate \in Nat
    /\ Absent \notin [Dirs -> Nat]

Traffic == [Dirs -> 0 .. MaxBytes]
Zero == [d \in Dirs |-> 0]
Leq(t, u) == \A d \in Dirs : t[d] <= u[d]

\* The larger count of each direction.
Join(t, u) == [d \in Dirs |-> IF t[d] <= u[d] THEN u[d] ELSE t[d]]

\* What is sent for some of the ids: Absent for the others.
Batch == [Ids -> Traffic \cup {Absent}]
Nothing == [id \in Ids |-> Absent]

VARIABLES
    phase,      \* per id: where its connection is in register and finish
    bytes,      \* per id: the counters of its session
    lastSent,   \* per id: last_sent_upload and _download of its record
    closers,    \* ids for which a handle to shut the socket down is kept
    task,       \* per id: the task that sends the closed event
    loop,       \* where the reporting loop is
    todo,       \* ids the running iteration has still to visit
    snapshot,   \* what collect_traffic_snapshot has read
    request,    \* the batch the loop awaits an answer for
    applied,    \* the API has applied that batch
    cancelled,  \* the cancel token
    dropped,    \* the runtime that owns the spawned tasks is gone
    late,       \* batches given up on that may still reach the API
    ledger,     \* the API: the counts it holds for each id
    peak,       \* history: the largest counts the API was ever told
    closedAs    \* the API: final counts of the ids it was told are closed

connVars == <<phase, bytes, closers>>
loopVars == <<loop, todo, snapshot, request, applied>>
apiVars == <<late, ledger, peak>>
processVars == <<cancelled, dropped>>
vars == <<connVars, lastSent, task, loopVars, processVars, apiVars, closedAs>>

\* The map has a record of id.
Recorded(id) == phase[id] \in {"recorded", "active"}
RecordedIds == {id \in Ids : Recorded(id)}

TypeOK ==
    /\ phase \in [Ids -> {"new", "recorded", "active", "removed", "finished"}]
    /\ bytes \in [Ids -> Traffic]
    /\ lastSent \in [Ids -> Traffic]
    /\ closers \subseteq Ids
    /\ task \in [Ids -> {"none", "queued", "sending", "done", "dropped"}]
    /\ loop \in {"sleep", "collect", "collected", "reply", "stopped"}
    /\ todo \subseteq Ids
    /\ snapshot \in Batch
    /\ request \in Batch
    /\ applied \in BOOLEAN
    /\ cancelled \in BOOLEAN
    /\ dropped \in BOOLEAN
    /\ late \subseteq Batch
    /\ ledger \in [Ids -> Traffic]
    /\ peak \in [Ids -> Traffic]
    /\ closedAs \in Batch

Init ==
    /\ phase = [id \in Ids |-> "new"]
    /\ bytes = [id \in Ids |-> Zero]
    /\ lastSent = [id \in Ids |-> Zero]
    /\ closers = {}
    /\ task = [id \in Ids |-> "none"]
    /\ loop = "sleep"
    /\ todo = {}
    /\ snapshot = Nothing
    /\ request = Nothing
    /\ applied = FALSE
    /\ cancelled = FALSE
    /\ dropped = FALSE
    /\ late = {}
    /\ ledger = [id \in Ids |-> Zero]
    /\ peak = [id \in Ids |-> Zero]
    /\ closedAs = Nothing

Becomes(id, from, to) == phase[id] = from /\ phase' = [phase EXCEPT ![id] = to]

-----------------------------------------------------------------------------
(* The connection's side *)

\* register, first access: a record that has sent nothing.
Register(id) ==
    /\ Becomes(id, "new", "recorded")
    /\ lastSent' = [lastSent EXCEPT ![id] = Zero]
    /\ UNCHANGED <<bytes, closers, task, loopVars, processVars, apiVars, closedAs>>

\* register, second access: the closer, if the caller gave one.
RegisterCloser(id, given) ==
    /\ Becomes(id, "recorded", "active")
    /\ closers' = IF given THEN closers \cup {id} ELSE closers
    /\ UNCHANGED <<bytes, lastSent, task, loopVars, processVars, apiVars, closedAs>>

\* The relay counts a byte into the session that the record holds.
CountByte(id, d) ==
    /\ phase[id] = "active"
    /\ bytes[id][d] < MaxBytes
    /\ bytes' = [bytes EXCEPT ![id][d] = @ + 1]
    /\ UNCHANGED <<phase, closers, lastSent, task, loopVars, processVars, apiVars, closedAs>>

\* finish, first access: take the record out of the map.
Finish(id) ==
    /\ Becomes(id, "active", "removed")
    /\ UNCHANGED <<bytes, closers, lastSent, task, loopVars, processVars, apiVars, closedAs>>

\* finish without a record: the connection failed before it was registered.
FinishUnknown(id) ==
    /\ Becomes(id, "new", "finished")
    /\ UNCHANGED <<bytes, closers, lastSent, task, loopVars, processVars, apiVars, closedAs>>

\* finish, second access, and the task it spawns, which a runtime that is gone
\* drops at once.
FinishCloser(id) ==
    /\ Becomes(id, "removed", "finished")
    /\ closers' = closers \ {id}
    /\ task' = [task EXCEPT ![id] = IF dropped THEN "dropped" ELSE "queued"]
    /\ UNCHANGED <<bytes, lastSent, loopVars, processVars, apiVars, closedAs>>

-----------------------------------------------------------------------------
(* The closed event: one attempt, at most MaxClosed of them at a time *)

Sending == {id \in Ids : task[id] = "sending"}

AcquirePermit(id) ==
    /\ task[id] = "queued"
    /\ Cardinality(Sending) < MaxClosed
    /\ task' = [task EXCEPT ![id] = "sending"]
    /\ UNCHANGED <<connVars, lastSent, loopVars, processVars, apiVars, closedAs>>

\* Faulty: the event carries what was last reported.
ClosedDeliveredMarks(id) ==
    /\ task[id] = "sending"
    /\ task' = [task EXCEPT ![id] = "done"]
    /\ closedAs' = [closedAs EXCEPT ![id] = lastSent[id]]
    /\ UNCHANGED <<connVars, lastSent, loopVars, processVars, apiVars>>

\* The API takes the event; an answer that is lost makes no difference to us.
ClosedDelivered(id) ==
    /\ task[id] = "sending"
    /\ task' = [task EXCEPT ![id] = "done"]
    /\ closedAs' = [closedAs EXCEPT ![id] = bytes[id]]
    /\ UNCHANGED <<connVars, lastSent, loopVars, processVars, apiVars>>

\* Faulty: tried again and again.
ClosedRetried(id) ==
    /\ task[id] = "sending"
    /\ task' = [task EXCEPT ![id] = "queued"]
    /\ UNCHANGED <<connVars, lastSent, loopVars, processVars, apiVars, closedAs>>

\* An error or a timeout is logged, and not retried.
ClosedFailed(id) ==
    /\ task[id] = "sending"
    /\ task' = [task EXCEPT ![id] = "done"]
    /\ UNCHANGED <<connVars, lastSent, loopVars, processVars, apiVars, closedAs>>

-----------------------------------------------------------------------------
(* The loop *)

\* The interval is over: report_once begins to iterate over the map.
Wake ==
    /\ loop = "sleep" /\ ~dropped
    /\ loop' = "collect"
    /\ todo' = RecordedIds
    /\ snapshot' = Nothing
    /\ UNCHANGED <<connVars, lastSent, task, request, applied, processVars, apiVars, closedAs>>

\* The iteration reads one record; it may also meet one that was inserted
\* after it began.
Visit(id) ==
    /\ loop = "collect"
    /\ Recorded(id) /\ snapshot[id] = Absent
    /\ snapshot' = [snapshot EXCEPT ![id] = bytes[id]]
    /\ todo' = todo \ {id}
    /\ UNCHANGED <<connVars, lastSent, task, loop, request, applied, processVars, apiVars, closedAs>>

\* The deltas are taken against last_sent, which only the loop changes while
\* a record is in the map.
HasDelta(id) == /\ snapshot[id] # Absent
                /\ \E d \in Dirs : snapshot[id][d] > lastSent[id][d]

\* Faulty: sends the delta on top of the cumulative value.
EntriesWithDelta ==
    [id \in Ids |-> IF HasDelta(id)
                    THEN [d \in Dirs |-> 2 * snapshot[id][d] - lastSent[id][d]]
                    ELSE Absent]

Entries == [id \in Ids |-> IF HasDelta(id) THEN snapshot[id] ELSE Absent]

Collected ==
    /\ loop = "collect"
    /\ \A id \in todo : ~Recorded(id)
    /\ loop' = "collected"
    /\ todo' = {}
    /\ UNCHANGED <<connVars, lastSent, task, snapshot, request, applied, processVars, apiVars, closedAs>>

\* Nothing to report: back to sleep without a request.
NothingToReport ==
    /\ loop = "collected" /\ Entries = Nothing
    /\ loop' = "sleep"
    /\ snapshot' = Nothing
    /\ UNCHANGED <<connVars, lastSent, task, todo, request, applied, processVars, apiVars, closedAs>>

\* One request for all the connections with traffic, cumulative values.
SendBatch ==
    /\ loop = "collected" /\ Entries # Nothing
    /\ loop' = "reply"
    /\ request' = Entries
    /\ applied' = FALSE
    /\ UNCHANGED <<connVars, lastSent, task, todo, snapshot, processVars, apiVars, closedAs>>

\* The API overwrites what it holds for the ids of a batch.
Overwrite(batch) ==
    /\ ledger' = [id \in Ids |-> IF batch[id] = Absent THEN ledger[id] ELSE batch[id]]
    /\ peak' = [id \in Ids |-> IF batch[id] = Absent THEN peak[id]
                               ELSE Join(peak[id], batch[id])]

BatchApplied ==
    /\ loop = "reply" /\ ~applied
    /\ applied' = TRUE
    /\ Overwrite(request)
    /\ UNCHANGED <<connVars, lastSent, task, loop, todo, snapshot, request, processVars, late, closedAs>>

BackToSleep ==
    /\ loop' = "sleep"
    /\ snapshot' = Nothing /\ request' = Nothing /\ applied' = FALSE
    /\ UNCHANGED todo

\* Faulty: marks also what was not in the batch.
ReplyOkMarksAll(toEnd) ==
    /\ loop = "reply" /\ applied /\ ~dropped
    /\ lastSent' = [id \in Ids |-> IF Recorded(id) THEN request[id] ELSE lastSent[id]]
    /\ closers' = closers \ toEnd
    /\ BackToSleep
    /\ UNCHANGED <<phase, bytes, task, processVars, apiVars, closedAs>>

\* mark_reported stores, for every id of the batch that is still in the map,
\* the values that were sent; close_connections then shuts down and forgets
\* the closers of the ids the API wants ended.
ReplyOk(toEnd) ==
    /\ loop = "reply" /\ applied /\ ~dropped
    /\ lastSent' = [id \in Ids |-> IF request[id] # Absent /\ Recorded(id)
                                   THEN snapshot[id] ELSE lastSent[id]]
    /\ closers' = closers \ toEnd
    /\ BackToSleep
    /\ UNCHANGED <<phase, bytes, task, processVars, apiVars, closedAs>>

\* A request the client gives up on is lost, or still on its way.
Abandon == \/ UNCHANGED late
           \/ /\ ~applied /\ Cardinality(late) < MaxLate
              /\ late' = late \cup {request}

\* Faulty: marks what was not taken.
ReplyErrorMarks ==
    /\ loop = "reply" /\ ~dropped
    /\ lastSent' = [id \in Ids |-> IF request[id] # Absent /\ Recorded(id)
                                   THEN snapshot[id] ELSE lastSent[id]]
    /\ Abandon
    /\ BackToSleep
    /\ UNCHANGED <<connVars, task, processVars, ledger, peak, closedAs>>

\* Faulty: forgets what was marked.
ReplyErrorForgets ==
    /\ loop = "reply" /\ ~dropped
    /\ lastSent' = [id \in Ids |-> IF request[id] # Absent THEN Zero ELSE lastSent[id]]
    /\ Abandon
    /\ BackToSleep
    /\ UNCHANGED <<connVars, task, processVars, ledger, peak, closedAs>>

\* An error or a timeout: last_sent stays.
ReplyError ==
    /\ loop = "reply" /\ ~dropped
    /\ Abandon
    /\ BackToSleep
    /\ UNCHANGED <<connVars, lastSent, task, processVars, ledger, peak, closedAs>>

LateArrives(batch) ==
    /\ late' = late \ {batch}
    /\ Overwrite(batch)
    /\ UNCHANGED <<connVars, lastSent, task, loopVars, processVars, closedAs>>

-----------------------------------------------------------------------------
(* shutdown, and the end of the runtime *)

\* Called by Drop: of _traffic_guard at the end of run().
Shutdown ==
    /\ cancelled' = TRUE
    /\ UNCHANGED <<connVars, lastSent, task, loopVars, dropped, apiVars, closedAs>>

\* run() has returned, and the runtime drops the tasks it spawned: those of the
\* closed events wherever they are, the loop at its await (see LoopCancelled
\* and LoopAborted).  A closed event that still arrives afterwards is the same
\* as one that arrived before, since its counts are final.  Connection tasks
\* go on to their next await, and splice relays, on threads of their own,
\* count on.
RuntimeDropped ==
    /\ cancelled /\ ~dropped
    /\ dropped' = TRUE
    /\ task' = [id \in Ids |-> IF task[id] \in {"queued", "sending"} THEN "dropped"
                               ELSE task[id]]
    /\ UNCHANGED <<connVars, lastSent, loopVars, cancelled, apiVars, closedAs>>

\* The select of run_loop sees the token.
LoopCancelled ==
    /\ cancelled
    /\ loop = "sleep"
    /\ loop' = "stopped"
    /\ UNCHANGED <<connVars, lastSent, task, todo, snapshot, request, applied, processVars, apiVars, closedAs>>

\* JoinHandle::abort drops the loop at its await.
LoopAborted ==
    /\ cancelled
    /\ loop = "reply"
    /\ loop' = "stopped"
    /\ Abandon
    /\ snapshot' = Nothing /\ request' = Nothing /\ applied' = FALSE
    /\ UNCHANGED <<connVars, lastSent, task, todo, processVars, ledger, peak, closedAs>>

-----------------------------------------------------------------------------
ConnectionStep(id) ==
    \/ Register(id)
    \/ \E given \in BOOLEAN : RegisterCloser(id, given)
    \/ \E d \in Dirs : CountByte(id, d)
    \/ Finish(id)
    \/ FinishUnknown(id)
    \/ FinishCloser(id)

ClosedStep(id) == AcquirePermit(id) \/ ClosedDelivered(id) \/ ClosedFailed(id)

\* What the loop does on its own.
LoopStep ==
    \/ Wake
    \/ \E id \in Ids : Visit(id)
    \/ Collected
    \/ NothingToReport
    \/ SendBatch
    \/ ReplyError

AnsweredOk == \E toEnd \in SUBSET Ids : ReplyOk(toEnd)

Next ==
    \/ \E id \in Ids : ConnectionStep(id) \/ ClosedStep(id)
    \/ LoopStep \/ BatchApplied \/ AnsweredOk
    \/ \E batch \in late : LateArrives(batch)
    \/ Shutdown \/ RuntimeDropped \/ LoopCancelled \/ LoopAborted

\* The runtime schedules the tasks and fires the request timeout; select!
\* polls its branches in random order, so that a cancelled token is seen.
Fairness ==
    /\ WF_vars(LoopStep)
    /\ SF_vars(LoopCancelled)
    /\ \A id \in Ids : WF_vars(ClosedStep(id)) /\ WF_vars(FinishCloser(id))

Spec == Init /\ [][Next]_vars /\ Fairness

-----------------------------------------------------------------------------
(* Properties *)

\* What is marked as sent has reached the API: a batch that failed, or whose
\* answer was lost, is never marked, and is reported again.
SentReachedApi == \A id \in Ids : Leq(lastSent[id], peak[id])

\* The API is never told of more than a connection has relayed.  With the
\* above, what is marked as sent was relayed, so that the saturating
\* subtraction of the deltas never hides traffic.
ReportedWasRelayed == \A id \in Ids : Leq(peak[id], bytes[id])

\* A closed event carries the final counts: no batch, before or after it,
\* tells the API of more, and the connection counts nothing afterwards.
ClosedIsFinal ==
    \A id \in Ids : closedAs[id] # Absent =>
        closedAs[id] = bytes[id] /\ Leq(peak[id], closedAs[id])

\* Marks of a record never go back, although snapshots are taken while the
\* relays count and are stored after an await.
MarksNeverGoBack ==
    [][\A id \in Ids : Recorded(id) => Leq(lastSent[id], lastSent'[id])]_vars

-----------------------------------------------------------------------------
(* The inductive invariant behind the four *)

\* What the loop holds for an id lies between what is marked and what is
\* counted by now, and is there only for ids that have been in the map.
SnapshotBetween ==
    \A id \in Ids : snapshot[id] # Absent =>
        /\ phase[id] # "new"
        /\ Leq(snapshot[id], bytes[id])
        /\ Recorded(id) => Leq(lastSent[id], snapshot[id])

\* The batch that awaits its answer is part of the snapshot.
RequestOfSnapshot ==
    \A id \in Ids : request[id] # Absent =>
        loop = "reply" /\ request[id] = snapshot[id]

\* Once the API has taken the batch, it was told of all that is in it.
AppliedWasTold ==
    applied => \A id \in Ids : request[id] # Absent => Leq(request[id], peak[id])

\* A batch that is still on its way tells of nothing that was not relayed.
LateWasRelayed ==
    \A batch \in late, id \in Ids : batch[id] # Absent => Leq(batch[id], bytes[id])

\* The closed event belongs to a connection that has ended.
ClosedAfterFinish ==
    \A id \in Ids :
        /\ task[id] # "none" => phase[id] = "finished"
        /\ closedAs[id] # Absent => task[id] = "done" /\ closedAs[id] = bytes[id]

ReporterInv == /\ TypeOK
               /\ SnapshotBetween
               /\ RequestOfSnapshot
               /\ AppliedWasTold
               /\ LateWasRelayed
               /\ ClosedAfterFinish
               /\ SentReachedApi
               /\ ReportedWasRelayed

-----------------------------------------------------------------------------
(* Liveness *)

\* A permit is held only while its event is being sent, so that the events
\* of all finished connections are attempted, however many fail; nothing waits
\* for them when the process ends.
EveryFinishIsSent ==
    \A id \in Ids : phase[id] = "removed" ~> task[id] = "done" \/ dropped

\* An API that again and again takes a batch and says so in time.
ApiAnswers == SF_vars(BatchApplied) /\ SF_vars(AnsweredOk)

\* Traffic of a connection that stays is reported in the end, by the round
\* that sees it or by a later one, if only the API answers now and then.
TrafficIsReported ==
    ApiAnswers =>
        \A id \in Ids, d \in Dirs, n \in 1 .. MaxBytes :
            Recorded(id) /\ bytes[id][d] >= n ~>
                peak[id][d] >= n \/ ~Recorded(id) \/ cancelled
=============================================================================
