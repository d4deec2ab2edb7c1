----------------------- MODULE TrafficReporter_proofs -----------------------
(***************************************************************************)
(* Proofs about TrafficReporter for any ids, directions and bounds.         *)
(***************************************************************************)
EXTENDS TrafficReporter, TLAPS

(***************************************************************************)
(* Counts, compared direction by direction.                                 *)
(***************************************************************************)

\* A traffic value is not the mark of an absent one.
LEMMA TrafficPresent == \A t \in Traffic : t # Absent
BY ReporterAssumption DEF Traffic

LEMMA ZeroType == Zero \in Traffic
BY ReporterAssumption DEF Zero, Traffic

LEMMA NothingType == Nothing \in Batch
BY DEF Nothing, Batch

\* Leq is transitive.
LEMMA LeqTransitive ==
    ASSUME NEW t \in Traffic, NEW u \in Traffic, NEW v \in Traffic, Leq(t, u), Leq(u, v)
    PROVE  Leq(t, v)
BY ReporterAssumption DEF Leq, Traffic

\* Leq is reflexive, and Zero is its least value.
LEMMA LeqReflexive == \A t \in Traffic : Leq(t, t) /\ Leq(Zero, t)
BY ReporterAssumption DEF Leq, Traffic, Zero

\* Join is the least upper bound.
LEMMA JoinBounds ==
    ASSUME NEW t \in Traffic, NEW u \in Traffic
    PROVE  /\ Join(t, u) \in Traffic
           /\ Leq(t, Join(t, u)) /\ Leq(u, Join(t, u))
           /\ \A v \in Traffic : Leq(t, v) /\ Leq(u, v) => Leq(Join(t, u), v)
BY ReporterAssumption DEF Leq, Join, Traffic

\* The API's counts after it has taken a batch: no peak goes down, each id of
\* the batch is covered by its peak, and no peak exceeds both of its origins.
LEMMA OverwriteBounds ==
    ASSUME NEW batch \in Batch, TypeOK, Overwrite(batch)
    PROVE  /\ ledger' \in [Ids -> Traffic] /\ peak' \in [Ids -> Traffic]
           /\ \A id \in Ids :
                 /\ Leq(peak[id], peak'[id])
                 /\ batch[id] # Absent => Leq(batch[id], peak'[id])
                 /\ \A v \in Traffic :
                       Leq(peak[id], v) /\ (batch[id] # Absent => Leq(batch[id], v))
                          => Leq(peak'[id], v)
<1>1. ASSUME NEW id \in Ids, batch[id] = Absent
      PROVE  peak'[id] = peak[id] /\ peak[id] \in Traffic /\ Leq(peak[id], peak'[id])
    BY <1>1, LeqReflexive DEF Overwrite, TypeOK
<1>2. ASSUME NEW id \in Ids, batch[id] # Absent
      PROVE  /\ batch[id] \in Traffic /\ peak[id] \in Traffic
             /\ peak'[id] = Join(peak[id], batch[id])
    BY <1>2 DEF Overwrite, TypeOK, Batch
<1>3. \A id \in Ids : ledger[id] \in Traffic /\ batch[id] \in Traffic \cup {Absent}
    BY DEF TypeOK, Batch
<1>4. \A id \in Ids : peak'[id] \in Traffic
    BY <1>1, <1>2, JoinBounds
<1>5. peak' \in [Ids -> Traffic]
    BY <1>4 DEF Overwrite
<1>6. ledger' \in [Ids -> Traffic]
    BY <1>3 DEF Overwrite
<1> QED
    BY <1>1, <1>2, <1>5, <1>6, JoinBounds

(***************************************************************************)
(* Types.                                                                   *)
(***************************************************************************)

LEMMA EntriesType == TypeOK => Entries \in Batch
BY DEF TypeOK, Entries, Batch

\* A request that is given up on joins those that are late, or does not.
LEMMA AbandonType == TypeOK /\ Abandon => late' \subseteq Batch
BY DEF TypeOK, Abandon

LEMMA TypeInit == Init => TypeOK
BY ZeroType, NothingType DEF Init, TypeOK

\* The type of lastSent depends on what the batch is made of: ReplyOk stores
\* the snapshot of the ids of the request.
LEMMA TypeStep == TypeOK /\ RequestOfSnapshot /\ [Next]_vars => TypeOK'
<1> SUFFICES ASSUME TypeOK, RequestOfSnapshot, [Next]_vars
             PROVE  TypeOK'
    OBVIOUS
<1> USE DEF TypeOK, connVars, loopVars, apiVars, processVars
<1>1. CASE UNCHANGED vars
    BY <1>1 DEF vars
<1>2. ASSUME NEW id \in Ids, Register(id)
      PROVE  TypeOK'
    BY <1>2, ZeroType DEF Register, Becomes
<1>3. ASSUME NEW id \in Ids, NEW given \in BOOLEAN, RegisterCloser(id, given)
      PROVE  TypeOK'
    BY <1>3 DEF RegisterCloser, Becomes
<1>4. ASSUME NEW id \in Ids, NEW d \in Dirs, CountByte(id, d)
      PROVE  TypeOK'
  <2>1. bytes' \in [Ids -> Traffic]
      BY <1>4, ReporterAssumption DEF CountByte, Traffic
  <2> QED
      BY <1>4, <2>1 DEF CountByte
<1>5. ASSUME NEW id \in Ids, Finish(id) \/ FinishUnknown(id) \/ FinishCloser(id)
      PROVE  TypeOK'
    BY <1>5 DEF Finish, FinishUnknown, FinishCloser, Becomes
<1>6. ASSUME NEW id \in Ids, AcquirePermit(id) \/ ClosedFailed(id)
      PROVE  TypeOK'
    BY <1>6 DEF AcquirePermit, ClosedFailed
<1>7. ASSUME NEW id \in Ids, ClosedDelivered(id)
      PROVE  TypeOK'
    BY <1>7 DEF ClosedDelivered, Batch
<1>8. CASE Wake
    BY <1>8, NothingType DEF Wake, RecordedIds
<1>9. ASSUME NEW id \in Ids, Visit(id)
      PROVE  TypeOK'
    BY <1>9 DEF Visit, Batch
<1>10. CASE Collected \/ NothingToReport
    BY <1>10, NothingType DEF Collected, NothingToReport
<1>11. CASE SendBatch
    BY <1>11, EntriesType DEF SendBatch
<1>12. CASE BatchApplied
    BY <1>12, OverwriteBounds DEF BatchApplied
<1>13. ASSUME NEW toEnd \in SUBSET Ids, ReplyOk(toEnd)
      PROVE  TypeOK'
  <2>1. \A id \in Ids : request[id] # Absent => snapshot[id] \in Traffic
      BY DEF Batch, RequestOfSnapshot
  <2>2. lastSent' \in [Ids -> Traffic]
      BY <1>13, <2>1 DEF ReplyOk
  <2> QED
      BY <1>13, <2>2, NothingType DEF ReplyOk, BackToSleep
<1>14. CASE ReplyError
    BY <1>14, AbandonType, NothingType DEF ReplyError, BackToSleep
<1>15. ASSUME NEW batch \in late, LateArrives(batch)
       PROVE  TypeOK'
    BY <1>15, OverwriteBounds DEF LateArrives
<1>16. CASE Shutdown \/ RuntimeDropped \/ LoopCancelled
    BY <1>16 DEF Shutdown, RuntimeDropped, LoopCancelled
<1>17. CASE LoopAborted
    BY <1>17, AbandonType, NothingType DEF LoopAborted
<1> QED
    BY <1>1, <1>2, <1>3, <1>4, <1>5, <1>6, <1>7, <1>8, <1>9, <1>10, <1>11, <1>12,
       <1>13, <1>14, <1>15, <1>16, <1>17
       DEF Next, ConnectionStep, ClosedStep, LoopStep, AnsweredOk

(***************************************************************************)
(* The invariant.                                                           *)
(***************************************************************************)

LEMMA ReporterInvInit == Init => ReporterInv
<1> SUFFICES ASSUME Init PROVE ReporterInv
    OBVIOUS
<1>1. TypeOK
    BY TypeInit
<1>2. \A id \in Ids : Leq(lastSent[id], peak[id]) /\ Leq(peak[id], bytes[id])
    BY ZeroType, LeqReflexive DEF Init
<1> QED
    BY <1>1, <1>2
       DEF Init, Nothing, ReporterInv, SnapshotBetween, RequestOfSnapshot, AppliedWasTold,
           LateWasRelayed, ClosedAfterFinish, SentReachedApi, ReportedWasRelayed

\* A request is sent from the snapshot of the same round, which stays until
\* the loop goes back to sleep.
LEMMA RequestStep == ReporterInv /\ [Next]_vars => RequestOfSnapshot'
<1> SUFFICES ASSUME ReporterInv, [Next]_vars
             PROVE  RequestOfSnapshot'
    OBVIOUS
<1> USE DEF ReporterInv, TypeOK, RequestOfSnapshot, connVars, loopVars, apiVars, processVars
<1>1. CASE UNCHANGED <<loop, snapshot, request>>
    BY <1>1
<1>2. CASE snapshot' = Nothing /\ request' = Nothing
    BY <1>2 DEF Nothing
<1>3. CASE Wake \/ (\E id \in Ids : Visit(id)) \/ Collected \/ NothingToReport
    BY <1>3 DEF Wake, Visit, Collected, NothingToReport
<1>4. CASE SendBatch
    BY <1>4 DEF SendBatch, Entries
<1>5. CASE LoopCancelled
    BY <1>5 DEF LoopCancelled
<1>6. CASE (\E toEnd \in SUBSET Ids : ReplyOk(toEnd)) \/ ReplyError \/ LoopAborted
    BY <1>6, <1>2 DEF ReplyOk, ReplyError, LoopAborted, BackToSleep
<1>7. CASE \E id \in Ids : ConnectionStep(id) \/ ClosedStep(id)
    BY <1>7, <1>1
       DEF ConnectionStep, ClosedStep, Register, RegisterCloser, CountByte, Finish, FinishUnknown,
           FinishCloser, AcquirePermit, ClosedDelivered, ClosedFailed
<1>8. CASE BatchApplied \/ Shutdown \/ RuntimeDropped \/ (\E batch \in late : LateArrives(batch)) \/ UNCHANGED vars
    BY <1>8, <1>1 DEF BatchApplied, Shutdown, RuntimeDropped, LateArrives, vars
<1> QED
    BY <1>3, <1>4, <1>5, <1>6, <1>7, <1>8 DEF Next, LoopStep, AnsweredOk

\* The session's counters grow in the relay and nowhere shrink.
LEMMA BytesGrow ==
    ASSUME TypeOK, [Next]_vars
    PROVE  \A id \in Ids : Leq(bytes[id], bytes'[id])
<1> USE DEF connVars, loopVars, apiVars, processVars
<1>1. ASSUME UNCHANGED bytes PROVE \A id \in Ids : Leq(bytes[id], bytes'[id])
    BY <1>1, LeqReflexive DEF TypeOK
<1>2. ASSUME NEW i \in Ids, NEW d \in Dirs, CountByte(i, d)
      PROVE  \A id \in Ids : Leq(bytes[id], bytes'[id])
    BY <1>2, ReporterAssumption DEF CountByte, TypeOK, Traffic, Leq
<1>3. CASE \E i \in Ids : ClosedStep(i)
    BY <1>3, <1>1 DEF ClosedStep, AcquirePermit, ClosedDelivered, ClosedFailed
<1>4. CASE \E i \in Ids : ConnectionStep(i)
    BY <1>4, <1>1, <1>2
       DEF ConnectionStep, Register, RegisterCloser, Finish, FinishUnknown, FinishCloser
<1>5. CASE LoopStep \/ AnsweredOk
    BY <1>5, <1>1 DEF LoopStep, AnsweredOk, Wake, Visit, Collected, NothingToReport, SendBatch,
                      ReplyError, ReplyOk
<1>6. CASE \/ BatchApplied \/ Shutdown \/ RuntimeDropped \/ LoopCancelled \/ LoopAborted
           \/ (\E batch \in late : LateArrives(batch)) \/ UNCHANGED vars
    BY <1>6, <1>1 DEF BatchApplied, Shutdown, RuntimeDropped, LoopCancelled, LoopAborted, LateArrives, vars
<1> QED
    BY <1>3, <1>4, <1>5, <1>6 DEF Next

\* Present values of a batch are traffic.
LEMMA BatchValue == \A b \in Batch, id \in Ids : b[id] # Absent => b[id] \in Traffic
BY DEF Batch

LEMMA MarksAreCovered ==
    ReporterInv => \A id \in Ids : Leq(lastSent[id], bytes[id])
BY LeqTransitive DEF ReporterInv, TypeOK, SentReachedApi, ReportedWasRelayed

\* The loop takes counts that are not below the marks, and only the loop
\* moves the marks, when it drops the snapshot.
LEMMA SnapshotStep == ReporterInv /\ [Next]_vars => SnapshotBetween'
<1> SUFFICES ASSUME ReporterInv, [Next]_vars
             PROVE  SnapshotBetween'
    OBVIOUS
<1> USE DEF connVars, loopVars, apiVars, processVars
<1>1. TypeOK /\ SnapshotBetween
    BY DEF ReporterInv
<1>2. CASE UNCHANGED <<snapshot, phase, bytes, lastSent>>
    BY <1>1, <1>2 DEF SnapshotBetween, Recorded
<1>3. CASE snapshot' = Nothing
    BY <1>3 DEF SnapshotBetween, Nothing
<1>4. ASSUME NEW i \in Ids, Register(i)
      PROVE  SnapshotBetween'
    BY <1>1, <1>4 DEF Register, Becomes, SnapshotBetween, Recorded, TypeOK
<1>5. ASSUME NEW i \in Ids, NEW given \in BOOLEAN,
             RegisterCloser(i, given) \/ Finish(i) \/ FinishUnknown(i) \/ FinishCloser(i)
      PROVE  SnapshotBetween'
    BY <1>1, <1>5
       DEF RegisterCloser, Finish, FinishUnknown, FinishCloser, Becomes, SnapshotBetween,
           Recorded, TypeOK
<1>6. ASSUME NEW i \in Ids, NEW d \in Dirs, CountByte(i, d)
      PROVE  SnapshotBetween'
  <2>1. UNCHANGED <<snapshot, phase, lastSent>>
      BY <1>6 DEF CountByte
  <2>2. TypeOK'
      BY TypeStep DEF ReporterInv
  <2>3. \A id \in Ids : snapshot[id] # Absent => Leq(snapshot[id], bytes'[id])
      BY <1>1, <2>2, BytesGrow, BatchValue, LeqTransitive DEF TypeOK, SnapshotBetween
  <2> QED
      BY <1>1, <2>1, <2>3 DEF SnapshotBetween, Recorded
<1>7. ASSUME NEW i \in Ids, Visit(i)
      PROVE  SnapshotBetween'
  <2>1. Leq(bytes[i], bytes[i]) /\ Leq(lastSent[i], bytes[i])
      BY <1>1, LeqReflexive, MarksAreCovered DEF TypeOK
  <2> QED
      BY <1>1, <1>7, <2>1 DEF Visit, SnapshotBetween, Recorded, TypeOK, Batch
<1>8. CASE \E i \in Ids : ClosedStep(i)
    BY <1>2, <1>8 DEF ClosedStep, AcquirePermit, ClosedDelivered, ClosedFailed
<1>9. CASE Collected \/ SendBatch \/ BatchApplied \/ Shutdown \/ RuntimeDropped \/ LoopCancelled
             \/ (\E batch \in late : LateArrives(batch)) \/ UNCHANGED vars
    BY <1>2, <1>9 DEF Collected, SendBatch, BatchApplied, Shutdown, RuntimeDropped, LoopCancelled, LateArrives, vars
<1>10. CASE Wake \/ NothingToReport \/ ReplyError \/ AnsweredOk \/ LoopAborted
    BY <1>3, <1>10 DEF Wake, NothingToReport, ReplyError, AnsweredOk, ReplyOk, LoopAborted, BackToSleep
<1> QED
    BY <1>4, <1>5, <1>6, <1>7, <1>8, <1>9, <1>10 DEF Next, ConnectionStep, LoopStep

\* The API's memory of what it was told only grows, and stays below what
\* was relayed: the batch it is sent comes from a snapshot, or is late.
LEMMA PeakStep ==
    ASSUME ReporterInv, [Next]_vars
    PROVE  /\ \A id \in Ids : Leq(peak[id], peak'[id])
           /\ \A id \in Ids : Leq(peak'[id], bytes[id])
           /\ \/ UNCHANGED peak
              \/ UNCHANGED <<bytes, lastSent, request>>
<1> USE DEF connVars, loopVars, apiVars, processVars
<1>1. ASSUME UNCHANGED peak
      PROVE  \A id \in Ids : Leq(peak[id], peak'[id]) /\ Leq(peak'[id], bytes[id])
    BY <1>1, LeqReflexive DEF ReporterInv, TypeOK, ReportedWasRelayed
<1>2. ASSUME NEW batch \in Batch, Overwrite(batch),
             \A id \in Ids : batch[id] # Absent => Leq(batch[id], bytes[id])
      PROVE  \A id \in Ids : Leq(peak[id], peak'[id]) /\ Leq(peak'[id], bytes[id])
  <2>1. TypeOK /\ \A id \in Ids : bytes[id] \in Traffic /\ Leq(peak[id], bytes[id])
      BY DEF ReporterInv, TypeOK, ReportedWasRelayed
  <2> QED
      BY <1>2, <2>1, OverwriteBounds
<1>3. ASSUME BatchApplied
      PROVE  \A id \in Ids : Leq(peak[id], peak'[id]) /\ Leq(peak'[id], bytes[id])
  <2>1. request \in Batch /\ Overwrite(request)
      BY <1>3 DEF BatchApplied, ReporterInv, TypeOK
  <2>2. \A id \in Ids : request[id] # Absent => Leq(request[id], bytes[id])
      BY DEF ReporterInv, RequestOfSnapshot, SnapshotBetween
  <2> QED
      BY <1>2, <2>1, <2>2
<1>4. ASSUME NEW batch \in late, LateArrives(batch)
      PROVE  \A id \in Ids : Leq(peak[id], peak'[id]) /\ Leq(peak'[id], bytes[id])
  <2>1. batch \in Batch /\ Overwrite(batch)
      BY <1>4 DEF LateArrives, ReporterInv, TypeOK
  <2>2. \A id \in Ids : batch[id] # Absent => Leq(batch[id], bytes[id])
      BY DEF ReporterInv, LateWasRelayed
  <2> QED
      BY <1>2, <2>1, <2>2
<1>5. CASE BatchApplied \/ \E batch \in late : LateArrives(batch)
    BY <1>3, <1>4, <1>5 DEF BatchApplied, LateArrives
<1>6. CASE \E i \in Ids : ConnectionStep(i) \/ ClosedStep(i)
    BY <1>1, <1>6
       DEF ConnectionStep, Register, RegisterCloser, CountByte, Finish, FinishUnknown, FinishCloser,
           ClosedStep, AcquirePermit, ClosedDelivered, ClosedFailed
<1>7. CASE LoopStep \/ AnsweredOk
    BY <1>1, <1>7
       DEF LoopStep, AnsweredOk, Wake, Visit, Collected, NothingToReport, SendBatch, ReplyError, ReplyOk
<1>8. CASE Shutdown \/ RuntimeDropped \/ LoopCancelled \/ LoopAborted \/ UNCHANGED vars
    BY <1>1, <1>8 DEF Shutdown, RuntimeDropped, LoopCancelled, LoopAborted, vars
<1> QED
    BY <1>5, <1>6, <1>7, <1>8 DEF Next

\* The API is never told of more than was relayed.
LEMMA ReportedStep == ReporterInv /\ [Next]_vars => ReportedWasRelayed'
<1> SUFFICES ASSUME ReporterInv, [Next]_vars
             PROVE  ReportedWasRelayed'
    OBVIOUS
<1>1. TypeOK /\ TypeOK'
    BY TypeStep DEF ReporterInv
<1>2. \A id \in Ids : Leq(peak'[id], bytes[id]) /\ Leq(bytes[id], bytes'[id])
    BY <1>1, PeakStep, BytesGrow
<1> QED
    BY <1>1, <1>2, LeqTransitive DEF TypeOK, ReportedWasRelayed

\* A mark is set only to what the API has taken.
LEMMA SentStep == ReporterInv /\ [Next]_vars => SentReachedApi'
<1> SUFFICES ASSUME ReporterInv, [Next]_vars
             PROVE  SentReachedApi'
    OBVIOUS
<1> USE DEF connVars, loopVars, apiVars, processVars
<1>1. TypeOK /\ TypeOK' /\ SentReachedApi
    BY TypeStep DEF ReporterInv
<1>2. ASSUME NEW id \in Ids, Leq(lastSent'[id], peak[id])
      PROVE  Leq(lastSent'[id], peak'[id])
    BY <1>1, <1>2, PeakStep, LeqTransitive DEF TypeOK
<1>3. ASSUME UNCHANGED lastSent PROVE SentReachedApi'
    BY <1>1, <1>2, <1>3 DEF SentReachedApi
<1>4. ASSUME NEW i \in Ids, Register(i)
      PROVE  SentReachedApi'
  <2>1. \A id \in Ids : lastSent'[id] = IF id = i THEN Zero ELSE lastSent[id]
      BY <1>1, <1>4 DEF Register, TypeOK
  <2>2. \A id \in Ids : Leq(lastSent'[id], peak[id])
      BY <1>1, <2>1, LeqReflexive DEF TypeOK, SentReachedApi
  <2> QED
      BY <1>2, <2>2 DEF SentReachedApi
<1>5. ASSUME NEW toEnd \in SUBSET Ids, ReplyOk(toEnd)
      PROVE  SentReachedApi'
  <2>1. \A id \in Ids : lastSent'[id] = IF request[id] # Absent /\ Recorded(id)
                                         THEN snapshot[id] ELSE lastSent[id]
      BY <1>5 DEF ReplyOk
  <2>2. \A id \in Ids : request[id] # Absent =>
            request[id] = snapshot[id] /\ Leq(request[id], peak[id])
      BY <1>5 DEF ReplyOk, ReporterInv, RequestOfSnapshot, AppliedWasTold
  <2>3. \A id \in Ids : Leq(lastSent'[id], peak[id])
      BY <1>1, <2>1, <2>2 DEF SentReachedApi
  <2> QED
      BY <1>2, <2>3 DEF SentReachedApi
<1>6. CASE \E i \in Ids : ConnectionStep(i) \/ ClosedStep(i)
    BY <1>3, <1>4, <1>6
       DEF ConnectionStep, RegisterCloser, CountByte, Finish, FinishUnknown, FinishCloser,
           ClosedStep, AcquirePermit, ClosedDelivered, ClosedFailed
<1>7. CASE LoopStep \/ BatchApplied \/ (\E batch \in late : LateArrives(batch))
    BY <1>3, <1>7
       DEF LoopStep, Wake, Visit, Collected, NothingToReport, SendBatch, ReplyError,
           BatchApplied, LateArrives
<1>8. CASE Shutdown \/ RuntimeDropped \/ LoopCancelled \/ LoopAborted \/ UNCHANGED vars
    BY <1>3, <1>8 DEF Shutdown, RuntimeDropped, LoopCancelled, LoopAborted, vars
<1> QED
    BY <1>5, <1>6, <1>7, <1>8 DEF Next, AnsweredOk

\* A batch is known to be taken only after the API has overwritten its counts.
LEMMA AppliedStep == ReporterInv /\ [Next]_vars => AppliedWasTold'
<1> SUFFICES ASSUME ReporterInv, [Next]_vars
             PROVE  AppliedWasTold'
    OBVIOUS
<1> USE DEF connVars, loopVars, apiVars, processVars
<1>1. TypeOK /\ TypeOK' /\ AppliedWasTold
    BY TypeStep DEF ReporterInv
<1>2. ASSUME UNCHANGED <<applied, request>> PROVE AppliedWasTold'
  <2>1. \A id \in Ids : request[id] # Absent => request[id] \in Traffic
      BY <1>1, BatchValue DEF TypeOK
  <2> QED
      BY <1>1, <1>2, <2>1, PeakStep, LeqTransitive DEF TypeOK, AppliedWasTold
<1>3. ASSUME applied' = FALSE PROVE AppliedWasTold'
    BY <1>3 DEF AppliedWasTold
<1>4. CASE BatchApplied
    BY <1>1, <1>4, OverwriteBounds DEF BatchApplied, TypeOK, AppliedWasTold
<1>5. CASE \E i \in Ids : ConnectionStep(i) \/ ClosedStep(i)
    BY <1>2, <1>5
       DEF ConnectionStep, Register, RegisterCloser, CountByte, Finish, FinishUnknown, FinishCloser,
           ClosedStep, AcquirePermit, ClosedDelivered, ClosedFailed
<1>6. CASE Wake \/ (\E i \in Ids : Visit(i)) \/ Collected \/ NothingToReport
    BY <1>2, <1>6 DEF Wake, Visit, Collected, NothingToReport
<1>7. CASE SendBatch \/ ReplyError \/ AnsweredOk \/ LoopAborted
    BY <1>3, <1>7 DEF SendBatch, ReplyError, AnsweredOk, ReplyOk, LoopAborted, BackToSleep
<1>8. CASE Shutdown \/ RuntimeDropped \/ LoopCancelled \/ (\E batch \in late : LateArrives(batch)) \/ UNCHANGED vars
    BY <1>2, <1>8 DEF Shutdown, RuntimeDropped, LoopCancelled, LateArrives, vars
<1> QED
    BY <1>4, <1>5, <1>6, <1>7, <1>8 DEF Next, LoopStep

\* A request that is given up on was made from a snapshot.
LEMMA LateStep == ReporterInv /\ [Next]_vars => LateWasRelayed'
<1> SUFFICES ASSUME ReporterInv, [Next]_vars
             PROVE  LateWasRelayed'
    OBVIOUS
<1> USE DEF connVars, loopVars, apiVars, processVars
<1>1. TypeOK /\ TypeOK'
    BY TypeStep DEF ReporterInv
<1>2. \A batch \in late \cup {request}, id \in Ids :
          batch[id] # Absent => batch[id] \in Traffic /\ Leq(batch[id], bytes[id])
    BY <1>1, BatchValue
       DEF ReporterInv, TypeOK, LateWasRelayed, RequestOfSnapshot, SnapshotBetween
<1>3. ASSUME late' \subseteq late \cup {request} PROVE LateWasRelayed'
    BY <1>1, <1>2, <1>3, BytesGrow, LeqTransitive DEF TypeOK, LateWasRelayed
<1>4. CASE \E i \in Ids : ConnectionStep(i) \/ ClosedStep(i)
    BY <1>3, <1>4
       DEF ConnectionStep, Register, RegisterCloser, CountByte, Finish, FinishUnknown, FinishCloser,
           ClosedStep, AcquirePermit, ClosedDelivered, ClosedFailed
<1>5. CASE LoopStep \/ AnsweredOk \/ BatchApplied
    BY <1>3, <1>5
       DEF LoopStep, AnsweredOk, BatchApplied, Wake, Visit, Collected, NothingToReport, SendBatch,
           ReplyError, ReplyOk, Abandon
<1>6. CASE Shutdown \/ RuntimeDropped \/ LoopCancelled \/ LoopAborted \/ (\E batch \in late : LateArrives(batch))
             \/ UNCHANGED vars
    BY <1>3, <1>6 DEF Shutdown, RuntimeDropped, LoopCancelled, LoopAborted, LateArrives, Abandon, vars
<1> QED
    BY <1>4, <1>5, <1>6 DEF Next

\* The closed event is the business of a connection that has ended, and that
\* counts nothing any more.
LEMMA ClosedAfterStep == ReporterInv /\ [Next]_vars => ClosedAfterFinish'
<1> SUFFICES ASSUME ReporterInv, [Next]_vars
             PROVE  ClosedAfterFinish'
    OBVIOUS
<1> USE DEF connVars, loopVars, apiVars, processVars
<1>1. TypeOK /\ ClosedAfterFinish
    BY DEF ReporterInv
<1>2. ASSUME UNCHANGED <<phase, bytes, task, closedAs>> PROVE ClosedAfterFinish'
    BY <1>1, <1>2 DEF ClosedAfterFinish
<1>3. ASSUME NEW i \in Ids, NEW given \in BOOLEAN,
             Register(i) \/ RegisterCloser(i, given) \/ Finish(i) \/ FinishUnknown(i)
      PROVE  ClosedAfterFinish'
    BY <1>1, <1>3
       DEF Register, RegisterCloser, Finish, FinishUnknown, Becomes, ClosedAfterFinish, TypeOK
<1>4. ASSUME NEW i \in Ids, NEW d \in Dirs, CountByte(i, d)
      PROVE  ClosedAfterFinish'
    BY <1>1, <1>4 DEF CountByte, ClosedAfterFinish, TypeOK
<1>5. ASSUME NEW i \in Ids, FinishCloser(i)
      PROVE  ClosedAfterFinish'
    BY <1>1, <1>5 DEF FinishCloser, Becomes, ClosedAfterFinish, TypeOK
<1>6. ASSUME NEW i \in Ids, ClosedStep(i)
      PROVE  ClosedAfterFinish'
    BY <1>1, <1>6
       DEF ClosedStep, AcquirePermit, ClosedDelivered, ClosedFailed, ClosedAfterFinish, TypeOK, Batch
<1>7. CASE LoopStep \/ AnsweredOk \/ BatchApplied
    BY <1>2, <1>7
       DEF LoopStep, AnsweredOk, BatchApplied, Wake, Visit, Collected, NothingToReport, SendBatch,
           ReplyError, ReplyOk
<1>8. CASE Shutdown \/ LoopCancelled \/ LoopAborted \/ (\E batch \in late : LateArrives(batch))
             \/ UNCHANGED vars
    BY <1>2, <1>8 DEF Shutdown, LoopCancelled, LoopAborted, LateArrives, vars
<1>9. CASE RuntimeDropped
    BY <1>1, <1>9 DEF RuntimeDropped, ClosedAfterFinish, TypeOK
<1> QED
    BY <1>3, <1>4, <1>5, <1>6, <1>7, <1>8, <1>9 DEF Next, ConnectionStep

\* The invariant, whole.
THEOREM ReporterInvariance == Spec => []ReporterInv
<1>1. ReporterInv /\ [Next]_vars => ReporterInv'
  <2> SUFFICES ASSUME ReporterInv, [Next]_vars PROVE ReporterInv'
      OBVIOUS
  <2>1. TypeOK'
      BY TypeStep DEF ReporterInv
  <2> QED
      BY <2>1, SnapshotStep, RequestStep, AppliedStep, LateStep, ClosedAfterStep, SentStep,
         ReportedStep
         DEF ReporterInv
<1> QED
    BY <1>1, ReporterInvInit, PTL DEF Spec

(***************************************************************************)
(* What follows from it.                                                    *)
(***************************************************************************)

\* Type correctness of the reporter.
THEOREM TypeCorrect == Spec => []TypeOK
<1>1. ReporterInv => TypeOK
    BY DEF ReporterInv
<1> QED
    BY <1>1, ReporterInvariance, PTL

\* What is marked as sent has reached the API, however requests fail.
THEOREM MarksReachedApi == Spec => []SentReachedApi
<1>1. ReporterInv => SentReachedApi
    BY DEF ReporterInv
<1> QED
    BY <1>1, ReporterInvariance, PTL

\* The API is never told of more than was relayed, however late.
THEOREM NothingInvented == Spec => []ReportedWasRelayed
<1>1. ReporterInv => ReportedWasRelayed
    BY DEF ReporterInv
<1> QED
    BY <1>1, ReporterInvariance, PTL

\* The closed event carries the final counts, and no batch that overtakes it
\* or is overtaken by it tells of more.
THEOREM ClosedEventIsFinal == Spec => []ClosedIsFinal
<1>1. ReporterInv => ClosedIsFinal
    BY DEF ReporterInv, ClosedAfterFinish, ReportedWasRelayed, ClosedIsFinal
<1> QED
    BY <1>1, ReporterInvariance, PTL

\* The marks of a record never go back.
THEOREM MarksGrow == Spec => MarksNeverGoBack
<1>1. ReporterInv /\ [Next]_vars =>
          [\A id \in Ids : Recorded(id) => Leq(lastSent[id], lastSent'[id])]_vars
  <2> SUFFICES ASSUME ReporterInv, Next
               PROVE  \A id \in Ids : Recorded(id) => Leq(lastSent[id], lastSent'[id])
      OBVIOUS
  <2> USE DEF connVars, loopVars, apiVars, processVars
  <2>1. TypeOK
      BY DEF ReporterInv
  <2>2. ASSUME UNCHANGED lastSent
        PROVE  \A id \in Ids : Leq(lastSent[id], lastSent'[id])
      BY <2>1, <2>2, LeqReflexive DEF TypeOK
  <2>3. ASSUME NEW i \in Ids, Register(i)
        PROVE  \A id \in Ids : Recorded(id) => Leq(lastSent[id], lastSent'[id])
      BY <2>1, <2>3, LeqReflexive DEF Register, Becomes, Recorded, TypeOK
  <2>4. ASSUME NEW toEnd \in SUBSET Ids, ReplyOk(toEnd)
        PROVE  \A id \in Ids : Recorded(id) => Leq(lastSent[id], lastSent'[id])
      BY <2>1, <2>4, LeqReflexive
         DEF ReplyOk, ReporterInv, SnapshotBetween, RequestOfSnapshot, TypeOK
  <2>5. CASE \E i \in Ids : ConnectionStep(i) \/ ClosedStep(i)
      BY <2>2, <2>3, <2>5
         DEF ConnectionStep, RegisterCloser, CountByte, Finish, FinishUnknown, FinishCloser,
             ClosedStep, AcquirePermit, ClosedDelivered, ClosedFailed
  <2>6. CASE LoopStep \/ BatchApplied \/ \E batch \in late : LateArrives(batch)
      BY <2>2, <2>6
         DEF LoopStep, Wake, Visit, Collected, NothingToReport, SendBatch, ReplyError,
             BatchApplied, LateArrives
  <2>7. CASE Shutdown \/ RuntimeDropped \/ LoopCancelled \/ LoopAborted
      BY <2>2, <2>7 DEF Shutdown, RuntimeDropped, LoopCancelled, LoopAborted
  <2> QED
      BY <2>4, <2>5, <2>6, <2>7 DEF Next, AnsweredOk
<1> QED
    BY <1>1, ReporterInvariance, PTL DEF Spec, MarksNeverGoBack
=============================================================================
