-------------------------- MODULE CopyRelay_proofs --------------------------
(***************************************************************************)
(* Proofs about CopyRelay for any number of bytes, chunks of any size, and  *)
(* either way of joining the two directions.                                *)
(***************************************************************************)
EXTENDS CopyRelay, TLAPS

(***************************************************************************)
(* The bytes are consecutive numbers.                                       *)
(***************************************************************************)

Numbers(a, n) == [i \in 1 .. n |-> a + i]

\* n numbers after a are a sequence of length n.
LEMMA NumbersSeq ==
    ASSUME NEW a \in Nat, NEW n \in Nat
    PROVE  Numbers(a, n) \in Seq(Nat) /\ Len(Numbers(a, n)) = n
BY DEF Numbers

\* One more number at the end.
LEMMA NumbersAppend ==
    ASSUME NEW n \in Nat
    PROVE  Append(Numbers(0, n), n + 1) = Numbers(0, n + 1)
BY DEF Numbers

\* The first of them, and the others.
LEMMA NumbersHeadTail ==
    ASSUME NEW a \in Nat, NEW n \in Nat \ {0}
    PROVE  /\ Head(Numbers(a, n)) = a + 1
           /\ Tail(Numbers(a, n)) = Numbers(a + 1, n - 1)
BY DEF Numbers

(***************************************************************************)
(* One direction: what has been taken from the source is what the           *)
(* destination has, and then what the loop holds; it is also what has been  *)
(* counted, and then the chunk at hand.                                     *)
(***************************************************************************)

\* The destination has o bytes, the loop holds the b after them.
LoopAt(d, o, b) ==
    /\ out[d] = Numbers(0, o) /\ buf[d] = Numbers(o, b) /\ taken[d] = o + b
    /\ taken[d] <= written[d]
    /\ b <= chunk[d]
    /\ counted[d] + chunk[d] = taken[d]
    /\ pc[d] \in {"read", "done"} => chunk[d] = 0
    /\ pc[d] = "write" => b > 0
    /\ fin[d] <=> pc[d] = "done"
    /\ fin[d] => closed[d] /\ taken[d] = written[d]

LoopInv(d) == \E o, b \in 0 .. MaxBytes : LoopAt(d, o, b)

CopyInv ==
    /\ TypeOK
    /\ \A d \in Dirs : LoopInv(d)
    /\ relay = "ok" => \A d \in Dirs : pc[d] = "done"

\* At first nothing is written.
LEMMA CopyInit == Init => CopyInv
<1> SUFFICES ASSUME Init PROVE CopyInv
  OBVIOUS
<1>1. Numbers(0, 0) = <<>>
  BY DEF Numbers
<1>2. TypeOK
  BY SocketsAssumption DEF Init, SocketsInit, TypeOK, SocketsTypeOK
<1>3. ASSUME NEW d \in Dirs PROVE LoopAt(d, 0, 0)
  BY <1>1 DEF Init, SocketsInit, LoopAt
<1> QED  BY <1>2, <1>3, SocketsAssumption DEF CopyInv, LoopInv, Init

\* The numbers that a direction is about.
LEMMA Counters ==
    ASSUME TypeOK, NEW d \in Dirs
    PROVE  /\ taken[d] \in 0 .. MaxBytes /\ written[d] \in 0 .. MaxBytes
           /\ chunk[d] \in 0 .. MaxBytes /\ counted[d] \in 0 .. MaxBytes
           /\ MaxBytes \in Nat
BY SocketsAssumption DEF TypeOK, SocketsTypeOK

\* The length of what the destination has, and of what the loop holds.
LEMMA Lengths ==
    ASSUME NEW d \in Dirs, NEW o \in 0 .. MaxBytes, NEW b \in 0 .. MaxBytes, LoopAt(d, o, b)
    PROVE  Len(out[d]) = o /\ Len(buf[d]) = b /\ out[d] \in Seq(Nat) /\ buf[d] \in Seq(Nat)
<1>1. o \in Nat /\ b \in Nat
  BY SocketsAssumption
<1> QED  BY <1>1, NumbersSeq DEF LoopAt

\* A direction that a step leaves alone, but for more written by its source
\* before it closes.
LEMMA UntouchedLoop ==
    ASSUME TypeOK, NEW d \in Dirs, LoopInv(d),
           taken'[d] = taken[d], out'[d] = out[d], buf'[d] = buf[d], chunk'[d] = chunk[d],
           counted'[d] = counted[d], pc'[d] = pc[d], fin'[d] = fin[d],
           \/ written'[d] = written[d] /\ (closed[d] => closed'[d])
           \/ written'[d] = written[d] + 1 /\ ~closed[d]
    PROVE  LoopInv(d)'
<1>1. PICK o \in 0 .. MaxBytes, b \in 0 .. MaxBytes : LoopAt(d, o, b)
  BY DEF LoopInv
<1>2. LoopAt(d, o, b)'
  BY <1>1, Counters DEF LoopAt
<1> QED  BY <1>2 DEF LoopInv

\* A loop that reads holds what it has read.
LEMMA ReadLoop ==
    ASSUME TypeOK, NEW d \in Dirs, LoopInv(d), Read(d)
    PROVE  LoopInv(d)' /\ taken'[d] \in 0 .. MaxBytes /\ chunk'[d] \in 0 .. MaxBytes
<1>1. PICK o \in 0 .. MaxBytes, b \in 0 .. MaxBytes : LoopAt(d, o, b)
  BY DEF LoopInv
<1>2. PICK n \in ReadSizes(d) : /\ buf' = [buf EXCEPT ![d] = Chunk(d, n)]
                                /\ chunk' = [chunk EXCEPT ![d] = n]
                                /\ taken' = [taken EXCEPT ![d] = @ + n]
  BY DEF Read
<1>3. /\ pc[d] = "read" /\ pc'[d] = "write" /\ out' = out /\ fin' = fin
      /\ written' = written /\ closed' = closed /\ counted' = counted
  BY DEF Read, Becomes, TypeOK, peerVars
<1>4. n \in 1 .. MaxBytes /\ taken[d] + n <= written[d] /\ taken[d] + n \in 0 .. MaxBytes
  BY Counters DEF ReadSizes
<1>5. b = 0 /\ o = taken[d] /\ chunk[d] = 0 /\ counted[d] = taken[d] /\ ~fin[d]
  BY <1>1, <1>3, Counters DEF LoopAt
<1>6. Chunk(d, n) = Numbers(o, n)
  BY <1>5 DEF Chunk, Numbers
<1>7. buf'[d] = Numbers(o, n) /\ chunk'[d] = n /\ taken'[d] = taken[d] + n
  BY <1>2, <1>6 DEF TypeOK, SocketsTypeOK
<1>8. LoopAt(d, o, n)'
  BY <1>1, <1>3, <1>4, <1>5, <1>7, Counters DEF LoopAt
<1> QED  BY <1>4, <1>7, <1>8, Counters DEF LoopInv

\* The byte a loop writes is the next one the destination needs.
LEMMA WriteLoop ==
    ASSUME TypeOK, NEW d \in Dirs, LoopInv(d), WriteByte(d)
    PROVE  /\ LoopInv(d)' /\ chunk'[d] \in 0 .. MaxBytes /\ counted'[d] \in 0 .. MaxBytes
           /\ out'[d] = Numbers(0, Len(out[d]) + 1) /\ Len(out[d]) + 1 \in 1 .. taken[d]
<1>1. PICK o \in 0 .. MaxBytes, b \in 0 .. MaxBytes : LoopAt(d, o, b)
  BY DEF LoopInv
<1>2. /\ pc[d] = "write" /\ taken' = taken /\ fin' = fin /\ written' = written /\ closed' = closed
      /\ out'[d] = Append(out[d], Head(buf[d])) /\ buf'[d] = Tail(buf[d])
  <2>1. d \in DOMAIN out /\ d \in DOMAIN buf
    BY DEF TypeOK, SocketsTypeOK
  <2> QED  BY <2>1 DEF WriteByte, peerVars
<1>3. b \in 1 .. MaxBytes /\ o \in Nat /\ b \in Nat \ {0} /\ b - 1 \in 0 .. MaxBytes
  BY <1>1, <1>2, Counters DEF LoopAt
<1>4. o + 1 <= taken[d] /\ o + 1 \in 0 .. MaxBytes
  BY <1>1, <1>3, Counters DEF LoopAt
<1>5. out'[d] = Numbers(0, o + 1)
  BY <1>1, <1>2, <1>3, NumbersHeadTail, NumbersAppend DEF LoopAt
<1>6. buf'[d] = Numbers(o + 1, b - 1)
  BY <1>1, <1>2, <1>3, NumbersHeadTail DEF LoopAt
<1>7. Len(out[d]) = o /\ Len(buf[d]) = b
  BY <1>1, Lengths
<1>8. LoopAt(d, o + 1, b - 1)' /\ chunk'[d] \in 0 .. MaxBytes /\ counted'[d] \in 0 .. MaxBytes
  <2>1. CASE b = 1
    <3>1. pc'[d] = "read" /\ counted'[d] = counted[d] + chunk[d] /\ chunk'[d] = 0
      BY <1>7, <2>1 DEF WriteByte, TypeOK
    <3>2. taken[d] = o + 1 /\ counted[d] + chunk[d] = taken[d] /\ ~fin[d] /\ taken[d] <= written[d]
      BY <1>1, <1>2, <2>1, Counters DEF LoopAt
    <3> QED  BY <1>2, <1>3, <1>5, <1>6, <2>1, <3>1, <3>2, Counters DEF LoopAt
  <2>2. CASE b # 1
    <3>1. pc'[d] = "write" /\ counted'[d] = counted[d] /\ chunk'[d] = chunk[d]
      BY <1>2, <1>7, <2>2 DEF WriteByte
    <3>2. /\ taken[d] = (o + 1) + (b - 1) /\ b - 1 > 0 /\ b - 1 <= chunk[d]
          /\ counted[d] + chunk[d] = taken[d] /\ ~fin[d] /\ taken[d] <= written[d]
      <4>1. /\ taken[d] = o + b /\ b <= chunk[d] /\ counted[d] + chunk[d] = taken[d]
            /\ ~fin[d] /\ taken[d] <= written[d]
        BY <1>1, <1>2 DEF LoopAt
      <4> QED  BY <1>3, <2>2, <4>1, Counters
    <3> QED  BY <1>2, <1>5, <1>6, <3>1, <3>2, Counters DEF LoopAt
  <2> QED  BY <2>1, <2>2
<1> QED  BY <1>3, <1>4, <1>5, <1>7, <1>8, Counters DEF LoopInv

\* A loop that has passed on the end has passed on all.
LEMMA EofLoop ==
    ASSUME TypeOK, NEW d \in Dirs, LoopInv(d), ReadEof(d)
    PROVE  LoopInv(d)' /\ Len(out[d]) = written[d]
<1>1. PICK o \in 0 .. MaxBytes, b \in 0 .. MaxBytes : LoopAt(d, o, b)
  BY DEF LoopInv
<1>2. /\ pc[d] = "read" /\ pc'[d] = "done" /\ closed[d] /\ taken[d] = written[d] /\ fin'[d] = TRUE
      /\ UNCHANGED <<written, closed, taken, out, buf, chunk, counted>>
  BY DEF ReadEof, Becomes, AtEof, TypeOK, SocketsTypeOK, peerVars
<1>3. b = 0 /\ o = written[d]
  BY <1>1, <1>2, Counters DEF LoopAt
<1>4. LoopAt(d, o, b)'
  BY <1>1, <1>2 DEF LoopAt
<1> QED  BY <1>1, <1>3, <1>4, Lengths DEF LoopInv

\* A loop that fails keeps what it holds, and what it has counted.
LEMMA FailLoop ==
    ASSUME TypeOK, NEW d \in Dirs, LoopInv(d), CopyFails(d)
    PROVE  LoopInv(d)'
<1>1. PICK o \in 0 .. MaxBytes, b \in 0 .. MaxBytes : LoopAt(d, o, b)
  BY DEF LoopInv
<1>2. /\ pc[d] \in {"read", "write"} /\ pc'[d] = "failed"
      /\ UNCHANGED <<written, closed, taken, out, fin, buf, chunk, counted>>
  BY DEF CopyFails, Becomes, TypeOK, socketVars, peerVars, relayEnds
<1>3. LoopAt(d, o, b)'
  BY <1>1, <1>2 DEF LoopAt
<1> QED  BY <1>3 DEF LoopInv

(***************************************************************************)
(* What a step is to one direction, as ByteStream has it.                   *)
(***************************************************************************)

StreamStep(d) ==
    \/ UNCHANGED <<written[d], closed[d], out[d], fin[d]>>
    \/ /\ ~closed[d] /\ written'[d] = written[d] + 1
       /\ UNCHANGED <<closed[d], out[d], fin[d]>>
    \/ /\ ~closed[d] /\ closed'[d] = TRUE
       /\ UNCHANGED <<written[d], out[d], fin[d]>>
    \/ /\ ~fin[d] /\ Len(out[d]) + 1 \in 1 .. written[d]
       /\ out'[d] = Numbers(0, Len(out[d]) + 1)
       /\ UNCHANGED <<written[d], closed[d], fin[d]>>
    \/ /\ closed[d] /\ Len(out[d]) = written[d] /\ fin'[d] = TRUE
       /\ UNCHANGED <<written[d], closed[d], out[d]>>

\* A loop does nothing to the other direction, and what it does to its own is
\* a step of a byte stream.
LEMMA LoopStep ==
    ASSUME CopyInv, NEW e \in Dirs, RelayStep(e), NEW d \in Dirs
    PROVE  LoopInv(d)' /\ StreamStep(d)
<1>1. TypeOK /\ LoopInv(d) /\ UNCHANGED <<written, closed>>
  BY DEF CopyInv, RelayStep, Read, ReadEof, WriteByte, CopyFails, peerVars, socketVars
<1>2. CASE d # e
  <2>1. /\ taken'[d] = taken[d] /\ out'[d] = out[d] /\ buf'[d] = buf[d] /\ chunk'[d] = chunk[d]
        /\ counted'[d] = counted[d] /\ pc'[d] = pc[d] /\ fin'[d] = fin[d]
    BY <1>1, <1>2 DEF RelayStep, Read, ReadEof, WriteByte, CopyFails, Becomes, TypeOK,
                      SocketsTypeOK, socketVars, relayEnds
  <2> QED  BY <1>1, <2>1, UntouchedLoop DEF StreamStep
<1>3. CASE d = e
  <2>1. CASE Read(d)
    BY <1>1, <2>1, ReadLoop DEF StreamStep, Read
  <2>2. CASE ReadEof(d)
    <3>1. closed[d] /\ fin'[d] = TRUE /\ UNCHANGED out
      BY <1>1, <2>2 DEF ReadEof, AtEof, TypeOK, SocketsTypeOK
    <3> QED  BY <1>1, <2>2, <3>1, EofLoop DEF StreamStep
  <2>3. CASE WriteByte(d)
    <3>1. PICK o \in 0 .. MaxBytes, b \in 0 .. MaxBytes : LoopAt(d, o, b)
      BY <1>1 DEF LoopInv
    <3>2. ~fin[d] /\ UNCHANGED fin /\ taken[d] <= written[d]
      BY <2>3, <3>1 DEF WriteByte, LoopAt
    <3>3. LoopInv(d)' /\ out'[d] = Numbers(0, Len(out[d]) + 1) /\ Len(out[d]) + 1 \in 1 .. taken[d]
      BY <1>1, <2>3, WriteLoop
    <3>4. Len(out[d]) + 1 \in 1 .. written[d]
      BY <1>1, <3>2, <3>3, Counters
    <3> QED  BY <1>1, <3>2, <3>3, <3>4 DEF StreamStep
  <2>4. CASE CopyFails(d)
    BY <1>1, <2>4, FailLoop DEF StreamStep, CopyFails, socketVars, relayEnds
  <2> QED  BY <1>3, <2>1, <2>2, <2>3, <2>4 DEF RelayStep
<1> QED  BY <1>2, <1>3

\* A step of a loop keeps the types.
LEMMA LoopTypes ==
    ASSUME CopyInv, NEW d \in Dirs, RelayStep(d)
    PROVE  TypeOK'
<1>1. TypeOK /\ LoopInv(d)
  BY DEF CopyInv
<1>2. CASE Read(d)
  BY <1>1, <1>2, ReadLoop DEF Read, Becomes, TypeOK, SocketsTypeOK, peerVars, modes
<1>3. CASE ReadEof(d) \/ CopyFails(d)
  BY <1>1, <1>3
     DEF ReadEof, CopyFails, Becomes, TypeOK, SocketsTypeOK, socketVars, peerVars, relayEnds, modes
<1>4. CASE WriteByte(d)
  <2>1. Len(out'[d]) <= MaxBytes
    <3>1. Len(out[d]) + 1 \in Nat /\ Len(out[d]) + 1 <= MaxBytes
      BY <1>1, <1>4, WriteLoop, Counters
    <3> QED  BY <1>1, <1>4, <3>1, WriteLoop, NumbersSeq
  <2>2. /\ DOMAIN out' = Dirs /\ DOMAIN buf' = Dirs
        /\ \A e \in Dirs : Len(out'[e]) <= MaxBytes
    BY <1>1, <1>4, <2>1 DEF WriteByte, TypeOK, SocketsTypeOK
  <2>3. /\ chunk' \in [Dirs -> 0 .. MaxBytes] /\ counted' \in [Dirs -> 0 .. MaxBytes]
        /\ pc' \in [Dirs -> {"read", "write", "done", "failed"}]
    BY <1>1, <1>4, WriteLoop DEF WriteByte, TypeOK
  <2> QED  BY <1>1, <1>4, <2>2, <2>3 DEF WriteByte, TypeOK, SocketsTypeOK, peerVars, modes
<1> QED  BY <1>2, <1>3, <1>4 DEF RelayStep

\* So does what a peer does, which is a step of the stream it writes.
LEMMA PeerLoop ==
    ASSUME CopyInv, PeerStep, UNCHANGED <<relayEnds, modes, copyVars, relay>>, NEW d \in Dirs
    PROVE  LoopInv(d)' /\ StreamStep(d) /\ TypeOK'
<1>1. TypeOK /\ LoopInv(d)
  BY DEF CopyInv
<1>2. /\ TypeOK'
      /\ \/ written'[d] = written[d] /\ closed'[d] = closed[d]
         \/ written'[d] = written[d] + 1 /\ ~closed[d] /\ closed'[d] = closed[d]
         \/ written'[d] = written[d] /\ ~closed[d] /\ closed'[d] = TRUE
  <2>1. ASSUME NEW e \in Dirs, PeerWrite(e)
        PROVE  /\ written' \in [Dirs -> 0 .. MaxBytes] /\ closed' = closed /\ reset' = reset
               /\ \/ written'[d] = written[d]
                  \/ written'[d] = written[d] + 1 /\ ~closed[d]
    BY <1>1, <2>1, Counters DEF PeerWrite, TypeOK, SocketsTypeOK
  <2>2. ASSUME NEW e \in Dirs, PeerClose(e)
        PROVE  /\ closed' \in [Dirs -> BOOLEAN] /\ written' = written /\ reset' = reset
               /\ \/ closed'[d] = closed[d]
                  \/ closed'[d] = TRUE /\ ~closed[d]
    BY <1>1, <2>2 DEF PeerClose, TypeOK, SocketsTypeOK
  <2>3. ASSUME NEW p \in {"client", "upstream"}, PeerReset(p)
        PROVE  reset' \subseteq {"client", "upstream"} /\ UNCHANGED <<written, closed>>
    BY <1>1, <2>3 DEF PeerReset, TypeOK, SocketsTypeOK
  <2> QED
    BY <1>1, <2>1, <2>2, <2>3
       DEF PeerStep, relayEnds, modes, copyVars, TypeOK, SocketsTypeOK
<1>3. /\ UNCHANGED <<taken, out, fin, buf, chunk, counted, pc>>
  BY DEF relayEnds, copyVars
<1> QED  BY <1>1, <1>2, <1>3, UntouchedLoop DEF StreamStep

\* Starting and joining leave the loops alone.
LEMMA RelayPhase ==
    ASSUME CopyInv, NEW d \in Dirs,
           StartAsync \/ StartFails \/ Submit \/ PickUp \/ FallBack \/ JoinOk \/ JoinError
    PROVE  LoopInv(d)' /\ StreamStep(d) /\ TypeOK'
<1>1. TypeOK /\ LoopInv(d)
  BY DEF CopyInv
<1>2. UNCHANGED <<socketVars, copyVars>>
  BY DEF StartAsync, StartFails, Submit, PickUp, FallBack, JoinOk, JoinError, Phase
<1>3. TypeOK'
  BY <1>1, <1>2
     DEF StartAsync, StartFails, Submit, PickUp, FallBack, JoinOk, JoinError, Phase, TypeOK,
         SocketsTypeOK, socketVars, copyVars, peerVars, relayEnds, modes
<1> QED  BY <1>1, <1>2, <1>3, UntouchedLoop
            DEF StreamStep, socketVars, copyVars, peerVars, relayEnds

\* Every step keeps the invariant, and is a step of each stream.
LEMMA CopyStep ==
    ASSUME CopyInv, [Next]_vars
    PROVE  CopyInv' /\ \A d \in Dirs : StreamStep(d)
<1>1. CASE UNCHANGED vars
  <2>1. UNCHANGED <<socketVars, modes, copyVars, relay>>
    BY <1>1 DEF vars
  <2>2. TypeOK'
    BY <2>1 DEF CopyInv, TypeOK, SocketsTypeOK, socketVars, copyVars, peerVars, relayEnds, modes
  <2>3. ASSUME NEW d \in Dirs PROVE LoopInv(d)' /\ StreamStep(d)
    BY <2>1, UntouchedLoop
       DEF CopyInv, StreamStep, socketVars, copyVars, peerVars, relayEnds
  <2> QED  BY <2>1, <2>2, <2>3 DEF CopyInv, copyVars
<1>2. CASE PeerStep /\ UNCHANGED <<relayEnds, modes, copyVars, relay>>
  <2>1. \A d \in Dirs : LoopInv(d)' /\ StreamStep(d) /\ TypeOK'
    BY <1>2, PeerLoop
  <2> QED  BY <1>2, <2>1 DEF CopyInv, copyVars, Dirs
<1>3. ASSUME NEW e \in Dirs, RelayStep(e) PROVE CopyInv' /\ \A d \in Dirs : StreamStep(d)
  <2>1. relay' = relay /\ relay = "running"
    BY <1>3 DEF RelayStep, Read, ReadEof, WriteByte, CopyFails, Becomes
  <2> QED  BY <1>3, <2>1, LoopStep, LoopTypes DEF CopyInv
<1>4. CASE StartAsync \/ StartFails \/ Submit \/ PickUp \/ FallBack \/ JoinOk \/ JoinError
  <2>1. \A d \in Dirs : LoopInv(d)' /\ StreamStep(d) /\ TypeOK'
    BY <1>4, RelayPhase
  <2>2. relay' = "ok" => \A d \in Dirs : pc'[d] = "done"
    BY <1>4 DEF StartAsync, StartFails, Submit, PickUp, FallBack, JoinOk, JoinError, Phase, copyVars
  <2> QED  BY <2>1, <2>2 DEF CopyInv, Dirs
<1> QED  BY <1>1, <1>2, <1>3, <1>4 DEF Next

\* CopyInv is inductive.
THEOREM CopyInvariance == Spec => []CopyInv
BY CopyInit, CopyStep, PTL DEF Spec

\* Type correctness of the copying relays.
THEOREM TypeCorrect == Spec => []TypeOK
<1>1. CopyInv => TypeOK
  BY DEF CopyInv
<1> QED  BY <1>1, CopyInvariance, PTL

\* The counters follow what the destination has: never ahead of it, never
\* behind by more than the chunk at hand, and even when the relay ends well.
THEOREM CountsAreOfDelivered == Spec => []CountsFollowDelivery
<1>1. CopyInv => CountsFollowDelivery
  <2> SUFFICES ASSUME CopyInv, NEW d \in Dirs
               PROVE  /\ counted[d] <= Len(out[d]) /\ Len(out[d]) - counted[d] <= chunk[d]
                      /\ relay = "ok" => counted[d] = written[d] /\ Len(out[d]) = written[d]
    BY DEF CountsFollowDelivery
  <2>1. TypeOK /\ LoopInv(d) /\ (relay = "ok" => pc[d] = "done")
    BY DEF CopyInv
  <2>2. PICK o \in 0 .. MaxBytes, b \in 0 .. MaxBytes : LoopAt(d, o, b)
    BY <2>1 DEF LoopInv
  <2>3. Len(out[d]) = o
    BY <2>2, Lengths
  <2>4. /\ taken[d] = o + b /\ b <= chunk[d] /\ counted[d] + chunk[d] = taken[d]
        /\ pc[d] = "done" => chunk[d] = 0 /\ taken[d] = written[d]
    BY <2>2 DEF LoopAt
  <2> QED  BY <2>1, <2>3, <2>4, Counters
<1> QED  BY <1>1, CopyInvariance, PTL

\* Either direction is a byte stream: what one peer writes reaches the other in
\* order and without loss up to where the relay ends, and the end of the
\* stream is passed on after all of it.
THEOREM RelayImplementsByteStreams == Spec => ImplementsByteStreams
<1>1. Init => Up!Init /\ Down!Init
  BY DEF Init, SocketsInit, Up!Init, Down!Init, Dirs
<1>2. CopyInv /\ [Next]_vars => [Up!Next]_(Up!vars) /\ [Down!Next]_(Down!vars)
  <2> SUFFICES ASSUME CopyInv, [Next]_vars
               PROVE  [Up!Next]_(Up!vars) /\ [Down!Next]_(Down!vars)
    OBVIOUS
  <2>1. StreamStep("up") /\ StreamStep("down")
    BY CopyStep DEF Dirs
  <2>2. ASSUME NEW d \in Dirs, Len(out[d]) + 1 \in 1 .. written[d],
               out'[d] = Numbers(0, Len(out[d]) + 1)
        PROVE  \E n \in Len(out[d]) + 1 .. written[d] : out'[d] = [i \in 1 .. n |-> i]
    <3>1. written[d] \in Nat /\ Len(out[d]) + 1 \in Len(out[d]) + 1 .. written[d]
      BY <2>2, Counters, Lengths DEF CopyInv, LoopInv
    <3> QED  BY <2>2, <3>1 DEF Numbers
  <2>3. [Up!Next]_(Up!vars)
    BY <2>1, <2>2 DEF StreamStep, Dirs, Up!Next, Up!Write, Up!Close, Up!Deliver, Up!End, Up!vars
  <2>4. [Down!Next]_(Down!vars)
    BY <2>1, <2>2 DEF StreamStep, Dirs, Down!Next, Down!Write, Down!Close, Down!Deliver,
                      Down!End, Down!vars
  <2> QED  BY <2>3, <2>4
<1> QED  BY <1>1, <1>2, CopyInvariance, PTL
            DEF Spec, ImplementsByteStreams, Up!Spec, Down!Spec
=============================================================================
