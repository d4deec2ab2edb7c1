------------------------- MODULE SpliceRelay_proofs -------------------------
(***************************************************************************)
(* Proofs about SpliceRelay for any number of bytes, any retry limit, and   *)
(* both modes.                                                              *)
(***************************************************************************)
EXTENDS SpliceRelay, SequenceTheorems, TLAPS

(***************************************************************************)
(* Bytes are numbers: a run of them, and a run with a gap of p after the    *)
(* first k.                                                                 *)
(***************************************************************************)

Numbers(a, n) == [i \in 1 .. n |-> a + i]
Gap(k, p, m) == [i \in 1 .. k + m |-> IF i <= k THEN i ELSE p + i]

\* A run is a sequence of its length.
LEMMA NumbersSeq ==
    ASSUME NEW a \in Nat, NEW n \in Nat
    PROVE  Numbers(a, n) \in Seq(Nat) /\ Len(Numbers(a, n)) = n
BY DEF Numbers

\* So is a run with a gap.
LEMMA GapSeq ==
    ASSUME NEW k \in Nat, NEW p \in Nat, NEW m \in Nat
    PROVE  Gap(k, p, m) \in Seq(Nat) /\ Len(Gap(k, p, m)) = k + m
<1>1. k + m \in Nat
  OBVIOUS
<1>2. \A i \in 1 .. k + m : (IF i <= k THEN i ELSE p + i) \in Nat
  OBVIOUS
<1> QED  BY <1>1, <1>2 DEF Gap

\* The first of a run, and the others.
LEMMA NumbersHeadTail ==
    ASSUME NEW a \in Nat, NEW n \in Nat \ {0}
    PROVE  /\ Head(Numbers(a, n)) = a + 1
           /\ Tail(Numbers(a, n)) = Numbers(a + 1, n - 1)
BY DEF Numbers

\* Bytes after the gap are written one by one.
LEMMA GapAppend ==
    ASSUME NEW k \in Nat, NEW p \in Nat, NEW m \in Nat
    PROVE  Append(Gap(k, p, m), k + p + m + 1) = Gap(k, p, m + 1)
<1> DEFINE g == Gap(k, p, m)
           x == k + p + m + 1
           t == Gap(k, p, m + 1)
<1>1. g \in Seq(Nat) /\ Len(g) = k + m /\ x \in Nat
  BY GapSeq
<1>2. t \in Seq(Nat) /\ Len(t) = k + m + 1
  BY GapSeq
<1>3. \A i \in 1 .. k + m : t[i] = g[i]
  BY DEF Gap
<1>4. t[k + m + 1] = x
  BY DEF Gap
<1> HIDE DEF g, x, t
<1>5. Append(g, x) \in Seq(Nat) /\ Len(Append(g, x)) = k + m + 1
  BY <1>1
<1>6. \A i \in 1 .. k + m + 1 : Append(g, x)[i] = t[i]
  BY <1>1, <1>3, <1>4
<1>7. Append(g, x) = t
  BY <1>2, <1>5, <1>6, SeqEqual
<1> QED  BY <1>7 DEF g, x, t

\* Bytes before a gap are drained from the pipe in runs.
LEMMA GapDrain ==
    ASSUME NEW k \in Nat, NEW p \in Nat, NEW n \in 1 .. p
    PROVE  /\ Gap(k, p, 0) \o SubSeq(Numbers(k, p), 1, n) = Gap(k + n, p - n, 0)
           /\ SubSeq(Numbers(k, p), n + 1, p) = Numbers(k + n, p - n)
<1> DEFINE g == Gap(k, p, 0)
           q == SubSeq(Numbers(k, p), 1, n)
           t == Gap(k + n, p - n, 0)
<1>1. Numbers(k, p) \in Seq(Nat) /\ Len(Numbers(k, p)) = p /\ n \in Nat /\ n <= p
  BY NumbersSeq
<1>2. q \in Seq(Nat) /\ Len(q) = n /\ \A i \in 1 .. n : q[i] = k + i
  BY <1>1 DEF Numbers
<1>3. g \in Seq(Nat) /\ Len(g) = k /\ \A i \in 1 .. k : g[i] = i
  <2>1. k + 0 = k
    OBVIOUS
  <2> QED  BY <2>1, GapSeq DEF Gap
<1>4. t \in Seq(Nat) /\ Len(t) = k + n /\ \A i \in 1 .. k + n : t[i] = i
  <2>1. k + n \in Nat /\ p - n \in Nat /\ (k + n) + 0 = k + n
    BY <1>1
  <2> QED  BY <2>1, GapSeq DEF Gap
<1>5. SubSeq(Numbers(k, p), n + 1, p) = Numbers(k + n, p - n)
  BY <1>1 DEF Numbers
<1> HIDE DEF g, q, t
<1>6. /\ g \o q \in Seq(Nat) /\ Len(g \o q) = k + n
      /\ \A i \in 1 .. k + n : (g \o q)[i] = IF i <= k THEN g[i] ELSE q[i - k]
  BY <1>2, <1>3, ConcatProperties
<1>7. \A i \in 1 .. k + n : (g \o q)[i] = i
  <2> SUFFICES ASSUME NEW i \in 1 .. k + n PROVE (g \o q)[i] = i
    OBVIOUS
  <2>1. CASE i <= k
    BY <1>3, <1>6, <2>1
  <2>2. CASE ~(i <= k)
    <3>1. i - k \in 1 .. n /\ k + (i - k) = i /\ ~(i <= k)
      BY <1>1, <2>2
    <3>2. (g \o q)[i] = q[i - k]
      BY <1>6, <3>1
    <3>3. q[i - k] = k + (i - k)
      BY <1>2, <3>1
    <3> QED  BY <3>1, <3>2, <3>3
  <2> QED  BY <1>1, <2>1, <2>2
<1>8. g \o q = t
  BY <1>4, <1>6, <1>7, SeqEqual
<1> QED  BY <1>5, <1>8 DEF g, q, t

(***************************************************************************)
(* One direction: the destination has the first k bytes, spliced, and m     *)
(* more, copied; the p between them are in the pipe, for good once the      *)
(* copy has begun; the copy's buffer holds b.  What was spliced is counted, *)
(* and what was copied when the direction ends well, but the download of    *)
(* relay_with_copy only when both do.                                       *)
(***************************************************************************)

Late(d) == mode = "copy" /\ d = "down" /\ relay # "ok"

PathAt(d, k, p, m, b) ==
    /\ out[d] = Gap(k, p, m) /\ pipe[d] = Numbers(k, p) /\ buf[d] = Numbers(k + p + m, b)
    /\ taken[d] = k + p + m + b /\ taken[d] <= written[d]
    /\ copied[d] = m
    /\ pc[d] \in {"fill", "drain"} => m = 0 /\ b = 0
    /\ pc[d] = "fill" => p = 0
    /\ pc[d] = "drain" => p > 0
    /\ counted[d] = IF pc[d] = "done" /\ ~Late(d) THEN k + m ELSE k
    /\ mode = "copy" => k = 0 /\ pc[d] \in {"copy", "done", "failed"}

PathInv(d) == \E k, p, m, b \in 0 .. MaxBytes : PathAt(d, k, p, m, b)

SpliceInv ==
    /\ TypeOK
    /\ \A d \in Dirs : PathInv(d)
    /\ relay = "ok" => \A d \in Dirs : pc[d] = "done"

\* At first nothing is written.
LEMMA SpliceInit == Init => SpliceInv
<1> SUFFICES ASSUME Init PROVE SpliceInv
  OBVIOUS
<1>1. Numbers(0, 0) = <<>> /\ Gap(0, 0, 0) = <<>>
  BY DEF Numbers, Gap
<1>2. TypeOK
  BY SocketsAssumption, SpliceAssumption DEF Init, SocketsInit, TypeOK, SocketsTypeOK, Steps
<1>3. ASSUME NEW d \in Dirs PROVE PathAt(d, 0, 0, 0, 0)
  BY <1>1 DEF Init, SocketsInit, PathAt
<1> QED  BY <1>2, <1>3, SocketsAssumption DEF SpliceInv, PathInv, Init

\* The numbers that a direction is about.
LEMMA Counters ==
    ASSUME TypeOK, NEW d \in Dirs
    PROVE  /\ taken[d] \in 0 .. MaxBytes /\ written[d] \in 0 .. MaxBytes
           /\ copied[d] \in 0 .. MaxBytes /\ counted[d] \in 0 .. MaxBytes
           /\ retries[d] \in 0 .. RetryLimit - 1
           /\ MaxBytes \in Nat /\ RetryLimit \in Nat \ {0}
BY SocketsAssumption, SpliceAssumption DEF TypeOK, SocketsTypeOK

\* The lengths of its parts.
LEMMA Lengths ==
    ASSUME NEW d \in Dirs, NEW k \in 0 .. MaxBytes, NEW p \in 0 .. MaxBytes,
           NEW m \in 0 .. MaxBytes, NEW b \in 0 .. MaxBytes, PathAt(d, k, p, m, b)
    PROVE  /\ Len(out[d]) = k + m /\ Len(pipe[d]) = p /\ Len(buf[d]) = b
           /\ out[d] \in Seq(Nat) /\ pipe[d] \in Seq(Nat) /\ buf[d] \in Seq(Nat)
           /\ buf[d] = <<>> <=> b = 0
<1>1. k \in Nat /\ p \in Nat /\ m \in Nat /\ b \in Nat /\ k + p + m \in Nat
  BY SocketsAssumption
<1>2. Len(buf[d]) = b /\ buf[d] \in Seq(Nat)
  BY <1>1, NumbersSeq DEF PathAt
<1>3. Len(pipe[d]) = p /\ pipe[d] \in Seq(Nat)
  BY <1>1, NumbersSeq DEF PathAt
<1>4. Len(out[d]) = k + m /\ out[d] \in Seq(Nat)
  BY <1>1, GapSeq DEF PathAt
<1>5. buf[d] = <<>> <=> b = 0
  BY <1>2, EmptySeq
<1> QED  BY <1>2, <1>3, <1>4, <1>5

\* A direction that a step leaves alone, but for more written by its source,
\* the socket set to block, or the relay ending with an error.
LEMMA UntouchedPath ==
    ASSUME TypeOK, NEW d \in Dirs, PathInv(d),
           taken'[d] = taken[d], out'[d] = out[d], pipe'[d] = pipe[d], buf'[d] = buf[d],
           copied'[d] = copied[d], counted'[d] = counted[d], pc'[d] = pc[d], mode' = mode,
           relay' = "ok" <=> relay = "ok", written'[d] = written[d] \/ written'[d] = written[d] + 1
    PROVE  PathInv(d)'
<1>1. PICK k \in 0 .. MaxBytes, p \in 0 .. MaxBytes, m \in 0 .. MaxBytes, b \in 0 .. MaxBytes :
         PathAt(d, k, p, m, b)
  BY DEF PathInv
<1>2. PathAt(d, k, p, m, b)'
  BY <1>1, Counters DEF PathAt, Late
<1> QED  BY <1>2 DEF PathInv

\* What fills the pipe comes after what has been drained.
LEMMA FillPath ==
    ASSUME TypeOK, NEW d \in Dirs, PathInv(d), Fill(d)
    PROVE  PathInv(d)' /\ taken'[d] \in 0 .. MaxBytes
<1>1. PICK k \in 0 .. MaxBytes, p \in 0 .. MaxBytes, m \in 0 .. MaxBytes, b \in 0 .. MaxBytes :
         PathAt(d, k, p, m, b)
  BY DEF PathInv
<1>2. PICK n \in ReadSizes(d) : /\ pipe' = [pipe EXCEPT ![d] = Chunk(d, n)]
                                /\ taken' = [taken EXCEPT ![d] = @ + n]
  BY DEF Fill
<1>3. /\ pc[d] = "fill" /\ pc'[d] = "drain"
      /\ UNCHANGED <<out, written, mode, buf, copied, counted, relay>>
  BY DEF Fill, Becomes, TypeOK, peerVars, modes, copyVars
<1>4. n \in 1 .. MaxBytes /\ taken[d] + n <= written[d] /\ taken[d] + n \in 0 .. MaxBytes
  BY Counters DEF ReadSizes
<1>5. m = 0 /\ b = 0 /\ p = 0 /\ taken[d] = k /\ counted[d] = k
  BY <1>1, <1>3, Counters DEF PathAt
<1>6. Chunk(d, n) = Numbers(k, n)
  BY <1>5 DEF Chunk, Numbers
<1>7. pipe'[d] = Numbers(k, n) /\ taken'[d] = k + n
  BY <1>2, <1>5, <1>6 DEF TypeOK, SocketsTypeOK
<1>8. out'[d] = Gap(k, n, 0) /\ buf'[d] = Numbers(k + n + 0, 0)
  <2>1. Gap(k, n, 0) = Gap(k, 0, 0)
    BY DEF Gap
  <2>2. Numbers(k + n + 0, 0) = Numbers(k + 0 + 0, 0)
    BY DEF Numbers
  <2> QED  BY <1>1, <1>3, <1>5, <2>1, <2>2 DEF PathAt
<1>9. /\ taken'[d] = k + n + 0 + 0 /\ taken'[d] <= written'[d] /\ n > 0
      /\ copied'[d] = 0 /\ counted'[d] = k /\ mode' # "copy"
  <2>1. mode # "copy" /\ copied[d] = 0
    BY <1>1, <1>3, <1>5 DEF PathAt
  <2> QED  BY <1>3, <1>4, <1>5, <1>7, <2>1, Counters
<1>10. PathAt(d, k, n, 0, 0)'
  BY <1>3, <1>7, <1>8, <1>9 DEF PathAt
<1> QED  BY <1>4, <1>5, <1>7, <1>10, Counters DEF PathInv

\* What is drained is the next run that the destination needs.
LEMMA DrainPath ==
    ASSUME TypeOK, NEW d \in Dirs, PathInv(d), Drain(d)
    PROVE  /\ PathInv(d)' /\ counted'[d] \in 0 .. MaxBytes /\ Len(out'[d]) <= MaxBytes
           /\ pc'[d] \in {"fill", "drain"}
<1>1. PICK k \in 0 .. MaxBytes, p \in 0 .. MaxBytes, m \in 0 .. MaxBytes, b \in 0 .. MaxBytes :
         PathAt(d, k, p, m, b)
  BY DEF PathInv
<1>2. PICK n \in 1 .. Len(pipe[d]) :
         /\ out' = [out EXCEPT ![d] = @ \o SubSeq(pipe[d], 1, n)]
         /\ pipe' = [pipe EXCEPT ![d] = SubSeq(@, n + 1, Len(@))]
         /\ counted' = [counted EXCEPT ![d] = @ + n]
         /\ pc' = [pc EXCEPT ![d] = IF n = Len(pipe[d]) THEN "fill" ELSE "drain"]
  BY DEF Drain
<1>3. /\ pc[d] = "drain" /\ UNCHANGED <<taken, written, mode, buf, copied, relay>>
  BY DEF Drain, peerVars, modes, copyVars
<1>4. m = 0 /\ b = 0 /\ p > 0 /\ taken[d] = k + p /\ counted[d] = k /\ taken[d] <= written[d]
  BY <1>1, <1>3, Counters DEF PathAt
<1>5. /\ Len(pipe[d]) = p /\ pipe[d] = Numbers(k, p) /\ out[d] = Gap(k, p, 0)
  BY <1>1, <1>4, Lengths DEF PathAt
<1>6. k \in Nat /\ p \in Nat /\ n \in 1 .. p /\ k + n \in 0 .. MaxBytes /\ p - n \in 0 .. MaxBytes
  BY <1>4, <1>5, Counters
<1>7. out'[d] = Gap(k + n, p - n, 0) /\ pipe'[d] = Numbers(k + n, p - n)
  <2>1. d \in DOMAIN out /\ d \in DOMAIN pipe
    BY DEF TypeOK, SocketsTypeOK
  <2>2. out'[d] = out[d] \o SubSeq(pipe[d], 1, n) /\ pipe'[d] = SubSeq(pipe[d], n + 1, p)
    BY <1>2, <1>5, <2>1
  <2> QED  BY <1>5, <1>6, <2>2, GapDrain
<1>8. /\ counted'[d] = k + n
      /\ pc'[d] = IF n = p THEN "fill" ELSE "drain"
  BY <1>2, <1>4, <1>5 DEF TypeOK
<1>9. buf'[d] = Numbers((k + n) + (p - n) + 0, 0)
  <2>1. Numbers((k + n) + (p - n) + 0, 0) = Numbers(k + p + 0, 0)
    BY DEF Numbers
  <2> QED  BY <1>1, <1>3, <1>4, <2>1 DEF PathAt
<1>10. /\ taken'[d] = (k + n) + (p - n) + 0 + 0 /\ taken'[d] <= written'[d]
       /\ copied'[d] = 0 /\ mode' # "copy"
       /\ pc'[d] = "fill" => p - n = 0
       /\ pc'[d] = "drain" => p - n > 0
  <2>1. mode # "copy" /\ copied[d] = 0
    BY <1>1, <1>3, <1>4 DEF PathAt
  <2>2. /\ k + p = (k + n) + (p - n) + 0 + 0
        /\ n = p => p - n = 0
        /\ n # p => p - n > 0
    BY <1>6
  <2> QED  BY <1>3, <1>4, <1>8, <2>1, <2>2
<1>11. PathAt(d, k + n, p - n, 0, 0)'
  BY <1>7, <1>8, <1>9, <1>10 DEF PathAt
<1>12. Len(out'[d]) <= MaxBytes
  <2>1. k + n \in Nat /\ p - n \in Nat /\ (k + n) + 0 <= MaxBytes
    BY <1>6, Counters
  <2> QED  BY <1>7, <2>1, GapSeq
<1> QED  BY <1>6, <1>8, <1>11, <1>12, Counters DEF PathInv

\* Giving up on splicing, the end of the source and an error all leave what
\* there is where it is.
LEMMA StopPath ==
    ASSUME TypeOK, NEW d \in Dirs, PathInv(d),
           FillAgain(d) \/ FillEof(d) \/ DrainAgain(d) \/ SpliceFails(d) \/ CopyFails(d)
    PROVE  PathInv(d)'
<1>1. PICK k \in 0 .. MaxBytes, p \in 0 .. MaxBytes, m \in 0 .. MaxBytes, b \in 0 .. MaxBytes :
         PathAt(d, k, p, m, b)
  BY DEF PathInv
<1>2. /\ UNCHANGED <<written, taken, out, mode, pipe, buf, copied, counted, relay>>
      /\ \/ pc[d] \in {"fill", "drain"} /\ pc'[d] \in {pc[d], "copy", "failed"}
         \/ pc[d] = "fill" /\ pc'[d] = "done"
         \/ pc[d] = "copy" /\ pc'[d] = "failed"
  BY DEF FillAgain, FillEof, DrainAgain, SpliceFails, CopyFails, Again, Becomes, TypeOK,
         socketVars, peerVars, relayEnds, modes, spliceVars, copyVars
<1>3. PathAt(d, k, p, m, b)'
  BY <1>1, <1>2, Counters DEF PathAt, Late
<1> QED  BY <1>3 DEF PathInv

\* The copy reads on where the splices stopped reading.
LEMMA CopyReadPath ==
    ASSUME TypeOK, NEW d \in Dirs, PathInv(d), CopyRead(d)
    PROVE  PathInv(d)' /\ taken'[d] \in 0 .. MaxBytes
<1>1. PICK k \in 0 .. MaxBytes, p \in 0 .. MaxBytes, m \in 0 .. MaxBytes, b \in 0 .. MaxBytes :
         PathAt(d, k, p, m, b)
  BY DEF PathInv
<1>2. PICK n \in ReadSizes(d) : /\ buf' = [buf EXCEPT ![d] = Chunk(d, n)]
                                /\ taken' = [taken EXCEPT ![d] = @ + n]
  BY DEF CopyRead
<1>3. /\ pc[d] = "copy" /\ UNCHANGED <<pc, out, written, mode, pipe, copied, counted, relay>>
  BY DEF CopyRead, peerVars, modes, spliceVars
<1>4. n \in 1 .. MaxBytes /\ taken[d] + n <= written[d] /\ taken[d] + n \in 0 .. MaxBytes
  BY Counters DEF ReadSizes
<1>5. b = 0 /\ taken[d] = k + p + m
  <2>1. b = 0
    BY <1>1, Lengths DEF CopyRead
  <2> QED  BY <1>1, <2>1, Counters DEF PathAt
<1>6. Chunk(d, n) = Numbers(k + p + m, n)
  BY <1>5 DEF Chunk, Numbers
<1>7. buf'[d] = Numbers(k + p + m, n) /\ taken'[d] = k + p + m + n /\ taken'[d] <= written'[d]
  BY <1>2, <1>3, <1>4, <1>5, <1>6 DEF TypeOK, SocketsTypeOK
<1>8. PathAt(d, k, p, m, n)'
  BY <1>1, <1>3, <1>7 DEF PathAt, Late
<1> QED  BY <1>4, <1>5, <1>7, <1>8, Counters DEF PathInv

\* It writes on where they stopped reading, and not writing.
LEMMA CopyWritePath ==
    ASSUME TypeOK, NEW d \in Dirs, PathInv(d), CopyWrite(d)
    PROVE  PathInv(d)' /\ copied'[d] \in 0 .. MaxBytes /\ Len(out'[d]) <= MaxBytes
<1>1. PICK k \in 0 .. MaxBytes, p \in 0 .. MaxBytes, m \in 0 .. MaxBytes, b \in 0 .. MaxBytes :
         PathAt(d, k, p, m, b)
  BY DEF PathInv
<1>2. /\ pc[d] = "copy" /\ UNCHANGED <<pc, taken, written, mode, pipe, counted, relay>>
      /\ out'[d] = Append(out[d], Head(buf[d])) /\ buf'[d] = Tail(buf[d])
      /\ copied'[d] = copied[d] + 1
  <2>1. d \in DOMAIN out /\ d \in DOMAIN buf
    BY DEF TypeOK, SocketsTypeOK
  <2> QED  BY <2>1 DEF CopyWrite, TypeOK, peerVars, modes, spliceVars
<1>3. b \in Nat \ {0}
  BY <1>1, Lengths, Counters DEF CopyWrite
<1>4. /\ taken[d] = k + p + m + b /\ k \in Nat /\ p \in Nat /\ m \in Nat /\ copied[d] = m
  BY <1>1, Counters DEF PathAt
<1>5. /\ m + 1 \in 0 .. MaxBytes /\ b - 1 \in 0 .. MaxBytes /\ k + (m + 1) <= MaxBytes
      /\ k + p + m + b = k + p + (m + 1) + (b - 1) /\ k + p + m + 1 = k + p + (m + 1)
      /\ k + p + m \in Nat
  BY <1>3, <1>4, Counters
<1>6. out'[d] = Gap(k, p, m + 1)
  <2>1. buf[d] = Numbers(k + p + m, b) /\ out[d] = Gap(k, p, m)
    BY <1>1 DEF PathAt
  <2>2. Head(Numbers(k + p + m, b)) = k + p + m + 1
    BY <1>3, <1>5, NumbersHeadTail
  <2>3. Append(Gap(k, p, m), k + p + m + 1) = Gap(k, p, m + 1)
    BY <1>4, GapAppend
  <2> QED  BY <1>2, <2>1, <2>2, <2>3
<1>7. buf'[d] = Numbers(k + p + (m + 1), b - 1)
  <2>1. buf[d] = Numbers(k + p + m, b)
    BY <1>1 DEF PathAt
  <2>2. Tail(Numbers(k + p + m, b)) = Numbers(k + p + m + 1, b - 1)
    BY <1>3, <1>5, NumbersHeadTail
  <2>3. Numbers(k + p + m + 1, b - 1) = Numbers(k + p + (m + 1), b - 1)
    BY <1>5
  <2> QED  BY <1>2, <2>1, <2>2, <2>3
<1>8. PathAt(d, k, p, m + 1, b - 1)'
  BY <1>1, <1>2, <1>4, <1>5, <1>6, <1>7 DEF PathAt, Late
<1>9. Len(out'[d]) = k + (m + 1)
  <2>1. m + 1 \in Nat
    BY <1>4
  <2>2. Len(Gap(k, p, m + 1)) = k + (m + 1)
    BY <1>4, <2>1, GapSeq
  <2> QED  BY <1>6, <2>2
<1>10. PathInv(d)'
  BY <1>5, <1>8 DEF PathInv
<1>11. copied'[d] = m + 1
  BY <1>2, <1>4
<1> QED  BY <1>5, <1>9, <1>10, <1>11

\* The copy that ends well is counted, but the download of relay_with_copy.
LEMMA CopyEofPath ==
    ASSUME TypeOK, NEW d \in Dirs, PathInv(d), CopyEof(d), relay # "ok"
    PROVE  PathInv(d)' /\ counted'[d] \in 0 .. MaxBytes
<1>1. PICK k \in 0 .. MaxBytes, p \in 0 .. MaxBytes, m \in 0 .. MaxBytes, b \in 0 .. MaxBytes :
         PathAt(d, k, p, m, b)
  BY DEF PathInv
<1>2. /\ pc[d] = "copy" /\ pc'[d] = "done"
      /\ UNCHANGED <<taken, out, written, mode, pipe, buf, copied, relay>>
      /\ counted'[d] = IF mode = "copy" /\ d = "down" THEN counted[d]
                       ELSE counted[d] + copied[d]
  BY DEF CopyEof, Becomes, TypeOK, peerVars, modes, spliceVars, copyVars
<1>3. b = 0 /\ counted[d] = k /\ copied[d] = m
  BY <1>1, <1>2, Lengths DEF PathAt, CopyEof
<1>4. counted'[d] = IF Late(d) THEN k ELSE k + m
  BY <1>2, <1>3 DEF Late
<1>5. k + m \in 0 .. MaxBytes
  BY <1>1, Counters DEF PathAt
<1>6. PathAt(d, k, p, m, b)'
  BY <1>1, <1>2, <1>4 DEF PathAt, Late
<1> QED  BY <1>4, <1>5, <1>6 DEF PathInv

(***************************************************************************)
(* The invariant holds of every behaviour.                                  *)
(***************************************************************************)

\* A step of one direction leaves the other alone, and the relay is not over.
LEMMA DirectionStep ==
    ASSUME SpliceInv, NEW d \in Dirs, pc[d] # "done", TypeOK', PathInv(d)', relay' = relay,
           mode' = mode, written' = written,
           \A e \in Dirs \ {d} :
              /\ taken'[e] = taken[e] /\ out'[e] = out[e] /\ pipe'[e] = pipe[e]
              /\ buf'[e] = buf[e] /\ copied'[e] = copied[e] /\ counted'[e] = counted[e]
              /\ pc'[e] = pc[e]
    PROVE  SpliceInv'
<1>1. relay # "ok"
  BY DEF SpliceInv
<1>2. ASSUME NEW e \in Dirs PROVE PathInv(e)'
  <2>1. CASE e = d
    BY <2>1
  <2>2. CASE e # d
    BY <2>2, UntouchedPath DEF SpliceInv
  <2> QED  BY <2>1, <2>2
<1> QED  BY <1>1, <1>2 DEF SpliceInv

\* Before the last try of a splice there is one more.
LEMMA AgainTypes ==
    ASSUME TypeOK, NEW d \in Dirs, Again(d)
    PROVE  /\ retries' \in [Dirs -> 0 .. RetryLimit - 1] /\ blocking' \in BOOLEAN
           /\ pc' \in [Dirs -> Steps]
           /\ \A e \in Dirs \ {d} : pc'[e] = pc[e]
<1>1. CASE retries[d] + 1 < RetryLimit
  BY <1>1, Counters DEF Again, TypeOK
<1>2. CASE ~(retries[d] + 1 < RetryLimit)
  BY <1>2, SpliceAssumption DEF Again, TypeOK, Steps
<1> QED  BY <1>1, <1>2

\* Every step of a splicing direction preserves the invariant.
LEMMA SpliceSteps ==
    ASSUME SpliceInv, NEW d \in Dirs, SpliceStep(d) \/ DrainAgain(d)
    PROVE  SpliceInv'
<1> USE DEF peerVars, relayEnds, socketVars, modes, spliceVars, copyVars
<1>1. TypeOK /\ PathInv(d)
  BY DEF SpliceInv
<1>2. CASE Fill(d)
  <2>1. PathInv(d)' /\ taken'[d] \in 0 .. MaxBytes
    BY <1>1, <1>2, FillPath
  <2>2. PICK n \in ReadSizes(d) : /\ pipe' = [pipe EXCEPT ![d] = Chunk(d, n)]
                                  /\ taken' = [taken EXCEPT ![d] = @ + n]
    BY <1>2 DEF Fill
  <2>3. TypeOK'
    BY <1>1, <1>2, <2>1, <2>2, SpliceAssumption DEF Fill, Becomes, TypeOK, SocketsTypeOK, Steps
  <2> QED  BY <1>1, <1>2, <2>1, <2>2, <2>3, DirectionStep DEF Fill, Becomes, TypeOK, SocketsTypeOK
<1>3. CASE Drain(d)
  <2>1. /\ PathInv(d)' /\ counted'[d] \in 0 .. MaxBytes /\ Len(out'[d]) <= MaxBytes
        /\ pc'[d] \in {"fill", "drain"}
    BY <1>1, <1>3, DrainPath
  <2>2. PICK n \in 1 .. Len(pipe[d]) :
           /\ out' = [out EXCEPT ![d] = @ \o SubSeq(pipe[d], 1, n)]
           /\ pipe' = [pipe EXCEPT ![d] = SubSeq(@, n + 1, Len(@))]
           /\ counted' = [counted EXCEPT ![d] = @ + n]
           /\ pc' = [pc EXCEPT ![d] = IF n = Len(pipe[d]) THEN "fill" ELSE "drain"]
    BY <1>3 DEF Drain
  <2>3. SocketsTypeOK'
    BY <1>1, <1>3, <2>1, <2>2 DEF Drain, TypeOK, SocketsTypeOK
  <2>4. TypeOK'
    BY <1>1, <1>3, <2>1, <2>2, <2>3, SpliceAssumption DEF Drain, TypeOK, Steps
  <2> QED  BY <1>1, <1>3, <2>1, <2>2, <2>4, DirectionStep DEF Drain, TypeOK, SocketsTypeOK
<1>4. CASE FillAgain(d) \/ DrainAgain(d)
  <2>1. PathInv(d)'
    BY <1>1, <1>4, StopPath
  <2>2. TypeOK' /\ \A e \in Dirs \ {d} : pc'[e] = pc[e]
    BY <1>1, <1>4, AgainTypes DEF FillAgain, DrainAgain, TypeOK, SocketsTypeOK
  <2> QED  BY <1>1, <1>4, <2>1, <2>2, DirectionStep DEF FillAgain, DrainAgain
<1>5. CASE FillEof(d) \/ SpliceFails(d)
  <2>1. PathInv(d)'
    BY <1>1, <1>5, StopPath
  <2>2. TypeOK'
    BY <1>1, <1>5 DEF FillEof, SpliceFails, EndDirection, Becomes, TypeOK, SocketsTypeOK, Steps
  <2>3. pc[d] # "done" /\ \A e \in Dirs \ {d} : pc'[e] = pc[e]
    BY <1>1, <1>5 DEF FillEof, SpliceFails, Becomes, TypeOK
  <2> QED  BY <1>1, <1>5, <2>1, <2>2, <2>3, DirectionStep DEF FillEof, SpliceFails
<1> QED  BY <1>2, <1>3, <1>4, <1>5 DEF SpliceStep

\* Every step of a copying direction preserves the invariant.
LEMMA CopySteps ==
    ASSUME SpliceInv, NEW d \in Dirs, CopyStep(d)
    PROVE  SpliceInv'
<1> USE DEF peerVars, relayEnds, socketVars, modes, spliceVars, copyVars
<1>1. TypeOK /\ PathInv(d)
  BY DEF SpliceInv
<1>2. CASE CopyRead(d)
  <2>1. PathInv(d)' /\ taken'[d] \in 0 .. MaxBytes
    BY <1>1, <1>2, CopyReadPath
  <2>2. PICK n \in ReadSizes(d) : /\ buf' = [buf EXCEPT ![d] = Chunk(d, n)]
                                  /\ taken' = [taken EXCEPT ![d] = @ + n]
    BY <1>2 DEF CopyRead
  <2>3. TypeOK'
    BY <1>1, <1>2, <2>1, <2>2 DEF CopyRead, TypeOK, SocketsTypeOK
  <2> QED  BY <1>1, <1>2, <2>1, <2>2, <2>3, DirectionStep DEF CopyRead, TypeOK, SocketsTypeOK
<1>3. CASE CopyWrite(d)
  <2>1. PathInv(d)' /\ copied'[d] \in 0 .. MaxBytes /\ Len(out'[d]) <= MaxBytes
    BY <1>1, <1>3, CopyWritePath
  <2>2. TypeOK'
    BY <1>1, <1>3, <2>1 DEF CopyWrite, TypeOK, SocketsTypeOK
  <2> QED  BY <1>1, <1>3, <2>1, <2>2, DirectionStep DEF CopyWrite, TypeOK, SocketsTypeOK
<1>4. CASE CopyEof(d)
  <2>1. relay # "ok"
    BY <1>4 DEF SpliceInv, CopyEof, Becomes
  <2>2. PathInv(d)' /\ counted'[d] \in 0 .. MaxBytes
    BY <1>1, <1>4, <2>1, CopyEofPath
  <2>3. TypeOK' /\ \A e \in Dirs \ {d} : pc'[e] = pc[e] /\ counted'[e] = counted[e]
    BY <1>1, <1>4, <2>2 DEF CopyEof, EndDirection, Becomes, TypeOK, SocketsTypeOK, Steps
  <2> QED  BY <1>1, <1>4, <2>2, <2>3, DirectionStep DEF CopyEof, Becomes
<1>5. CASE CopyFails(d)
  <2>1. PathInv(d)'
    BY <1>1, <1>5, StopPath
  <2>2. TypeOK' /\ \A e \in Dirs \ {d} : pc'[e] = pc[e]
    BY <1>1, <1>5 DEF CopyFails, Becomes, TypeOK, SocketsTypeOK, Steps
  <2> QED  BY <1>1, <1>5, <2>1, <2>2, DirectionStep DEF CopyFails, Becomes
<1> QED  BY <1>2, <1>3, <1>4, <1>5 DEF CopyStep

\* So does every step of the peers.
LEMMA PeerSteps ==
    ASSUME SpliceInv, PeerStep,
           UNCHANGED <<relayEnds, modes, pc, spliceVars, copyVars, counted, relay>>
    PROVE  SpliceInv'
<1> USE DEF relayEnds, modes, spliceVars, copyVars
<1>1. TypeOK
  BY DEF SpliceInv
<1>2. /\ written' \in [Dirs -> 0 .. MaxBytes] /\ closed' \in [Dirs -> BOOLEAN]
      /\ reset' \subseteq {"client", "upstream"}
      /\ \A d \in Dirs : written'[d] = written[d] \/ written'[d] = written[d] + 1
  <2>1. CASE \E d \in Dirs : PeerWrite(d)
    BY <1>1, <2>1, SocketsAssumption DEF PeerWrite, TypeOK, SocketsTypeOK
  <2>2. CASE \E d \in Dirs : PeerClose(d)
    BY <1>1, <2>2 DEF PeerClose, TypeOK, SocketsTypeOK
  <2>3. CASE \E s \in {"client", "upstream"} : PeerReset(s)
    BY <1>1, <2>3 DEF PeerReset, TypeOK, SocketsTypeOK
  <2> QED  BY <2>1, <2>2, <2>3 DEF PeerStep
<1>3. TypeOK'
  BY <1>1, <1>2 DEF TypeOK, SocketsTypeOK
<1>4. ASSUME NEW d \in Dirs PROVE PathInv(d)'
  BY <1>1, <1>2, UntouchedPath DEF SpliceInv
<1> QED  BY <1>3, <1>4 DEF SpliceInv

\* And the relay's start that fails and its two ends.
LEMMA RelaySteps ==
    ASSUME SpliceInv, StartFails \/ JoinOk \/ JoinError
    PROVE  SpliceInv'
<1> USE DEF peerVars, relayEnds, socketVars, modes, spliceVars, copyVars
<1>1. TypeOK
  BY DEF SpliceInv
<1>2. CASE StartFails
  <2>1. TypeOK'
    BY <1>1, <1>2 DEF StartFails, TypeOK, SocketsTypeOK, Steps
  <2>2. ASSUME NEW d \in Dirs PROVE PathInv(d)'
    <3>1. PICK k \in 0 .. MaxBytes, p \in 0 .. MaxBytes, m \in 0 .. MaxBytes,
               b \in 0 .. MaxBytes : PathAt(d, k, p, m, b)
      BY DEF SpliceInv, PathInv
    <3>2. PathAt(d, k, p, m, b)'
      BY <1>2, <3>1 DEF PathAt, Late, StartFails
    <3> QED  BY <3>2 DEF PathInv
  <2> QED  BY <1>2, <2>1, <2>2 DEF SpliceInv, StartFails
<1>3. CASE JoinOk
  <2>1. \A d \in Dirs : pc[d] = "done" /\ relay' = "ok" /\ relay = "running"
    BY <1>3 DEF JoinOk
  <2>2. TypeOK'
    BY <1>1, <1>3 DEF JoinOk, TypeOK, SocketsTypeOK, Dirs
  <2>3. ASSUME NEW d \in Dirs PROVE PathInv(d)'
    <3>1. PICK k \in 0 .. MaxBytes, p \in 0 .. MaxBytes, m \in 0 .. MaxBytes,
               b \in 0 .. MaxBytes : PathAt(d, k, p, m, b)
      BY DEF SpliceInv, PathInv
    <3>2. counted'[d] = k + m
      <4>1. CASE Late(d)
        BY <1>1, <1>3, <3>1, <4>1, Counters DEF PathAt, Late, JoinOk, TypeOK
      <4>2. CASE ~Late(d)
        BY <1>1, <1>3, <2>1, <3>1, <4>2 DEF PathAt, Late, JoinOk, TypeOK
      <4> QED  BY <4>1, <4>2
    <3>3. PathAt(d, k, p, m, b)'
      BY <1>3, <2>1, <3>1, <3>2 DEF PathAt, Late, JoinOk
    <3> QED  BY <3>3 DEF PathInv
  <2> QED  BY <1>3, <2>1, <2>2, <2>3 DEF SpliceInv, JoinOk
<1>4. CASE JoinError
  <2>1. TypeOK'
    BY <1>1, <1>4 DEF JoinError, TypeOK, SocketsTypeOK
  <2>2. ASSUME NEW d \in Dirs PROVE PathInv(d)'
    BY <1>1, <1>4, UntouchedPath DEF SpliceInv, JoinError
  <2> QED  BY <1>4, <2>1, <2>2 DEF SpliceInv, JoinError
<1> QED  BY <1>2, <1>3, <1>4

\* The invariant holds in every state of every behaviour, whatever the number
\* of bytes and of retries.
THEOREM SpliceInvariance == Spec => []SpliceInv
<1>1. SpliceInv /\ [Next]_vars => SpliceInv'
  <2> SUFFICES ASSUME SpliceInv, [Next]_vars PROVE SpliceInv'
    OBVIOUS
  <2>1. CASE PeerStep /\ UNCHANGED <<relayEnds, modes, pc, spliceVars, copyVars, counted, relay>>
    BY <2>1, PeerSteps
  <2>2. CASE \E d \in Dirs : SpliceStep(d) \/ DrainAgain(d) \/ CopyStep(d)
    BY <2>2, SpliceSteps, CopySteps
  <2>3. CASE StartFails \/ JoinOk \/ JoinError
    BY <2>3, RelaySteps
  <2>4. CASE UNCHANGED vars
    <3>1. /\ UNCHANGED <<written, closed, reset, taken, out, fin, mode, blocking>>
          /\ UNCHANGED <<pc, pipe, retries, buf, copied, counted, relay>>
      BY <2>4 DEF vars, socketVars, peerVars, relayEnds, modes, spliceVars, copyVars
    <3>2. TypeOK'
      BY <3>1 DEF SpliceInv, TypeOK, SocketsTypeOK
    <3>3. \A d \in Dirs : PathInv(d)'
      BY <3>1, UntouchedPath DEF SpliceInv
    <3> QED  BY <3>1, <3>2, <3>3 DEF SpliceInv
  <2> QED  BY <2>1, <2>2, <2>3, <2>4 DEF Next
<1> QED  BY <1>1, SpliceInit, PTL DEF Spec

\* The retries stay below the limit, and every counter within what the source
\* can send.
THEOREM TypeCorrect == Spec => []TypeOK
<1>1. SpliceInv => TypeOK
  BY DEF SpliceInv
<1> QED  BY <1>1, SpliceInvariance, PTL

(***************************************************************************)
(* Where every byte is, and whether it is counted.                          *)
(***************************************************************************)

\* A run holds the numbers after its start.
LEMMA NumbersRange ==
    ASSUME NEW a \in Nat, NEW n \in Nat
    PROVE  Range(Numbers(a, n)) = a + 1 .. a + n
<1>1. Range(Numbers(a, n)) = {a + i : i \in 1 .. n}
  BY DEF Range, Numbers
<1>2. ASSUME NEW x \in a + 1 .. a + n PROVE x \in {a + i : i \in 1 .. n}
  <2>1. x - a \in 1 .. n /\ a + (x - a) = x
    OBVIOUS
  <2> QED  BY <2>1
<1>3. \A i \in 1 .. n : a + i \in a + 1 .. a + n
  OBVIOUS
<1> QED  BY <1>1, <1>2, <1>3

\* A run with a gap holds the first numbers and those after the gap, in order.
LEMMA GapRange ==
    ASSUME NEW k \in Nat, NEW p \in Nat, NEW m \in Nat
    PROVE  /\ Range(Gap(k, p, m)) = (1 .. k) \cup (k + p + 1 .. k + p + m)
           /\ \A i, j \in DOMAIN Gap(k, p, m) : i < j => Gap(k, p, m)[i] < Gap(k, p, m)[j]
<1> DEFINE g == Gap(k, p, m)
<1>1. DOMAIN g = 1 .. k + m /\ \A i \in 1 .. k + m : g[i] = IF i <= k THEN i ELSE p + i
  BY DEF Gap
<1> HIDE DEF g
<1>2. ASSUME NEW x \in 1 .. k PROVE x \in Range(g)
  <2>1. x \in 1 .. k + m /\ x <= k
    OBVIOUS
  <2> QED  BY <1>1, <2>1 DEF Range
<1>3. ASSUME NEW x \in k + p + 1 .. k + p + m PROVE x \in Range(g)
  <2>1. x - p \in 1 .. k + m /\ ~(x - p <= k) /\ p + (x - p) = x
    OBVIOUS
  <2> QED  BY <1>1, <2>1 DEF Range
<1>4. \A i \in 1 .. k + m : g[i] \in (1 .. k) \cup (k + p + 1 .. k + p + m)
  BY <1>1
<1>5. Range(g) = (1 .. k) \cup (k + p + 1 .. k + p + m)
  BY <1>1, <1>2, <1>3, <1>4 DEF Range
<1>6. \A i, j \in DOMAIN g : i < j => g[i] < g[j]
  BY <1>1
<1> QED  BY <1>5, <1>6 DEF g

\* Every byte taken from a socket is delivered, in the pipe, or in the copy's
\* buffer, whatever fails and whenever splicing is given up; and what is
\* counted is what the splices delivered, with what the copy did when it ends
\* well, so all of it when the relay does.
THEOREM BytesAccounted == Spec => []BytesAreAccountedFor
<1>1. ASSUME SpliceInv PROVE BytesAreAccountedFor
  <2> SUFFICES ASSUME NEW d \in Dirs
               PROVE  /\ Range(out[d]) \cup Range(pipe[d]) \cup Range(buf[d]) = 1 .. taken[d]
                      /\ Len(out[d]) + Len(pipe[d]) + Len(buf[d]) = taken[d]
                      /\ \A i, j \in DOMAIN out[d] : i < j => out[d][i] < out[d][j]
                      /\ counted[d] <= Len(out[d])
                      /\ Len(out[d]) - counted[d] \in {0, copied[d]}
                      /\ relay = "ok" => counted[d] = Len(out[d])
    BY DEF BytesAreAccountedFor
  <2>1. PICK k \in 0 .. MaxBytes, p \in 0 .. MaxBytes, m \in 0 .. MaxBytes,
             b \in 0 .. MaxBytes : PathAt(d, k, p, m, b)
    BY <1>1 DEF SpliceInv, PathInv
  <2>2. k \in Nat /\ p \in Nat /\ m \in Nat /\ b \in Nat /\ k + p + m \in Nat
    BY SocketsAssumption
  <2>3. taken[d] = k + p + m + b /\ copied[d] = m /\ counted[d] \in {k, k + m}
    BY <2>1 DEF PathAt
  <2>4. Len(out[d]) = k + m /\ Len(pipe[d]) = p /\ Len(buf[d]) = b
    BY <2>1, Lengths
  <2>5. /\ Range(out[d]) = (1 .. k) \cup (k + p + 1 .. k + p + m)
        /\ \A i, j \in DOMAIN out[d] : i < j => out[d][i] < out[d][j]
    BY <2>1, <2>2, GapRange DEF PathAt
  <2>6. Range(pipe[d]) = k + 1 .. k + p
    BY <2>1, <2>2, NumbersRange DEF PathAt
  <2>7. Range(buf[d]) = k + p + m + 1 .. k + p + m + b
    BY <2>1, <2>2, NumbersRange DEF PathAt
  <2>8. Range(out[d]) \cup Range(pipe[d]) \cup Range(buf[d]) = 1 .. taken[d]
    BY <2>2, <2>3, <2>5, <2>6, <2>7
  <2>9. relay = "ok" => counted[d] = k + m
    BY <1>1, <2>1 DEF SpliceInv, PathAt, Late
  <2> QED  BY <2>2, <2>3, <2>4, <2>5, <2>8, <2>9
<1> QED  BY <1>1, SpliceInvariance, PTL

(***************************************************************************)
(* What is lost is only what is left in a pipe when the copy begins:        *)
(* without that, either direction is a byte stream.                         *)
(***************************************************************************)

NothingAbandoned == \A d \in Dirs : pc[d] = "copy" => pipe[d] = <<>>

\* Bytes are copied with the pipe empty, and a direction that has ended has
\* delivered all that there is.
CleanAt(d) ==
    /\ copied[d] > 0 => pipe[d] = <<>>
    /\ fin[d] => pc[d] = "done"
    /\ pc[d] = "done" => /\ pipe[d] = <<>> /\ buf[d] = <<>>
                         /\ closed[d] /\ taken[d] = written[d]

\* What a step may do to one direction as a byte stream.
StreamStep(d) ==
    \/ /\ written'[d] = written[d] /\ closed'[d] = closed[d]
       /\ out'[d] = out[d] /\ fin'[d] = fin[d]
    \/ /\ ~closed[d] /\ out'[d] = out[d] /\ fin'[d] = fin[d]
       /\ \/ written'[d] = written[d] + 1 /\ closed'[d] = closed[d]
          \/ written'[d] = written[d] /\ closed'[d] = TRUE
    \/ /\ ~fin[d] /\ written'[d] = written[d] /\ closed'[d] = closed[d] /\ fin'[d] = fin[d]
       /\ \E n \in Len(out[d]) + 1 .. written[d] : out'[d] = Numbers(0, n)
    \/ /\ closed[d] /\ Len(out[d]) = written[d] /\ fin'[d] = TRUE
       /\ written'[d] = written[d] /\ closed'[d] = closed[d] /\ out'[d] = out[d]

\* A step that leaves a direction alone.
LEMMA UntouchedStream ==
    ASSUME NEW d \in Dirs, CleanAt(d), written'[d] = written[d], closed'[d] = closed[d],
           taken'[d] = taken[d], out'[d] = out[d], fin'[d] = fin[d], pipe'[d] = pipe[d],
           buf'[d] = buf[d], copied'[d] = copied[d], pc'[d] = pc[d]
    PROVE  CleanAt(d)' /\ StreamStep(d)
BY DEF CleanAt, StreamStep

\* The pipe drains into the destination the next bytes of the stream.
LEMMA DrainStream ==
    ASSUME SpliceInv, NEW d \in Dirs, Drain(d)
    PROVE  \E n \in Len(out[d]) + 1 .. written[d] : out'[d] = Numbers(0, n)
<1>1. TypeOK /\ pc[d] = "drain"
  BY DEF SpliceInv, Drain
<1>2. PICK k \in 0 .. MaxBytes, p \in 0 .. MaxBytes, m \in 0 .. MaxBytes, b \in 0 .. MaxBytes :
         PathAt(d, k, p, m, b)
  BY DEF SpliceInv, PathInv
<1>3. PICK n \in 1 .. Len(pipe[d]) : out' = [out EXCEPT ![d] = @ \o SubSeq(pipe[d], 1, n)]
  BY DEF Drain
<1>4. m = 0 /\ b = 0 /\ pipe[d] = Numbers(k, p) /\ out[d] = Gap(k, p, 0)
  BY <1>1, <1>2 DEF PathAt
<1>5. Len(pipe[d]) = p /\ Len(out[d]) = k + m
  BY <1>2, Lengths
<1>6. k \in Nat /\ p \in Nat /\ n \in 1 .. p /\ k + p <= written[d] /\ written[d] \in Nat
  BY <1>1, <1>2, <1>3, <1>4, <1>5, Counters DEF PathAt
<1>7. k + n \in Len(out[d]) + 1 .. written[d]
  BY <1>4, <1>5, <1>6
<1>8. out'[d] = Gap(k, p, 0) \o SubSeq(Numbers(k, p), 1, n)
  BY <1>1, <1>3, <1>4 DEF TypeOK, SocketsTypeOK
<1>9. out'[d] = Gap(k + n, p - n, 0)
  BY <1>6, <1>8, GapDrain
<1>10. Gap(k + n, p - n, 0) = Numbers(0, k + n)
  BY <1>6 DEF Gap, Numbers
<1> QED  BY <1>7, <1>9, <1>10

\* So does the copy if the pipe is empty.
LEMMA CopyWriteStream ==
    ASSUME SpliceInv, NEW d \in Dirs, CopyWrite(d), pipe[d] = <<>>
    PROVE  \E n \in Len(out[d]) + 1 .. written[d] : out'[d] = Numbers(0, n)
<1>1. TypeOK
  BY DEF SpliceInv
<1>2. PICK k \in 0 .. MaxBytes, p \in 0 .. MaxBytes, m \in 0 .. MaxBytes, b \in 0 .. MaxBytes :
         PathAt(d, k, p, m, b)
  BY DEF SpliceInv, PathInv
<1>3. Len(pipe[d]) = 0
  OBVIOUS
<1>4. p = 0 /\ b # 0 /\ Len(out[d]) = k + m
  BY <1>2, <1>3, Lengths DEF CopyWrite
<1>5. out[d] = Gap(k, 0, m) /\ buf[d] = Numbers(k + 0 + m, b)
  BY <1>2, <1>4 DEF PathAt
<1>6. /\ k \in Nat /\ m \in Nat /\ b \in Nat \ {0} /\ k + 0 + m \in Nat
      /\ k + m + b <= written[d] /\ written[d] \in Nat
  BY <1>1, <1>2, <1>4, Counters DEF PathAt
<1>7. Head(Numbers(k + 0 + m, b)) = k + 0 + m + 1
  BY <1>6, NumbersHeadTail
<1>8. out'[d] = Append(Gap(k, 0, m), k + 0 + m + 1)
  BY <1>1, <1>5, <1>7 DEF CopyWrite, TypeOK, SocketsTypeOK
<1>9. Append(Gap(k, 0, m), k + 0 + m + 1) = Gap(k, 0, m + 1)
  BY <1>6, GapAppend
<1>10. Gap(k, 0, m + 1) = Numbers(0, k + m + 1)
  BY <1>6 DEF Gap, Numbers
<1>11. k + m + 1 \in Len(out[d]) + 1 .. written[d]
  BY <1>4, <1>6
<1> QED  BY <1>8, <1>9, <1>10, <1>11

\* When pipe and buffer are empty, all that was taken is delivered.
LEMMA AllDelivered ==
    ASSUME SpliceInv, NEW d \in Dirs, pipe[d] = <<>>, buf[d] = <<>>
    PROVE  Len(out[d]) = taken[d]
<1>1. PICK k \in 0 .. MaxBytes, p \in 0 .. MaxBytes, m \in 0 .. MaxBytes, b \in 0 .. MaxBytes :
         PathAt(d, k, p, m, b)
  BY DEF SpliceInv, PathInv
<1>2. Len(pipe[d]) = 0 /\ Len(buf[d]) = 0
  OBVIOUS
<1>3. p = 0 /\ b = 0 /\ Len(out[d]) = k + m
  BY <1>1, <1>2, Lengths
<1> QED  BY <1>1, <1>3 DEF PathAt

\* While a direction splices, nothing is copied; before it reads, its pipe is
\* empty.
LEMMA Splicing ==
    ASSUME SpliceInv, NEW d \in Dirs, pc[d] \in {"fill", "drain"}
    PROVE  copied[d] = 0 /\ buf[d] = <<>> /\ (pc[d] = "fill" => pipe[d] = <<>>)
<1>1. PICK k \in 0 .. MaxBytes, p \in 0 .. MaxBytes, m \in 0 .. MaxBytes, b \in 0 .. MaxBytes :
         PathAt(d, k, p, m, b)
  BY DEF SpliceInv, PathInv
<1>2. Numbers(k, 0) = <<>> /\ Numbers(k + p + m, 0) = <<>>
  BY DEF Numbers
<1> QED  BY <1>1, <1>2 DEF PathAt

\* A step of a direction's loop is a step of its stream.
LEMMA LoopStream ==
    ASSUME SpliceInv, NothingAbandoned, NEW d \in Dirs, CleanAt(d),
           SpliceStep(d) \/ DrainAgain(d) \/ CopyStep(d)
    PROVE  CleanAt(d)' /\ StreamStep(d)
<1> USE DEF peerVars, relayEnds, socketVars, modes, spliceVars, copyVars
<1>1. TypeOK /\ pc[d] \in {"fill", "drain", "copy"}
  BY DEF SpliceInv, SpliceStep, CopyStep, Fill, FillAgain, FillEof, Drain, SpliceFails,
         DrainAgain, CopyRead, CopyWrite, CopyEof, CopyFails, Becomes
<1>2. ~fin[d]
  BY <1>1 DEF CleanAt
<1>3. pc[d] \in {"fill", "drain"} => copied[d] = 0
  BY Splicing
<1>4. pc[d] = "copy" => pipe[d] = <<>>
  BY DEF NothingAbandoned
<1>5. CASE Fill(d)
  <2>1. pc[d] = "fill" /\ pc'[d] = "drain" /\ UNCHANGED <<written, closed, out, fin, copied>>
    BY <1>1, <1>5 DEF Fill, Becomes, TypeOK
  <2> QED  BY <1>2, <1>3, <2>1 DEF CleanAt, StreamStep
<1>6. CASE Drain(d)
  <2>1. pc[d] = "drain" /\ UNCHANGED <<written, closed, fin, copied>>
    BY <1>6 DEF Drain
  <2>2. pc'[d] \in {"fill", "drain"}
    BY <1>1, <1>6, DrainPath DEF SpliceInv
  <2> QED  BY <1>2, <1>3, <1>6, <2>1, <2>2, DrainStream DEF CleanAt, StreamStep
<1>7. CASE FillAgain(d) \/ DrainAgain(d) \/ SpliceFails(d) \/ CopyFails(d)
  <2>1. /\ UNCHANGED <<written, closed, out, fin, pipe, copied>>
        /\ pc'[d] \in {pc[d], "copy", "failed"}
    BY <1>1, <1>7 DEF FillAgain, DrainAgain, SpliceFails, CopyFails, Again, Becomes, TypeOK
  <2> QED  BY <1>1, <1>2, <2>1 DEF CleanAt, StreamStep
<1>8. CASE CopyRead(d)
  <2>1. UNCHANGED <<written, closed, out, fin, pipe, copied, pc>> /\ pc[d] = "copy"
    BY <1>8 DEF CopyRead
  <2> QED  BY <1>2, <2>1 DEF CleanAt, StreamStep
<1>9. CASE CopyWrite(d)
  <2>1. UNCHANGED <<written, closed, fin, pipe, pc>> /\ pc[d] = "copy"
    BY <1>9 DEF CopyWrite
  <2> QED  BY <1>2, <1>4, <1>9, <2>1, CopyWriteStream DEF CleanAt, StreamStep
<1>10. CASE FillEof(d) \/ CopyEof(d)
  <2>1. /\ UNCHANGED <<written, closed, taken, out, pipe, buf, copied>> /\ pc'[d] = "done"
        /\ fin'[d] \in {fin[d], TRUE} /\ closed[d] /\ taken[d] = written[d]
    BY <1>1, <1>10 DEF FillEof, CopyEof, EndDirection, AtEof, Becomes, TypeOK, SocketsTypeOK
  <2>2. pipe[d] = <<>> /\ buf[d] = <<>>
    BY <1>1, <1>4, <1>10, Splicing DEF FillEof, CopyEof, Becomes
  <2>3. Len(out[d]) = written[d]
    BY <2>1, <2>2, AllDelivered
  <2> QED  BY <2>1, <2>2, <2>3 DEF CleanAt, StreamStep
<1> QED  BY <1>5, <1>6, <1>7, <1>8, <1>9, <1>10 DEF SpliceStep, CopyStep

\* And nothing to the other one.
LEMMA OtherStream ==
    ASSUME SpliceInv, NEW d \in Dirs, NEW e \in Dirs \ {d}, CleanAt(e),
           SpliceStep(d) \/ DrainAgain(d) \/ CopyStep(d)
    PROVE  CleanAt(e)' /\ StreamStep(e)
<1> USE DEF peerVars, relayEnds, socketVars, modes, spliceVars, copyVars
<1>1. TypeOK
  BY DEF SpliceInv
<1>2. written'[e] = written[e] /\ closed'[e] = closed[e]
  BY DEF SpliceStep, CopyStep, Fill, FillAgain, FillEof, Drain, SpliceFails, DrainAgain,
         CopyRead, CopyWrite, CopyEof, CopyFails
<1>3. pc'[e] = pc[e]
  BY <1>1 DEF SpliceStep, CopyStep, Fill, FillAgain, FillEof, Drain, SpliceFails, DrainAgain,
              CopyRead, CopyWrite, CopyEof, CopyFails, Becomes, Again, TypeOK
<1>4. taken'[e] = taken[e] /\ fin'[e] = fin[e] /\ out'[e] = out[e]
  BY <1>1 DEF SpliceStep, CopyStep, Fill, FillAgain, FillEof, Drain, SpliceFails, DrainAgain,
              CopyRead, CopyWrite, CopyEof, CopyFails, EndDirection, TypeOK, SocketsTypeOK
<1>5. pipe'[e] = pipe[e] /\ buf'[e] = buf[e] /\ copied'[e] = copied[e]
  BY <1>1 DEF SpliceStep, CopyStep, Fill, FillAgain, FillEof, Drain, SpliceFails, DrainAgain,
              CopyRead, CopyWrite, CopyEof, CopyFails, TypeOK
<1> QED  BY <1>2, <1>3, <1>4, <1>5, UntouchedStream

\* What a peer does is a step of the stream that it writes.
LEMMA PeerStream ==
    ASSUME SpliceInv, NEW d \in Dirs, CleanAt(d), PeerStep,
           UNCHANGED <<relayEnds, modes, pc, spliceVars, copyVars, counted, relay>>
    PROVE  CleanAt(d)' /\ StreamStep(d)
<1> USE DEF relayEnds, spliceVars, copyVars
<1>1. TypeOK
  BY DEF SpliceInv
<1>2. \/ written'[d] = written[d] /\ closed'[d] = closed[d]
      \/ ~closed[d] /\ written'[d] = written[d] + 1 /\ closed'[d] = closed[d]
      \/ ~closed[d] /\ written'[d] = written[d] /\ closed'[d] = TRUE
  <2>1. CASE \E e \in Dirs : PeerWrite(e)
    BY <1>1, <2>1 DEF PeerWrite, TypeOK, SocketsTypeOK
  <2>2. CASE \E e \in Dirs : PeerClose(e)
    BY <1>1, <2>2 DEF PeerClose, TypeOK, SocketsTypeOK
  <2>3. CASE \E s \in {"client", "upstream"} : PeerReset(s)
    BY <2>3 DEF PeerReset
  <2> QED  BY <2>1, <2>2, <2>3 DEF PeerStep
<1> QED  BY <1>2 DEF CleanAt, StreamStep

\* A start that fails, and the ends of the relay, the good one of which passes
\* on the end of the download.
LEMMA JoinStream ==
    ASSUME SpliceInv, NEW d \in Dirs, CleanAt(d), StartFails \/ JoinOk \/ JoinError
    PROVE  CleanAt(d)' /\ StreamStep(d)
<1> USE DEF peerVars, relayEnds, socketVars, modes, spliceVars, copyVars
<1>1. CASE StartFails
  <2>1. pc[d] # "done" /\ pc'[d] = "failed"
    BY <1>1 DEF StartFails
  <2> QED  BY <1>1, <2>1 DEF StartFails, CleanAt, StreamStep
<1>2. CASE JoinError
  BY <1>2, UntouchedStream DEF JoinError
<1>3. CASE JoinOk
  <2>1. /\ pc[d] = "done" /\ UNCHANGED <<written, closed, taken, out, pc, pipe, buf, copied>>
        /\ fin' = [fin EXCEPT !["down"] = TRUE] /\ DOMAIN fin = Dirs
    BY <1>3 DEF JoinOk, SpliceInv, TypeOK, SocketsTypeOK
  <2>2. fin'[d] = fin[d] \/ fin'[d] = TRUE
    BY <2>1
  <2>3. Len(out[d]) = written[d] /\ closed[d]
    BY <2>1, AllDelivered DEF CleanAt
  <2> QED  BY <2>1, <2>2, <2>3 DEF CleanAt, StreamStep
<1> QED  BY <1>1, <1>2, <1>3

\* A relay that never abandons what is in a pipe implements two byte streams:
\* whatever is spliced, copied or both arrives in order and without loss, and
\* the end of a stream after all of it.  So the bytes that give-ups leave in
\* the pipe (linux.rs:282-293) are all that the relay can lose.
THEOREM LosslessUnlessAbandoned == Spec /\ []NothingAbandoned => ImplementsByteStreams
<1> DEFINE Clean == \A d \in Dirs : CleanAt(d)
<1>1. Init => Clean /\ Up!Init /\ Down!Init
  BY DEF Init, SocketsInit, CleanAt, Up!Init, Down!Init, Dirs
<1>2. SpliceInv /\ NothingAbandoned /\ Clean /\ [Next]_vars
        => Clean' /\ \A d \in Dirs : StreamStep(d)
  <2> SUFFICES ASSUME SpliceInv, NothingAbandoned, Clean, [Next]_vars, NEW d \in Dirs
               PROVE  CleanAt(d)' /\ StreamStep(d)
    OBVIOUS
  <2>1. CASE PeerStep /\ UNCHANGED <<relayEnds, modes, pc, spliceVars, copyVars, counted, relay>>
    BY <2>1, PeerStream
  <2>2. CASE \E e \in Dirs : SpliceStep(e) \/ DrainAgain(e) \/ CopyStep(e)
    BY <2>2, LoopStream, OtherStream
  <2>3. CASE StartFails \/ JoinOk \/ JoinError
    BY <2>3, JoinStream
  <2>4. CASE UNCHANGED vars
    BY <2>4, UntouchedStream DEF vars, socketVars, peerVars, relayEnds, spliceVars, copyVars
  <2> QED  BY <2>1, <2>2, <2>3, <2>4 DEF Next
<1>3. (\A d \in Dirs : StreamStep(d)) => [Up!Next]_(Up!vars) /\ [Down!Next]_(Down!vars)
  <2> SUFFICES ASSUME \A d \in Dirs : StreamStep(d)
               PROVE  [Up!Next]_(Up!vars) /\ [Down!Next]_(Down!vars)
    OBVIOUS
  <2>1. StreamStep("up") /\ StreamStep("down")
    BY DEF Dirs
  <2>2. ASSUME NEW d \in Dirs, NEW n \in Len(out[d]) + 1 .. written[d]
        PROVE  Numbers(0, n) = [i \in 1 .. n |-> i]
    BY DEF Numbers
  <2>3. [Up!Next]_(Up!vars)
    BY <2>1, <2>2 DEF StreamStep, Dirs, Up!Next, Up!Write, Up!Close, Up!Deliver, Up!End, Up!vars
  <2>4. [Down!Next]_(Down!vars)
    BY <2>1, <2>2 DEF StreamStep, Dirs, Down!Next, Down!Write, Down!Close, Down!Deliver,
                      Down!End, Down!vars
  <2> QED  BY <2>3, <2>4
<1> QED  BY <1>1, <1>2, <1>3, SpliceInvariance, PTL
            DEF Spec, ImplementsByteStreams, Up!Spec, Down!Spec
=============================================================================
