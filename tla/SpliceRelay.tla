----------------------------- MODULE SpliceRelay -----------------------------
(***************************************************************************)
(* The blocking relays of crates/prism/src/relay: relay_with_splice with    *)
(* its splice_copy loops and their fallback (linux.rs), and                 *)
(* relay_with_copy, taken when no pipes can be made (mod.rs).  Either way   *)
(* a thread carries the upload, the calling thread the download, and the    *)
(* calling thread then joins the other.                                     *)
(*                                                                          *)
(* A splice that would block is retried; after RetryLimit tries the         *)
(* direction is copied by io::copy for the rest of its life.                *)
(***************************************************************************)
EXTENDS Sockets, FiniteSets, Functions

CONSTANT RetryLimit   \* WOULD_BLOCK_RETRY_LIMIT

ASSUME SpliceAssumption == RetryLimit \in Nat \ {0}

VARIABLES
    mode,      \* "splice", or "copy" if prepare_pipes failed
    blocking,  \* the sockets, which the directions share, are set to block
    pc,        \* per direction: where its thread is
    pipe,      \* per direction: bytes in the pipe
    retries,   \* per direction: would_block_retries of the running splice
    buf,       \* per direction: buffer of io::copy
    copied,    \* per direction: result of io::copy so far
    counted,   \* per direction: session.upload_bytes and download_bytes
    relay      \* result of the relay

modes == <<mode, blocking>>
spliceVars == <<pipe, retries>>
copyVars == <<buf, copied>>
vars == <<socketVars, modes, pc, spliceVars, copyVars, counted, relay>>

\* A direction: fill the pipe, drain it, or copy; then ended or failed.
Steps == {"fill", "drain", "copy", "done", "failed"}

TypeOK ==
    /\ SocketsTypeOK
    /\ mode \in {"splice", "copy"}
    /\ blocking \in BOOLEAN
    /\ pc \in [Dirs -> Steps]
    /\ DOMAIN pipe = Dirs /\ DOMAIN buf = Dirs
    /\ retries \in [Dirs -> 0 .. RetryLimit - 1]
    /\ copied \in [Dirs -> 0 .. MaxBytes]
    /\ counted \in [Dirs -> 0 .. MaxBytes]
    /\ relay \in {"running", "ok", "error"}

Init ==
    /\ SocketsInit
    /\ mode \in {"splice", "copy"}
    /\ blocking = (mode = "copy")
    /\ pc = [d \in Dirs |-> IF mode = "splice" THEN "fill" ELSE "copy"]
    /\ pipe = [d \in Dirs |-> <<>>]
    /\ retries = [d \in Dirs |-> 0]
    /\ buf = [d \in Dirs |-> <<>>]
    /\ copied = [d \in Dirs |-> 0]
    /\ counted = [d \in Dirs |-> 0]
    /\ relay = "running"

Becomes(d, from, to) == pc[d] = from /\ pc' = [pc EXCEPT ![d] = to]

\* shutdown_write(upstream) is called by the upload thread as it ends.
EndDirection(d) == fin' = IF d = "up" THEN [fin EXCEPT ![d] = TRUE] ELSE fin

\* The thread of the upload cannot be spawned: nothing is relayed.
StartFails ==
    /\ relay = "running"
    /\ \A d \in Dirs : pc[d] \in {"fill", "copy"} /\ taken[d] = 0 /\ retries[d] = 0
    /\ blocking = (mode = "copy")
    /\ pc' = [d \in Dirs |-> "failed"]
    /\ relay' = "error"
    /\ UNCHANGED <<socketVars, modes, spliceVars, copyVars, counted>>

-----------------------------------------------------------------------------
(* splice_retry *)

\* Faulty: one try too many.
AgainOnceMore(d) ==
    IF retries[d] + 1 <= RetryLimit
    THEN /\ retries' = [retries EXCEPT ![d] = @ + 1]
         /\ UNCHANGED <<pc, blocking>>
    ELSE /\ retries' = [retries EXCEPT ![d] = 0]
         /\ blocking' = TRUE
         /\ pc' = [pc EXCEPT ![d] = "copy"]

\* EAGAIN: try again, or give up on splicing.
Again(d) ==
    IF retries[d] + 1 < RetryLimit
    THEN /\ retries' = [retries EXCEPT ![d] = @ + 1]
         /\ UNCHANGED <<pc, blocking>>
    ELSE /\ retries' = [retries EXCEPT ![d] = 0]
         /\ blocking' = TRUE
         /\ pc' = [pc EXCEPT ![d] = "copy"]

\* From the source into the empty pipe.
Fill(d) ==
    /\ Becomes(d, "fill", "drain")
    /\ Readable(d)
    /\ \E n \in ReadSizes(d) :
          /\ pipe' = [pipe EXCEPT ![d] = Chunk(d, n)]
          /\ taken' = [taken EXCEPT ![d] = @ + n]
    /\ retries' = [retries EXCEPT ![d] = 0]
    /\ UNCHANGED <<peerVars, out, fin, modes, copyVars, counted, relay>>

\* Nothing to read: the retries are used up although poll waits in between,
\* since the polled socket is ready for writing.
FillAgain(d) ==
    /\ pc[d] = "fill" /\ WouldBlock(d)
    /\ Again(d)
    /\ UNCHANGED <<socketVars, mode, pipe, copyVars, counted, relay>>

FillEof(d) ==
    /\ Becomes(d, "fill", "done")
    /\ AtEof(d)
    /\ EndDirection(d)
    /\ UNCHANGED <<peerVars, taken, out, modes, spliceVars, copyVars, counted, relay>>

\* From the pipe into the destination, as much as its buffer takes; every
\* part is counted at once.
Drain(d) ==
    /\ pc[d] = "drain" /\ Writable(d)
    /\ \E n \in 1 .. Len(pipe[d]) :
          /\ out' = [out EXCEPT ![d] = @ \o SubSeq(pipe[d], 1, n)]
          /\ pipe' = [pipe EXCEPT ![d] = SubSeq(@, n + 1, Len(@))]
          /\ counted' = [counted EXCEPT ![d] = @ + n]
          /\ pc' = [pc EXCEPT ![d] = IF n = Len(pipe[d]) THEN "fill" ELSE "drain"]
    /\ retries' = [retries EXCEPT ![d] = 0]
    /\ UNCHANGED <<peerVars, taken, fin, modes, copyVars, relay>>

\* The destination's buffer is full for as long as its peer does not read.
\* A pipe into a blocking socket is waited for instead.
DrainAgain(d) ==
    /\ pc[d] = "drain" /\ Writable(d) /\ ~blocking
    /\ Again(d)
    /\ UNCHANGED <<socketVars, mode, pipe, copyVars, counted, relay>>

SpliceFails(d) ==
    /\ \/ Becomes(d, "fill", "failed") /\ ReadFails(d)
       \/ Becomes(d, "drain", "failed") /\ WriteFails(d)
    /\ UNCHANGED <<socketVars, modes, spliceVars, copyVars, counted, relay>>

-----------------------------------------------------------------------------
(* io::copy, from socket to socket *)

CopyRead(d) ==
    /\ pc[d] = "copy" /\ buf[d] = <<>> /\ Readable(d)
    /\ \E n \in ReadSizes(d) :
          /\ buf' = [buf EXCEPT ![d] = Chunk(d, n)]
          /\ taken' = [taken EXCEPT ![d] = @ + n]
    /\ UNCHANGED <<peerVars, out, fin, modes, pc, spliceVars, copied, counted, relay>>

CopyWrite(d) ==
    /\ pc[d] = "copy" /\ buf[d] # <<>> /\ Writable(d)
    /\ out' = [out EXCEPT ![d] = Append(@, Head(buf[d]))]
    /\ buf' = [buf EXCEPT ![d] = Tail(@)]
    /\ copied' = [copied EXCEPT ![d] = @ + 1]
    /\ UNCHANGED <<peerVars, taken, fin, modes, pc, spliceVars, counted, relay>>

\* Faulty: what is left in the pipe goes out after the copy.
CopyEofFlushing(d) ==
    /\ Becomes(d, "copy", "done")
    /\ buf[d] = <<>> /\ AtEof(d)
    /\ EndDirection(d)
    /\ out' = [out EXCEPT ![d] = @ \o pipe[d]]
    /\ pipe' = [pipe EXCEPT ![d] = <<>>]
    /\ counted' = [counted EXCEPT ![d] = @ + copied[d] + Len(pipe[d])]
    /\ UNCHANGED <<peerVars, taken, modes, retries, copyVars, relay>>

\* Only here is what io::copy has copied counted; the download of
\* relay_with_copy is counted later still, after the join.
CopyEof(d) ==
    /\ Becomes(d, "copy", "done")
    /\ buf[d] = <<>> /\ AtEof(d)
    /\ EndDirection(d)
    /\ counted' = IF mode = "copy" /\ d = "down" THEN counted
                  ELSE [counted EXCEPT ![d] = @ + copied[d]]
    /\ UNCHANGED <<peerVars, taken, out, modes, spliceVars, copyVars, relay>>

CopyFails(d) ==
    /\ Becomes(d, "copy", "failed")
    /\ IF buf[d] = <<>> THEN ReadFails(d) ELSE WriteFails(d)
    /\ UNCHANGED <<socketVars, modes, spliceVars, copyVars, counted, relay>>

-----------------------------------------------------------------------------
(* The end: the download thread joins the upload thread *)

Ended(d) == pc[d] \in {"done", "failed"}

JoinOk ==
    /\ relay = "running"
    /\ \A d \in Dirs : pc[d] = "done"
    /\ relay' = "ok"
    /\ fin' = [fin EXCEPT !["down"] = TRUE]
    /\ counted' = IF mode = "copy" THEN [counted EXCEPT !["down"] = copied["down"]]
                  ELSE counted
    /\ UNCHANGED <<peerVars, taken, out, modes, pc, spliceVars, copyVars>>

\* Faulty: waits for ever when only the download has failed.
JoinUploadError ==
    /\ relay = "running"
    /\ \A d \in Dirs : Ended(d)
    /\ pc["up"] = "failed"
    /\ relay' = "error"
    /\ UNCHANGED <<socketVars, modes, pc, spliceVars, copyVars, counted>>

JoinError ==
    /\ relay = "running"
    /\ \A d \in Dirs : Ended(d)
    /\ \E d \in Dirs : pc[d] = "failed"
    /\ relay' = "error"
    /\ UNCHANGED <<socketVars, modes, pc, spliceVars, copyVars, counted>>

-----------------------------------------------------------------------------
SpliceStep(d) == Fill(d) \/ FillAgain(d) \/ FillEof(d) \/ Drain(d) \/ SpliceFails(d)
CopyStep(d) == CopyRead(d) \/ CopyWrite(d) \/ CopyEof(d) \/ CopyFails(d)

Next ==
    \/ PeerStep /\ UNCHANGED <<relayEnds, modes, pc, spliceVars, copyVars, counted, relay>>
    \/ \E d \in Dirs : SpliceStep(d) \/ DrainAgain(d) \/ CopyStep(d)
    \/ StartFails \/ JoinOk \/ JoinError

\* The threads run, and the peers read what they are sent.
Fairness ==
    /\ WF_vars(JoinOk \/ JoinError)
    /\ \A d \in Dirs : WF_vars(SpliceStep(d) \/ CopyStep(d))

Spec == Init /\ [][Next]_vars /\ Fairness

-----------------------------------------------------------------------------
(* Properties *)

\* Each direction is a reliable byte stream.
ImplementsByteStreams == Up!Spec /\ Down!Spec

\* Every byte taken from a socket is delivered, in the pipe, or in the
\* copy's buffer, and in one of these places only; none arrives out of order or
\* twice, also when some are lost.  Nothing is counted that was not delivered:
\* all that the splices deliver is counted at once, what io::copy delivers
\* when it ends well.
BytesAreAccountedFor ==
    \A d \in Dirs :
        /\ Range(out[d]) \cup Range(pipe[d]) \cup Range(buf[d]) = 1 .. taken[d]
        /\ Len(out[d]) + Len(pipe[d]) + Len(buf[d]) = taken[d]
        /\ \A i, j \in DOMAIN out[d] : i < j => out[d][i] < out[d][j]
        /\ counted[d] <= Len(out[d])
        /\ Len(out[d]) - counted[d] \in {0, copied[d]}
        /\ relay = "ok" => counted[d] = Len(out[d])

\* Liveness: the relay ends once both peers have closed their sides, or
\* both sockets are reset.
RelayEnds ==
    /\ (\A d \in Dirs : closed[d]) ~> relay # "running"
    /\ reset = {"client", "upstream"} ~> relay # "running"
=============================================================================
