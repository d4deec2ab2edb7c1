------------------------------ MODULE CopyRelay ------------------------------
(***************************************************************************)
(* The relays that copy through a buffer, and how relay_bidirectional of    *)
(* crates/prism/src/relay/mod.rs comes to use them.  standard_copy_relay    *)
(* polls its two custom_async_copy loops in one task under try_join!, which *)
(* drops the other loop as soon as one of them fails.  run_io_uring_relay   *)
(* of linux.rs has the same loops (io_uring_copy) as two tasks of a worker  *)
(* thread that all connections share, and awaits both before it looks at    *)
(* their results.                                                           *)
(***************************************************************************)
EXTENDS Sockets

VARIABLES
    ioUring,  \* network.relay asks for io_uring; otherwise for the async relay
    tryJoin,  \* TRUE: standard_copy_relay, FALSE: run_io_uring_relay
    pc,       \* per direction: where its copy loop is
    buf,      \* per direction: what the loop has read and not yet written
    chunk,    \* per direction: size of the read that buf is the rest of
    counted,  \* per direction: session.upload_bytes and download_bytes
    relay     \* "starting", "queued" at the worker, "running", or its result

modes == <<ioUring, tryJoin>>
copyVars == <<pc, buf, chunk, counted>>
vars == <<socketVars, modes, copyVars, relay>>

TypeOK ==
    /\ SocketsTypeOK
    /\ ioUring \in BOOLEAN
    /\ tryJoin \in BOOLEAN
    /\ pc \in [Dirs -> {"read", "write", "done", "failed"}]
    /\ DOMAIN buf = Dirs
    /\ chunk \in [Dirs -> 0 .. MaxBytes]
    /\ counted \in [Dirs -> 0 .. MaxBytes]
    /\ relay \in {"starting", "queued", "running", "ok", "error"}

Init ==
    /\ SocketsInit
    /\ ioUring \in BOOLEAN
    /\ tryJoin = TRUE
    /\ pc = [d \in Dirs |-> "read"]
    /\ buf = [d \in Dirs |-> <<>>]
    /\ chunk = [d \in Dirs |-> 0]
    /\ counted = [d \in Dirs |-> 0]
    /\ relay = "starting"

-----------------------------------------------------------------------------
(* relay_bidirectional: which relay gets the two sockets *)

Phase(from, to) == relay = from /\ relay' = to /\ UNCHANGED <<socketVars, ioUring, copyVars>>

StartAsync ==
    /\ ~ioUring
    /\ Phase("starting", "running")
    /\ UNCHANGED tryJoin

\* The sockets cannot be taken out of the runtime, or not be duplicated.
StartFails ==
    /\ ioUring
    /\ Phase("starting", "error")
    /\ UNCHANGED tryJoin

\* try_send puts the job, with duplicates of the sockets, into the queue.
Submit ==
    /\ ioUring
    /\ Phase("starting", "queued")
    /\ UNCHANGED tryJoin

\* The worker takes jobs off its queue one after the other, and runs each as
\* a task of its own.
PickUp ==
    /\ Phase("queued", "running")
    /\ tryJoin' = FALSE

\* Unavailable: the worker could not be started, for this relay or an earlier
\* one, or its queue is full or closed.  The async relay takes the originals
\* of the sockets, which nothing has been read from or written to.
FallBack ==
    /\ ioUring
    /\ Phase("starting", "running")
    /\ UNCHANGED tryJoin

-----------------------------------------------------------------------------
(* custom_async_copy and io_uring_copy *)

Becomes(d, from, to) == /\ relay = "running"
                        /\ pc[d] = from
                        /\ pc' = [pc EXCEPT ![d] = to]

\* Faulty: counts what is read, before it is written.
ReadCounting(d) ==
    /\ Becomes(d, "read", "write")
    /\ Readable(d)
    /\ \E n \in ReadSizes(d) :
          /\ buf' = [buf EXCEPT ![d] = Chunk(d, n)]
          /\ chunk' = [chunk EXCEPT ![d] = 0]
          /\ counted' = [counted EXCEPT ![d] = @ + n]
          /\ taken' = [taken EXCEPT ![d] = @ + n]
    /\ UNCHANGED <<peerVars, modes, out, fin, relay>>

\* reader.read returned Ok(read).
Read(d) ==
    /\ Becomes(d, "read", "write")
    /\ Readable(d)
    /\ \E n \in ReadSizes(d) :
          /\ buf' = [buf EXCEPT ![d] = Chunk(d, n)]
          /\ chunk' = [chunk EXCEPT ![d] = n]
          /\ taken' = [taken EXCEPT ![d] = @ + n]
    /\ UNCHANGED <<peerVars, modes, out, fin, counted, relay>>

\* reader.read returned Ok(0): the end is passed on at once, whatever the
\* other direction does.
ReadEof(d) ==
    /\ Becomes(d, "read", "done")
    /\ AtEof(d)
    /\ fin' = [fin EXCEPT ![d] = TRUE]
    /\ UNCHANGED <<peerVars, modes, taken, out, buf, chunk, counted, relay>>

\* Faulty: write instead of write_all; each write counts the chunk.
WriteOnce(d) ==
    /\ Becomes(d, "write", "read") /\ Writable(d)
    /\ out' = [out EXCEPT ![d] = Append(@, Head(buf[d]))]
    /\ buf' = [buf EXCEPT ![d] = <<>>]
    /\ counted' = [counted EXCEPT ![d] = @ + 1]
    /\ chunk' = [chunk EXCEPT ![d] = 0]
    /\ UNCHANGED <<peerVars, modes, taken, fin, relay>>

\* Faulty: counts the chunk with every byte of it.
WriteCountingChunks(d) ==
    /\ relay = "running" /\ pc[d] = "write" /\ Writable(d)
    /\ out' = [out EXCEPT ![d] = Append(@, Head(buf[d]))]
    /\ buf' = [buf EXCEPT ![d] = Tail(@)]
    /\ counted' = [counted EXCEPT ![d] = @ + chunk[d]]
    /\ pc' = [pc EXCEPT ![d] = IF Len(buf[d]) = 1 THEN "read" ELSE "write"]
    /\ UNCHANGED <<peerVars, modes, taken, fin, chunk, relay>>

\* One byte of write_all; the chunk is counted when all of it is written.
WriteByte(d) ==
    /\ relay = "running" /\ pc[d] = "write" /\ Writable(d)
    /\ out' = [out EXCEPT ![d] = Append(@, Head(buf[d]))]
    /\ buf' = [buf EXCEPT ![d] = Tail(@)]
    /\ IF Len(buf[d]) = 1
       THEN /\ pc' = [pc EXCEPT ![d] = "read"]
            /\ counted' = [counted EXCEPT ![d] = @ + chunk[d]]
            /\ chunk' = [chunk EXCEPT ![d] = 0]
       ELSE UNCHANGED <<pc, counted, chunk>>
    /\ UNCHANGED <<peerVars, modes, taken, fin, relay>>

CopyFails(d) ==
    /\ \/ Becomes(d, "read", "failed") /\ ReadFails(d)
       \/ Becomes(d, "write", "failed") /\ WriteFails(d)
    /\ UNCHANGED <<socketVars, modes, buf, chunk, counted, relay>>

JoinOk ==
    /\ relay = "running"
    /\ \A d \in Dirs : pc[d] = "done"
    /\ relay' = "ok"
    /\ UNCHANGED <<socketVars, modes, copyVars>>

\* Faulty: join! instead of try_join!.
JoinErrorOfBoth ==
    /\ relay = "running"
    /\ \A d \in Dirs : pc[d] \in {"done", "failed"}
    /\ \E d \in Dirs : pc[d] = "failed"
    /\ relay' = "error"
    /\ UNCHANGED <<socketVars, modes, copyVars>>

\* try_join!: the first error ends the relay, and the other loop is dropped
\* where it is.  Otherwise both have to end.
JoinError ==
    /\ relay = "running"
    /\ \E d \in Dirs : pc[d] = "failed"
    /\ tryJoin \/ \A d \in Dirs : pc[d] \in {"done", "failed"}
    /\ relay' = "error"
    /\ UNCHANGED <<socketVars, modes, copyVars>>

RelayStep(d) == Read(d) \/ ReadEof(d) \/ WriteByte(d) \/ CopyFails(d)

Next ==
    \/ PeerStep /\ UNCHANGED <<relayEnds, modes, copyVars, relay>>
    \/ \E d \in Dirs : RelayStep(d)
    \/ StartAsync \/ StartFails \/ Submit \/ PickUp \/ FallBack
    \/ JoinOk \/ JoinError

\* The runtime polls the task, the worker its queue, and the peers read what
\* they are sent; they need not write, close or reset.
Starting == StartAsync \/ StartFails \/ Submit \/ PickUp \/ FallBack
Fairness == WF_vars(Starting) /\ WF_vars(JoinOk \/ JoinError) /\ \A d \in Dirs : WF_vars(RelayStep(d))

Spec == Init /\ [][Next]_vars /\ Fairness

-----------------------------------------------------------------------------
(* Properties *)

\* Each direction is a reliable byte stream.
ImplementsByteStreams == Up!Spec /\ Down!Spec

\* Nothing is counted that was not delivered, and what is delivered but not
\* yet counted is part of one chunk; a relay that ends well has counted all.
CountsFollowDelivery ==
    \A d \in Dirs :
        /\ counted[d] <= Len(out[d])
        /\ Len(out[d]) - counted[d] <= chunk[d]
        /\ relay = "ok" => counted[d] = written[d] /\ Len(out[d]) = written[d]

Over == relay \in {"ok", "error"}

\* Liveness: what a peer writes is delivered and counted, and its half-close
\* passed on, although the other direction stays open and silent.  The relay
\* ends once neither peer can send any more: each has
\* closed its side, or both sockets are reset.  Under try_join! one peer is
\* enough whose socket is reset before it has closed its side.  (After a
\* close it is not: the relay then waits for the other peer, and would notice the
\* reset when it writes.)
RelayProgresses ==
    /\ \A d \in Dirs :
          /\ closed[d] ~> fin[d] \/ reset # {} \/ Over
          /\ \A n \in 1 .. MaxBytes :
                written[d] >= n ~> counted[d] >= n \/ reset # {} \/ Over
    /\ (\A d \in Dirs : closed[d]) ~> Over
    /\ reset = {"client", "upstream"} ~> Over
    /\ \A d \in Dirs : tryJoin /\ relay = "running" /\ Src(d) \in reset /\ ~fin[d] ~> Over
=============================================================================
