------------------------------- MODULE Sockets -------------------------------
(***************************************************************************)
(* The two sockets of a relayed connection, as the relays of                *)
(* crates/prism/src/relay see them: what the peers write, close and reset,  *)
(* and what the relay has taken from one and put into the other.  Bytes are *)
(* numbered per direction, so that loss and reordering can be told.         *)
(* The peers are outside the program.                                       *)
(***************************************************************************)
EXTENDS Integers, Sequences

CONSTANT MaxBytes   \* bound: bytes a peer writes

ASSUME SocketsAssumption == MaxBytes \in Nat

Dirs == {"up", "down"}
Src(d) == IF d = "up" THEN "client" ELSE "upstream"
Dst(d) == IF d = "up" THEN "upstream" ELSE "client"

VARIABLES
    written,   \* per direction: bytes the source peer has written
    closed,    \* per direction: the source peer has closed its side
    reset,     \* sockets whose connection is reset: reads and writes fail
    taken,     \* per direction: bytes the relay has read off the source
    out,       \* per direction: bytes put into the destination, in order
    fin        \* per direction: the destination's write side is shut down

peerVars == <<written, closed, reset>>
relayEnds == <<taken, out, fin>>
socketVars == <<peerVars, relayEnds>>

SocketsTypeOK ==
    /\ written \in [Dirs -> 0 .. MaxBytes]
    /\ closed \in [Dirs -> BOOLEAN]
    /\ reset \subseteq {"client", "upstream"}
    /\ taken \in [Dirs -> 0 .. MaxBytes]
    /\ DOMAIN out = Dirs
    /\ \A d \in Dirs : Len(out[d]) <= MaxBytes
    /\ fin \in [Dirs -> BOOLEAN]

SocketsInit ==
    /\ written = [d \in Dirs |-> 0]
    /\ closed = [d \in Dirs |-> FALSE]
    /\ reset = {}
    /\ taken = [d \in Dirs |-> 0]
    /\ out = [d \in Dirs |-> <<>>]
    /\ fin = [d \in Dirs |-> FALSE]

PeerWrite(d) == /\ ~closed[d] /\ Src(d) \notin reset
                /\ written[d] < MaxBytes
                /\ written' = [written EXCEPT ![d] = @ + 1]
                /\ UNCHANGED <<closed, reset>>

PeerClose(d) == /\ ~closed[d] /\ Src(d) \notin reset
                /\ closed' = [closed EXCEPT ![d] = TRUE]
                /\ UNCHANGED <<written, reset>>

PeerReset(s) == /\ s \notin reset
                /\ reset' = reset \cup {s}
                /\ UNCHANGED <<written, closed>>

PeerStep == \/ \E d \in Dirs : PeerWrite(d) \/ PeerClose(d)
            \/ \E s \in {"client", "upstream"} : PeerReset(s)

\* What the relay finds when it uses a socket.
Readable(d) == Src(d) \notin reset /\ taken[d] < written[d]
AtEof(d) == Src(d) \notin reset /\ closed[d] /\ taken[d] = written[d]
WouldBlock(d) == Src(d) \notin reset /\ ~closed[d] /\ taken[d] = written[d]
ReadFails(d) == Src(d) \in reset
Writable(d) == Dst(d) \notin reset
WriteFails(d) == Dst(d) \in reset

\* The next n bytes of direction d.
Chunk(d, n) == [i \in 1 .. n |-> taken[d] + i]

\* A read returns at least one byte and at most what is there.
ReadSizes(d) == 1 .. (written[d] - taken[d])

Up == INSTANCE ByteStream WITH
         written <- written["up"], closed <- closed["up"],
         delivered <- out["up"], ended <- fin["up"]

Down == INSTANCE ByteStream WITH
           written <- written["down"], closed <- closed["down"],
           delivered <- out["down"], ended <- fin["down"]
=============================================================================
