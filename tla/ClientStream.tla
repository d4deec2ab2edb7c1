----------------------------- MODULE ClientStream -----------------------------
(***************************************************************************)
(* A client's bytes on their way from its socket to the upstream: the       *)
(* first byte, the frames that PacketIo (prism-minecraft/src/packet_io.rs)   *)
(* puts together from whatever chunks arrive, the decoding of the login     *)
(* start (protocol.rs), the two packets the upstream is sent instead        *)
(* (transport/handle.rs, proxy.rs), and the relay that goes on with what is *)
(* then left in the socket.                                                 *)
(*                                                                          *)
(* Bytes are positions in the client's stream.  Their values matter where   *)
(* the code looks at them: in the length prefixes, written in base Base     *)
(* instead of 128, and in what follows the name in a login start, with      *)
(* UUIDs of UuidLen bytes instead of 16.                                    *)
(***************************************************************************)
EXTENDS Integers, Sequences

CONSTANTS
    Base,            \* VarInts have digits below Base, Base instead of 128
    UuidLen,         \* bytes of a UUID
    HandshakeLens,   \* lengths of the handshakes that clients send
    MaxHandshake,    \* MAX_HANDSHAKE_PACKET_SIZE
    MaxLogin,        \* MAX_LOGIN_PACKET_SIZE
    BufferSize,      \* network.buffer.packet_read_buffer_size
    Trailing         \* bound: bytes a client sends after its login start

ASSUME StreamAssumption ==
    /\ {UuidLen, MaxHandshake, MaxLogin, BufferSize, Trailing} \subseteq Nat
    /\ Base \in Nat /\ Base > 2 /\ UuidLen > 1
    /\ HandshakeLens \subseteq 1 .. (Base * Base - 1)

\* 0xFE in base 128 is the digit before the last one, continued.
LegacyByte == 2 * Base - 2

\* No UUID.
Absent == <<>>

-----------------------------------------------------------------------------
(* What a client sends *)

\* What follows the name in the login start of the versions: nothing up to
\* 1.18; a flag and perhaps a UUID in 1.19.3 to 1.20.1; a UUID since 1.20.2;
\* before the flag, in 1.19.1, another flag for a signature.
Uuids == {u \in [1 .. UuidLen -> 0 .. 2] : \A i \in 2 .. UuidLen : u[i] = 2}
Rests == [nameOnly  |-> {<<>>},
          noUuid    |-> {<<0>>},
          flagged   |-> {<<1>> \o u : u \in Uuids},
          bare      |-> Uuids,
          signable  |-> {<<0, 1>> \o u : u \in Uuids},
          oversized |-> {[i \in 1 .. MaxLogin |-> 2]}]

Logins == {[intent |-> "login", len |-> n, padded |-> p, suffix |-> s,
            format |-> f, rest |-> r, pipelines |-> q] :
              n \in HandshakeLens, p \in BOOLEAN, s \in BOOLEAN,
              f \in DOMAIN Rests, r \in UNION {Rests[f] : f \in DOMAIN Rests}, q \in BOOLEAN}
Others == {[intent |-> i, len |-> n, padded |-> FALSE, suffix |-> FALSE,
            format |-> "nameOnly", rest |-> <<>>, pipelines |-> FALSE] :
              i \in {"status", "magic", "unknown"}, n \in HandshakeLens}
Clients == {c \in Logins : c.rest \in Rests[c.format]} \cup Others

\* The UUID a format carries, and where it is.
SentUuid(c) == CASE c.format = "flagged" -> Tail(c.rest)
                 [] c.format = "bare" -> c.rest
                 [] c.format = "signable" -> Tail(Tail(c.rest))
                 [] OTHER -> Absent

\* The length prefix of a packet; a client may pad it.
Prefix(n, padded) == IF n < Base /\ ~padded THEN <<n>>
                     ELSE <<Base + (n % Base), n \div Base>>

Zeroes(n) == [i \in 1 .. n |-> 0]
LoginBody(c) == Zeroes(2) \o c.rest      \* packet id, name
First(c) == Prefix(c.len, c.padded)
Second(c) == Prefix(Len(LoginBody(c)), c.padded)

Stream(c) == First(c) \o Zeroes(c.len) \o Second(c) \o LoginBody(c) \o Zeroes(Trailing)

From(i, n) == [j \in 1 .. n |-> i + j]
HandshakeEnd(c) == Len(First(c)) + c.len
LoginEnd(c) == HandshakeEnd(c) + Len(Second(c)) + Len(LoginBody(c))

\* The positions of the bodies of the client's first two packets.
SentFrames(c) == <<From(Len(First(c)), c.len),
                   From(HandshakeEnd(c) + Len(Second(c)), Len(LoginBody(c)))>>

-----------------------------------------------------------------------------
VARIABLES
    client,    \* the packets the client is going to send
    stream,    \* its bytes
    sent,      \* how much of it has arrived
    closed,    \* the client has closed its side
    taken,     \* bytes read from the socket
    decoder,   \* PacketDecoder: bytes queued and not consumed
    frames,    \* bodies of the packets that were read
    profile,   \* LoginHelloInfo.profile_id
    hello,     \* the two packets the upstream has been sent instead
    relayed,   \* what the relay has passed on
    stage

clientVars == <<client, stream, sent, closed>>
vars == <<clientVars, taken, decoder, frames, profile, hello, relayed, stage>>

Ends == {"legacy", "status", "magic", "denied", "closed", "eof", "timeout",
         "malformed", "tooLarge", "unreachable"}

TypeOK ==
    /\ client \in Clients /\ stream = Stream(client)
    /\ sent \in 0 .. Len(stream)
    /\ closed \in BOOLEAN
    /\ taken \in 0 .. sent
    /\ \A i \in DOMAIN decoder : decoder[i] \in 1 .. taken
    /\ Len(frames) <= 2
    /\ profile \in Seq(0 .. 2)
    /\ \A i \in DOMAIN relayed : relayed[i] \in 1 .. taken
    /\ stage \in {"firstByte", "handshake", "loginStart", "join", "connect", "relay"} \cup Ends

Init ==
    /\ client \in Clients
    /\ stream = Stream(client)
    /\ sent = 0
    /\ closed = FALSE
    /\ taken = 0
    /\ decoder = <<>>
    /\ frames = <<>>
    /\ profile = Absent
    /\ hello = <<>>
    /\ relayed = <<>>
    /\ stage = "firstByte"

Go(from, to) == stage = from /\ stage' = to

\* The client is sent nothing before the upstream has its login start, and
\* most clients wait for that before they send more.
ClientSends ==
    /\ ~closed
    /\ sent < Len(stream)
    /\ sent < LoginEnd(client) \/ client.pipelines \/ stage = "relay"
    /\ sent' = sent + 1
    /\ UNCHANGED <<client, stream, closed, taken, decoder, frames, profile, hello, relayed, stage>>

ClientCloses ==
    /\ ~closed
    /\ closed' = TRUE
    /\ UNCHANGED <<client, stream, sent, taken, decoder, frames, profile, hello, relayed, stage>>

-----------------------------------------------------------------------------
(* PacketDecoder and read_frame *)

Digit(i) == stream[decoder[i]]

\* Length of the prefix at the head of the decoder; 0 if it is not there yet.
PrefixLen == IF decoder = <<>> THEN 0
             ELSE IF Digit(1) < Base THEN 1
             ELSE IF Len(decoder) = 1 THEN 0 ELSE 2
BodyLen == IF PrefixLen = 1 THEN Digit(1) ELSE (Digit(1) % Base) + Digit(2) * Base

\* try_next_packet would return a packet.
FrameReady == PrefixLen > 0 /\ Len(decoder) >= PrefixLen + BodyLen
Body == SubSeq(decoder, PrefixLen + 1, PrefixLen + BodyLen)
Rest == SubSeq(decoder, PrefixLen + BodyLen + 1, Len(decoder))

\* The size that is checked is that of a canonical encoding.
WireLen(n) == n + Len(Prefix(n, FALSE))

\* Faulty: refuses a packet of just the maximal size.
FitsBelow(max) == WireLen(BodyLen) < max
Fits(max) == WireLen(BodyLen) <= max

Chunks == 1 .. (IF BufferSize < sent - taken THEN BufferSize ELSE sent - taken)

\* Faulty: queues the whole buffer, of which the read has filled a part.
ReadWholeBuffer ==
    /\ stage \in {"handshake", "loginStart"} /\ ~FrameReady
    /\ \E n \in Chunks :
          /\ taken' = taken + n
          /\ decoder' = decoder \o From(taken, BufferSize)
    /\ UNCHANGED <<clientVars, frames, profile, hello, relayed, stage>>

\* The reader has some bytes; the client may have sent more than its packet.
Read ==
    /\ stage \in {"handshake", "loginStart"} /\ ~FrameReady
    /\ \E n \in Chunks :
          /\ taken' = taken + n
          /\ decoder' = decoder \o From(taken, n)
    /\ UNCHANGED <<clientVars, frames, profile, hello, relayed, stage>>

\* read returns 0 at the end of the stream, and into an empty buffer.
ReadEof ==
    /\ stage \in {"handshake", "loginStart"} /\ ~FrameReady
    /\ (closed /\ taken = sent) \/ BufferSize = 0
    /\ stage' = "eof"
    /\ UNCHANGED <<clientVars, taken, decoder, frames, profile, hello, relayed>>

TooLarge(from, max) ==
    /\ FrameReady /\ ~Fits(max)
    /\ Go(from, "tooLarge")
    /\ decoder' = Rest
    /\ UNCHANGED <<clientVars, taken, frames, profile, hello, relayed>>

TakeFrame(from, to, max) ==
    /\ FrameReady /\ Fits(max)
    /\ Go(from, to)
    /\ decoder' = Rest
    /\ frames' = Append(frames, Body)
    /\ UNCHANGED <<clientVars, taken, hello, relayed>>

-----------------------------------------------------------------------------
(* handle_client *)

\* One byte is read alone and looked at.
FirstByte ==
    /\ sent >= 1
    /\ taken' = 1
    /\ IF stream[1] = LegacyByte
       THEN Go("firstByte", "legacy") /\ UNCHANGED decoder
       ELSE Go("firstByte", "handshake") /\ decoder' = <<1>>
    /\ UNCHANGED <<clientVars, frames, profile, hello, relayed>>

NoFirstByte ==
    /\ closed /\ sent = 0
    /\ Go("firstByte", "eof")
    /\ UNCHANGED <<clientVars, taken, decoder, frames, profile, hello, relayed>>

\* The first byte and the handshake are read under first_packet_timeout_ms;
\* what has arrived when the timer fires is still looked at first.
TimedOut ==
    /\ \/ Go("firstByte", "timeout") /\ sent = 0
       \/ Go("handshake", "timeout") /\ ~FrameReady /\ taken = sent
    /\ UNCHANGED <<clientVars, taken, decoder, frames, profile, hello, relayed>>

\* By the id of the packet, then by the intent of the handshake; Transfer
\* is taken for a login.
Handshake ==
    /\ TakeFrame("handshake",
                 CASE client.intent = "unknown" -> "malformed"
                   [] client.intent = "login" -> "loginStart"
                   [] OTHER -> client.intent,
                 MaxHandshake)
    /\ UNCHANGED profile

-----------------------------------------------------------------------------
(* decode_login_hello *)

Take(s, n) == SubSeq(s, 1, n)

\* decode_uuid_with_flag, whose errors count as no UUID.
FlaggedUuid(rest) == IF rest[1] # 0 /\ Len(rest) > UuidLen
                     THEN Take(Tail(rest), UuidLen) ELSE Absent

\* The library's LoginHelloC2s: one flag, a UUID behind it if it is set, and
\* nothing more.
HelloDecodes(rest) == rest = <<0>> \/ (Len(rest) = UuidLen + 1 /\ rest[1] = 1)

\* Faulty: every rest that is long enough starts with a UUID.
ProfileIdBare(rest) ==
    IF Len(rest) >= UuidLen THEN Take(rest, UuidLen) ELSE Absent

ProfileId(rest) ==
    CASE HelloDecodes(rest) -> FlaggedUuid(rest)
      [] rest = <<>> -> Absent
      [] Len(rest) = UuidLen + 1 /\ rest[1] \in {0, 1} -> FlaggedUuid(rest)
      [] Len(rest) \in 1 .. UuidLen - 1 -> FlaggedUuid(rest)
      [] OTHER -> Take(rest, UuidLen)

\* The values of what follows packet id and name.
RestOf(body) == [i \in 1 .. Len(body) - 2 |-> stream[body[i + 2]]]

LoginStart ==
    /\ TakeFrame("loginStart", "join", MaxLogin)
    /\ profile' = ProfileId(RestOf(Body))

-----------------------------------------------------------------------------
(* on_login and proxy_connection *)

Denied ==
    /\ Go("join", "denied")
    /\ UNCHANGED <<clientVars, taken, decoder, frames, profile, hello, relayed>>

Allowed ==
    /\ Go("join", "connect")
    /\ UNCHANGED <<clientVars, taken, decoder, frames, profile, hello, relayed>>

Unreachable ==
    /\ Go("connect", "unreachable")
    /\ UNCHANGED <<clientVars, taken, decoder, frames, profile, hello, relayed>>

\* rewrite_addr puts the address of the route in the place of the host, and
\* keeps what follows a NUL in it.
RewriteAddr(addr) == [host |-> addr, suffix |-> client.suffix]

\* The upstream gets the rewritten handshake and the login start, encoded
\* anew.  The decoder is dropped with the handler's PacketIo.
HelloSent ==
    /\ Go("connect", "relay")
    /\ \E addr \in {"target", "rewrite"} :
          hello' = <<RewriteAddr(addr), frames[2]>>
    /\ UNCHANGED <<clientVars, taken, decoder, frames, profile, relayed>>

\* Faulty: the relay begins with what is in the decoder, and keeps it there.
RelayFromDecoder ==
    /\ stage = "relay"
    /\ taken < sent
    /\ taken' = taken + 1
    /\ relayed' = relayed \o decoder \o <<taken + 1>>
    /\ UNCHANGED <<clientVars, decoder, frames, profile, hello, stage>>

\* The relay starts with what is left in the socket.
Relay ==
    /\ stage = "relay"
    /\ taken < sent
    /\ taken' = taken + 1
    /\ relayed' = Append(relayed, taken + 1)
    /\ UNCHANGED <<clientVars, decoder, frames, profile, hello, stage>>

RelayEof ==
    /\ closed /\ taken = sent
    /\ Go("relay", "closed")
    /\ UNCHANGED <<clientVars, taken, decoder, frames, profile, hello, relayed>>

-----------------------------------------------------------------------------
Reading == \/ FirstByte \/ NoFirstByte
           \/ Read \/ ReadEof
           \/ TooLarge("handshake", MaxHandshake) \/ TooLarge("loginStart", MaxLogin)
           \/ Handshake \/ LoginStart

Next == \/ ClientSends \/ ClientCloses
        \/ Reading \/ TimedOut
        \/ Denied \/ Allowed \/ Unreachable \/ HelloSent
        \/ Relay \/ RelayEof

\* The handler is scheduled when its socket has something for it.
Spec == Init /\ [][Next]_vars /\ WF_vars(Reading) /\ WF_vars(Relay \/ RelayEof)

-----------------------------------------------------------------------------
(* Properties *)

\* In whatever chunks the bytes come, the packets are the client's, and the
\* decoder holds exactly what was read after them.  The profile id that the
\* API is asked about is the one that was sent, for the formats that the code
\* knows, also if the first byte of a bare UUID looks like a flag; the format
\* of 1.19.1 is not among them.
PacketsAsSent ==
    LET consumed == CASE Len(frames) = 0 -> 0
                      [] Len(frames) = 1 -> HandshakeEnd(client)
                      [] Len(frames) = 2 -> LoginEnd(client)
    IN  /\ frames = SubSeq(SentFrames(client), 1, Len(frames))
        /\ stage \in {"handshake", "loginStart", "join", "connect"} =>
              decoder = From(consumed, taken - consumed)
        /\ Len(frames) = 2 /\ client.format # "signable" => profile = SentUuid(client)

\* The upstream sees the client's host suffix and login start, and after them
\* the client's bytes in order and without a gap, with one exception: bytes
\* that came in one chunk with the login start stay in the decoder.  A client
\* that waits for its answer loses nothing.
UpstreamSeesTheClient ==
    /\ hello # <<>> => /\ hello[1].suffix = client.suffix
                       /\ hello[2] = SentFrames(client)[2]
    /\ relayed = From(LoginEnd(client) + Len(decoder), Len(relayed))
    /\ ~client.pipelines /\ stage = "relay" => decoder = <<>>

\* The client's two packets are what the code can take: a length that does not
\* look like a legacy ping, and sizes within the limits.
Acceptable(c) ==
    /\ c.intent = "login"
    /\ First(c)[1] # LegacyByte
    /\ WireLen(c.len) <= MaxHandshake
    /\ WireLen(Len(LoginBody(c))) <= MaxLogin

\* Liveness: a login that has been sent completely is put to the API, in
\* whatever chunks it came, and although the client may have closed its side,
\* unless a timeout fired while the handshake was not there.
LoginsAreServed ==
    Acceptable(client) /\ sent >= LoginEnd(client) ~>
        stage \in {"join", "denied", "connect", "unreachable", "relay", "closed", "timeout"}
=============================================================================
