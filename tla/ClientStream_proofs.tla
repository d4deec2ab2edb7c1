-------------------------- MODULE ClientStream_proofs --------------------------
(***************************************************************************)
(* Proofs about ClientStream for any base, sizes and limits, for streams of *)
(* any length, and for every way in which the bytes may be cut into chunks; *)
(* and about Motd, the exchange of a client that asks for the status, for   *)
(* every setting and any number of packets.                                 *)
(***************************************************************************)
EXTENDS ClientStream, Motd, SequenceTheorems, TLAPS

(***************************************************************************)
(* Runs of positions                                                        *)
(***************************************************************************)

\* A run is a sequence of its length.
LEMMA FromSeq ==
    ASSUME NEW a \in Nat, NEW n \in Nat
    PROVE  /\ From(a, n) \in Seq(Nat) /\ Len(From(a, n)) = n /\ DOMAIN From(a, n) = 1 .. n
           /\ \A i \in 1 .. n : From(a, n)[i] = a + i
BY DEF From

\* Two runs that meet are one.
LEMMA FromConcat ==
    ASSUME NEW a \in Nat, NEW m \in Nat, NEW n \in Nat
    PROVE  From(a, m) \o From(a + m, n) = From(a, m + n)
<1> DEFINE s == From(a, m)
           t == From(a + m, n)
           u == From(a, m + n)
<1>1. a + m \in Nat /\ m + n \in Nat
  OBVIOUS
<1>2. s \in Seq(Nat) /\ Len(s) = m /\ \A i \in 1 .. m : s[i] = a + i
  BY FromSeq
<1>3. t \in Seq(Nat) /\ Len(t) = n /\ \A i \in 1 .. n : t[i] = (a + m) + i
  BY <1>1, FromSeq
<1>4. u \in Seq(Nat) /\ Len(u) = m + n /\ \A i \in 1 .. m + n : u[i] = a + i
  BY <1>1, FromSeq
<1> HIDE DEF s, t, u
<1>5. /\ s \o t \in Seq(Nat) /\ Len(s \o t) = m + n
      /\ \A i \in 1 .. m + n : (s \o t)[i] = IF i <= m THEN s[i] ELSE t[i - m]
  BY <1>2, <1>3, ConcatProperties
<1>6. ASSUME NEW i \in 1 .. m + n PROVE (s \o t)[i] = u[i]
  <2>1. CASE i <= m
    BY <1>2, <1>4, <1>5, <2>1
  <2>2. CASE ~(i <= m)
    <3>1. i - m \in 1 .. n /\ (a + m) + (i - m) = a + i
      BY <2>2
    <3> QED  BY <1>3, <1>4, <1>5, <2>2, <3>1
  <2> QED  BY <2>1, <2>2
<1>7. s \o t = u
  BY <1>4, <1>5, <1>6, SeqEqual
<1> QED  BY <1>7 DEF s, t, u

\* A run goes on with the next position.
LEMMA FromAppend ==
    ASSUME NEW a \in Nat, NEW n \in Nat
    PROVE  Append(From(a, n), a + n + 1) = From(a, n + 1)
BY DEF From

\* The n elements after the first i.
Part(s, i, n) == SubSeq(s, i + 1, i + n)

\* A part of a run is a run.
LEMMA FromPart ==
    ASSUME NEW a \in Nat, NEW m \in Nat, NEW i \in Nat, NEW n \in Nat, i + n <= m
    PROVE  Part(From(a, m), i, n) = From(a + i, n)
BY DEF From, Part

(***************************************************************************)
(* What a client sends                                                      *)
(***************************************************************************)

\* What follows the name in each format.
LEMMA RestsByFormat ==
    /\ DOMAIN Rests = {"nameOnly", "noUuid", "flagged", "bare", "signable", "oversized"}
    /\ Rests["nameOnly"] = {<<>>}
    /\ Rests["noUuid"] = {<<0>>}
    /\ Rests["flagged"] = {<<1>> \o u : u \in Uuids}
    /\ Rests["bare"] = Uuids
    /\ Rests["signable"] = {<<0, 1>> \o u : u \in Uuids}
    /\ Rests["oversized"] = {[i \in 1 .. MaxLogin |-> 2]}
BY DEF Rests

\* The parts of a client.
LEMMA ClientTypes ==
    ASSUME NEW c \in Clients
    PROVE  /\ c.len \in Nat /\ c.padded \in BOOLEAN
           /\ c.format \in DOMAIN Rests /\ c.rest \in Rests[c.format]
<1>1. HandshakeLens \subseteq Nat
  BY StreamAssumption
<1>2. CASE c \in Logins /\ c.rest \in Rests[c.format]
  BY <1>1, <1>2 DEF Logins
<1>3. CASE c \in Others
  <2>1. c.len \in Nat /\ c.padded = FALSE /\ c.format = "nameOnly" /\ c.rest = <<>>
    BY <1>1, <1>3 DEF Others
  <2> QED  BY <2>1, RestsByFormat
<1> QED  BY <1>2, <1>3 DEF Clients

\* UUIDs are sequences.
LEMMA UuidTypes == \A u \in Uuids : u \in Seq(0 .. 2) /\ Len(u) = UuidLen
BY StreamAssumption DEF Uuids

\* So is what follows a name.
LEMMA RestTypes == ASSUME NEW c \in Clients PROVE c.rest \in Seq(0 .. 2)
<1>1. CASE c.format \in {"nameOnly", "noUuid"}
  <2>1. <<>> \in Seq(0 .. 2) /\ <<0>> \in Seq(0 .. 2)
    OBVIOUS
  <2>2. c.rest = <<>> \/ c.rest = <<0>>
    BY <1>1, ClientTypes, RestsByFormat
  <2> QED  BY <2>1, <2>2
<1>2. CASE c.format \in {"flagged", "bare", "signable"}
  <2>1. <<1>> \in Seq(0 .. 2) /\ <<0, 1>> \in Seq(0 .. 2)
    OBVIOUS
  <2>2. PICK u \in Uuids : c.rest = <<1>> \o u \/ c.rest = u \/ c.rest = <<0, 1>> \o u
    <3>1. c.rest \in Rests[c.format]
      BY ClientTypes
    <3>2. CASE c.format = "flagged"
      BY <3>1, <3>2, RestsByFormat
    <3>3. CASE c.format = "bare"
      BY <3>1, <3>3, RestsByFormat
    <3>4. CASE c.format = "signable"
      BY <3>1, <3>4, RestsByFormat
    <3> QED  BY <1>2, <3>2, <3>3, <3>4
  <2>3. u \in Seq(0 .. 2)
    BY UuidTypes
  <2>4. <<1>> \o u \in Seq(0 .. 2) /\ <<0, 1>> \o u \in Seq(0 .. 2)
    BY <2>1, <2>3, ConcatProperties
  <2> QED  BY <2>2, <2>3, <2>4
<1>3. CASE c.format = "oversized"
  <2>1. MaxLogin \in Nat
    BY StreamAssumption
  <2>2. [i \in 1 .. MaxLogin |-> 2] \in Seq(0 .. 2)
    BY <2>1
  <2> QED  BY <1>3, <2>2, ClientTypes, RestsByFormat
<1> QED  BY <1>1, <1>2, <1>3, ClientTypes, RestsByFormat

\* A length prefix has one or two digits, and says the length.
LEMMA PrefixDigits ==
    ASSUME NEW n \in Nat, NEW padded \in BOOLEAN
    PROVE  LET q == Prefix(n, padded)
           IN  /\ q \in Seq(Nat) /\ Len(q) \in {1, 2}
               /\ Len(q) = 1 => q[1] < Base /\ q[1] = n
               /\ Len(q) = 2 => q[1] >= Base /\ (q[1] % Base) + q[2] * Base = n
<1>1. Base \in Nat /\ Base > 2
  BY StreamAssumption
<1>2. /\ n % Base \in 0 .. Base - 1 /\ n \div Base \in Nat
      /\ n = (n \div Base) * Base + (n % Base)
  BY <1>1
<1>3. (Base + (n % Base)) % Base = n % Base
  BY <1>1, <1>2
<1>4. CASE n < Base /\ ~padded
  BY <1>4 DEF Prefix
<1>5. CASE ~(n < Base /\ ~padded)
  <2> DEFINE lo == Base + (n % Base)
             hi == n \div Base
  <2>1. lo \in Nat /\ hi \in Nat /\ lo >= Base /\ (lo % Base) + hi * Base = n
    BY <1>1, <1>2, <1>3
  <2>2. Prefix(n, padded) = <<lo, hi>>
    BY <1>5 DEF Prefix
  <2> HIDE DEF lo, hi
  <2> QED  BY <2>1, <2>2
<1> QED  BY <1>4, <1>5

\* The sequence s stands in w after the first k elements.
At(w, k, s) == \A i \in 1 .. Len(s) : w[k + i] = s[i]

\* The parts of a concatenation stand one after the other.
LEMMA ConcatParts ==
    ASSUME NEW S, NEW s \in Seq(S), NEW t \in Seq(S)
    PROVE  /\ s \o t \in Seq(S) /\ Len(s \o t) = Len(s) + Len(t)
           /\ At(s \o t, 0, s) /\ At(s \o t, Len(s), t)
<1>1. /\ s \o t \in Seq(S) /\ Len(s \o t) = Len(s) + Len(t)
      /\ \A i \in 1 .. Len(s) + Len(t) :
            (s \o t)[i] = IF i <= Len(s) THEN s[i] ELSE t[i - Len(s)]
  BY ConcatProperties
<1>2. Len(s) \in Nat /\ Len(t) \in Nat
  OBVIOUS
<1>3. ASSUME NEW i \in 1 .. Len(s) PROVE (s \o t)[0 + i] = s[i]
  <2>1. i \in 1 .. Len(s) + Len(t) /\ i <= Len(s) /\ 0 + i = i
    BY <1>2
  <2> QED  BY <1>1, <2>1
<1>4. ASSUME NEW i \in 1 .. Len(t) PROVE (s \o t)[Len(s) + i] = t[i]
  <2>1. Len(s) + i \in 1 .. Len(s) + Len(t) /\ ~(Len(s) + i <= Len(s)) /\ (Len(s) + i) - Len(s) = i
    BY <1>2
  <2> QED  BY <1>1, <2>1
<1> QED  BY <1>1, <1>3, <1>4 DEF At

\* What stands in the first part of a sequence stands in it.
LEMMA AtFirst ==
    ASSUME NEW x \in Seq(Nat), NEW w, At(w, 0, x),
           NEW s \in Seq(Nat), NEW k \in Nat, At(x, k, s), k + Len(s) <= Len(x)
    PROVE  At(w, k, s)
<1> SUFFICES ASSUME NEW i \in 1 .. Len(s) PROVE w[k + i] = s[i]
  BY DEF At
<1>1. k + i \in 1 .. Len(x) /\ 0 + (k + i) = k + i
  BY Len(x) \in Nat, Len(s) \in Nat
<1>2. w[0 + (k + i)] = x[k + i]
  BY <1>1 DEF At
<1>3. x[k + i] = s[i]
  BY DEF At
<1> QED  BY <1>1, <1>2, <1>3

\* The body of a login start is two bytes and the rest.
LEMMA BodyTypes ==
    ASSUME NEW c \in Clients
    PROVE  /\ LoginBody(c) \in Seq(Nat) /\ Len(LoginBody(c)) = Len(c.rest) + 2
           /\ \A i \in 1 .. Len(c.rest) : LoginBody(c)[i + 2] = c.rest[i]
<1>1. c.rest \in Seq(Nat)
  BY RestTypes
<1>2. Zeroes(2) \in Seq(Nat) /\ Len(Zeroes(2)) = 2
  BY DEF Zeroes
<1> DEFINE z == Zeroes(2)
           r == c.rest
<1> HIDE DEF z, r
<1>3. /\ z \o r \in Seq(Nat) /\ Len(z \o r) = Len(z) + Len(r)
      /\ At(z \o r, Len(z), r)
  BY <1>1, <1>2, ConcatParts DEF z, r
<1>4. LoginBody(c) = z \o r
  BY DEF LoginBody, z, r
<1>5. Len(z) = 2 /\ Len(r) \in Nat
  BY <1>1, <1>2 DEF z, r
<1>6. \A i \in 1 .. Len(r) : Len(z) + i = i + 2
  BY <1>5
<1>7. \A i \in 1 .. Len(r) : LoginBody(c)[i + 2] = r[i]
  BY <1>3, <1>4, <1>6 DEF At
<1> QED  BY <1>3, <1>4, <1>5, <1>7 DEF r

\* So are the parts of five sequences, of which the first, the third and the
\* fourth matter.
LEMMA FiveParts ==
    ASSUME NEW f \in Seq(Nat), NEW z \in Seq(Nat), NEW s \in Seq(Nat), NEW b \in Seq(Nat),
           NEW e \in Seq(Nat)
    PROVE  LET w == f \o z \o s \o b \o e
           IN  /\ Len(w) = Len(f) + Len(z) + Len(s) + Len(b) + Len(e)
               /\ At(w, 0, f) /\ At(w, Len(f) + Len(z), s)
               /\ At(w, Len(f) + Len(z) + Len(s), b)
<1>1. PICK h, x, y, w : h = f \o z /\ x = h \o s /\ y = x \o b /\ w = y \o e
  OBVIOUS
<1>2. h \in Seq(Nat) /\ Len(h) = Len(f) + Len(z) /\ At(h, 0, f)
  BY <1>1, ConcatParts
<1>3. x \in Seq(Nat) /\ Len(x) = Len(h) + Len(s) /\ At(x, 0, h) /\ At(x, Len(h), s)
  BY <1>1, <1>2, ConcatParts
<1>4. y \in Seq(Nat) /\ Len(y) = Len(x) + Len(b) /\ At(y, 0, x) /\ At(y, Len(x), b)
  BY <1>1, <1>3, ConcatParts
<1>5. Len(w) = Len(y) + Len(e) /\ At(w, 0, y)
  BY <1>1, <1>4, ConcatParts
<1>6. Len(f) \in Nat /\ Len(z) \in Nat /\ Len(s) \in Nat /\ Len(b) \in Nat /\ Len(e) \in Nat
  OBVIOUS
<1>7. /\ Len(h) \in Nat /\ Len(x) \in Nat /\ Len(y) \in Nat
      /\ 0 + Len(f) <= Len(h) /\ 0 + Len(h) <= Len(x) /\ 0 + Len(x) <= Len(y)
      /\ Len(h) + Len(s) <= Len(x) /\ Len(x) + Len(b) <= Len(y)
  BY <1>2, <1>3, <1>4, <1>6
<1>8. At(w, 0, x)
  BY <1>3, <1>4, <1>5, <1>7, AtFirst
<1>9. At(w, 0, h)
  BY <1>2, <1>3, <1>7, <1>8, AtFirst
<1>10. At(w, 0, f) /\ At(w, Len(h), s) /\ At(w, Len(x), b)
  BY <1>2, <1>3, <1>4, <1>5, <1>7, <1>8, <1>9, AtFirst
<1>11. /\ Len(h) = Len(f) + Len(z) /\ Len(x) = Len(f) + Len(z) + Len(s)
       /\ Len(w) = Len(f) + Len(z) + Len(s) + Len(b) + Len(e)
  BY <1>2, <1>3, <1>4, <1>5, <1>6
<1> QED  BY <1>1, <1>10, <1>11

\* The two prefixes and the login start are where the client counts them.
LEMMA StreamParts ==
    ASSUME NEW c \in Clients
    PROVE  /\ Len(First(c)) \in Nat /\ Len(Second(c)) \in Nat
           /\ HandshakeEnd(c) \in Nat /\ LoginEnd(c) \in Nat /\ Len(LoginBody(c)) \in Nat
           /\ HandshakeEnd(c) = Len(First(c)) + c.len
           /\ Len(Stream(c)) = LoginEnd(c) + Trailing
           /\ At(Stream(c), 0, First(c))
           /\ At(Stream(c), HandshakeEnd(c), Second(c))
           /\ At(Stream(c), HandshakeEnd(c) + Len(Second(c)), LoginBody(c))
<1> DEFINE f == First(c)
           z == Zeroes(c.len)
           s == Second(c)
           b == LoginBody(c)
           e == Zeroes(Trailing)
<1>1. b \in Seq(Nat) /\ Len(b) \in Nat
  BY BodyTypes
<1>2. f \in Seq(Nat) /\ s \in Seq(Nat)
  BY <1>1, ClientTypes, PrefixDigits DEF First, Second
<1>3. /\ z \in Seq(Nat) /\ Len(z) = c.len /\ c.len \in Nat
      /\ e \in Seq(Nat) /\ Len(e) = Trailing /\ Trailing \in Nat
  BY ClientTypes, StreamAssumption DEF Zeroes
<1>4. Stream(c) = f \o z \o s \o b \o e
  BY DEF Stream
<1>5. HandshakeEnd(c) = Len(f) + Len(z) /\ LoginEnd(c) = HandshakeEnd(c) + Len(s) + Len(b)
  BY <1>3 DEF HandshakeEnd, LoginEnd
<1> HIDE DEF f, z, s, b, e
<1>6. Len(f) \in Nat /\ Len(s) \in Nat /\ Len(z) \in Nat
  BY <1>2, <1>3
<1>7. LET w == f \o z \o s \o b \o e
      IN  /\ Len(w) = Len(f) + Len(z) + Len(s) + Len(b) + Len(e)
          /\ At(w, 0, f) /\ At(w, Len(f) + Len(z), s)
          /\ At(w, Len(f) + Len(z) + Len(s), b)
  BY <1>1, <1>2, <1>3, FiveParts
<1>8. HandshakeEnd(c) = Len(f) + c.len
  BY <1>3, <1>5
<1> QED  BY <1>1, <1>3, <1>4, <1>5, <1>6, <1>7, <1>8 DEF f, s, b

(***************************************************************************)
(* Reading a frame                                                          *)
(***************************************************************************)

\* When the decoder begins with the prefix of a packet of n bytes and holds
\* a frame, that is the packet, and what is left comes after it.
LEMMA FrameAt ==
    ASSUME NEW k \in Nat, NEW m \in Nat, decoder = From(k, m),
           NEW n \in Nat, NEW padded \in BOOLEAN,
           At(stream, k, Prefix(n, padded)), FrameReady
    PROVE  /\ BodyLen = n /\ Len(Prefix(n, padded)) + n <= m
           /\ Body = From(k + Len(Prefix(n, padded)), n)
           /\ Rest = From(k + Len(Prefix(n, padded)) + n, m - (Len(Prefix(n, padded)) + n))
<1> DEFINE q == Prefix(n, padded)
<1>1. /\ q \in Seq(Nat) /\ Len(q) \in {1, 2}
      /\ Len(q) = 1 => q[1] < Base /\ q[1] = n
      /\ Len(q) = 2 => q[1] >= Base /\ (q[1] % Base) + q[2] * Base = n
  BY PrefixDigits
<1>2. \A i \in 1 .. Len(q) : stream[k + i] = q[i]
  BY DEF At
<1> HIDE DEF q
<1>3. Base \in Nat /\ q[1] \in Nat
  BY <1>1, StreamAssumption
<1>4. Len(decoder) = m /\ \A i \in 1 .. m : decoder[i] = k + i
  BY FromSeq
<1>5. decoder # <<>> /\ PrefixLen > 0 /\ m >= PrefixLen + BodyLen
  BY <1>4 DEF FrameReady, PrefixLen
<1>6. m >= 1
  BY <1>4, <1>5, EmptySeq, FromSeq
<1>7. Digit(1) = q[1]
  <2>1. 1 \in 1 .. Len(q) /\ 1 \in 1 .. m
    BY <1>1, <1>6
  <2> QED  BY <1>2, <1>4, <2>1 DEF Digit
<1>8. PrefixLen = Len(q) /\ BodyLen = n
  <2>1. CASE Len(q) = 1
    BY <1>1, <1>5, <1>7, <2>1 DEF PrefixLen, BodyLen
  <2>2. CASE Len(q) = 2
    <3>1. ~(Digit(1) < Base)
      BY <1>1, <1>3, <1>7, <2>2
    <3>2. PrefixLen = 2 /\ m >= 2
      BY <1>4, <1>5, <1>6, <3>1 DEF PrefixLen
    <3>3. Digit(2) = q[2]
      BY <1>2, <1>4, <2>2, <3>2 DEF Digit
    <3> QED  BY <1>1, <1>7, <2>2, <3>2, <3>3 DEF BodyLen
  <2> QED  BY <1>1, <2>1, <2>2
<1>9. Len(q) \in Nat /\ Len(q) + n \in Nat /\ Len(q) + n <= m
  BY <1>1, <1>5, <1>8
<1>10. Body = From(k + Len(q), n)
  <2>1. PICK p \in Nat : p = Len(q)
    BY <1>9
  <2>2. Body = Part(decoder, p, n)
    BY <1>8, <2>1 DEF Body, Part
  <2>3. p + n <= m /\ k + p = k + Len(q)
    BY <1>9, <2>1
  <2>4. Part(From(k, m), p, n) = From(k + p, n)
    BY <2>3, FromPart
  <2> QED  BY <2>2, <2>3, <2>4
<1>11. Rest = From(k + Len(q) + n, m - (Len(q) + n))
  <2>1. PICK p \in Nat : p = Len(q) + n
    <3>1. Len(q) + n \in Nat
      BY <1>9
    <3> QED  BY <3>1, Zenon
  <2>2. PICK l \in Nat : l = m - p
    <3>1. m - p \in Nat
      BY <1>9, <2>1
    <3> QED  BY <3>1, Zenon
  <2>3. p + l = m /\ k + p = k + Len(q) + n
    BY <1>9, <2>1, <2>2
  <2>4. Rest = Part(decoder, p, l)
    BY <1>4, <1>8, <2>1, <2>3 DEF Rest, Part
  <2>5. Part(From(k, m), p, l) = From(k + p, l)
    BY <2>3, FromPart
  <2> QED  BY <2>1, <2>2, <2>3, <2>4, <2>5
<1> QED  BY <1>8, <1>9, <1>10, <1>11 DEF q

(***************************************************************************)
(* The profile of a login start                                             *)
(***************************************************************************)

\* The first n elements of a sequence that is long enough.
LEMMA TakeTypes ==
    ASSUME NEW s \in Seq(0 .. 2), NEW n \in Nat, n <= Len(s)
    PROVE  /\ Take(s, n) \in Seq(0 .. 2)
           /\ Len(s) = n => Take(s, n) = s
<1>1. 1 \in Int /\ n \in Int
  OBVIOUS
<1>2. ASSUME NEW i \in 1 .. n PROVE s[i] \in 0 .. 2
  <2>1. i \in 1 .. Len(s)
    BY LenProperties
  <2> QED  BY <2>1, ElementOfSeq
<1>3. SubSeq(s, 1, n) \in Seq(0 .. 2)
  BY <1>1, <1>2, SubSeqProperties
<1>4. SubSeq(s, 1, Len(s)) = s
  BY SubSeqFull
<1> QED  BY <1>3, <1>4 DEF Take

\* A flag and what follows it.
LEMMA FlaggedTypes ==
    ASSUME NEW r \in Seq(0 .. 2), r # <<>>
    PROVE  FlaggedUuid(r) \in Seq(0 .. 2)
<1>1. UuidLen \in Nat /\ Absent \in Seq(0 .. 2) /\ Len(r) \in Nat
  BY StreamAssumption, EmptySeq, LenProperties DEF Absent
<1>2. CASE r[1] # 0 /\ Len(r) > UuidLen
  <2>1. Tail(r) \in Seq(0 .. 2) /\ Len(Tail(r)) = Len(r) - 1
    BY HeadTailProperties
  <2>2. UuidLen <= Len(Tail(r))
    BY <1>1, <1>2, <2>1
  <2>3. Take(Tail(r), UuidLen) \in Seq(0 .. 2)
    BY <1>1, <2>1, <2>2, TakeTypes
  <2> QED  BY <1>2, <2>3 DEF FlaggedUuid
<1>3. CASE ~(r[1] # 0 /\ Len(r) > UuidLen)
  BY <1>1, <1>3 DEF FlaggedUuid
<1> QED  BY <1>2, <1>3

\* Whatever follows the name, the code takes a UUID out of it or none.
LEMMA ProfileTypes ==
    ASSUME NEW r \in Seq(0 .. 2)
    PROVE  ProfileId(r) \in Seq(0 .. 2)
<1>1. UuidLen \in Nat /\ UuidLen > 1 /\ Absent \in Seq(0 .. 2) /\ Len(r) \in Nat
  BY StreamAssumption, EmptySeq, LenProperties DEF Absent
<1>2. CASE r = <<>>
  <2>1. Len(r) = 0
    BY <1>2, EmptySeq
  <2>2. ~HelloDecodes(r)
    BY <1>1, <1>2, <2>1 DEF HelloDecodes
  <2> QED  BY <1>1, <1>2, <2>2 DEF ProfileId
<1>3. CASE r # <<>>
  <2>1. FlaggedUuid(r) \in Seq(0 .. 2) /\ Len(r) # 0
    BY <1>3, FlaggedTypes, EmptySeq
  <2>2. CASE HelloDecodes(r)
    BY <2>1, <2>2 DEF ProfileId
  <2>3. CASE ~HelloDecodes(r) /\ Len(r) < UuidLen
    <3>1. Len(r) \in 1 .. UuidLen - 1
      BY <1>1, <2>1, <2>3
    <3> QED  BY <1>3, <2>1, <2>3, <3>1 DEF ProfileId
  <2>4. CASE ~HelloDecodes(r) /\ Len(r) >= UuidLen
    <3>1. Take(r, UuidLen) \in Seq(0 .. 2)
      BY <1>1, <2>4, TakeTypes
    <3>2. Len(r) \notin 1 .. UuidLen - 1
      BY <1>1, <2>4
    <3> QED  BY <1>3, <2>1, <2>4, <3>1, <3>2 DEF ProfileId
  <2> QED  BY <1>1, <2>2, <2>3, <2>4
<1> QED  BY <1>2, <1>3

\* In the formats that the code knows it is the UUID that was sent, also if
\* that begins like a flag.
LEMMA ProfileIsSent ==
    ASSUME NEW c \in Clients, c.format \notin {"signable", "oversized"}
    PROVE  ProfileId(c.rest) = SentUuid(c)
<1>1. UuidLen \in Nat /\ UuidLen > 1
  BY StreamAssumption
<1>2. c.rest \in Rests[c.format] /\ c.format \in {"nameOnly", "noUuid", "flagged", "bare"}
  BY ClientTypes, RestsByFormat
<1>3. CASE c.format = "nameOnly"
  <2>1. c.rest = <<>> /\ Len(<<>>) = 0
    BY <1>2, <1>3, RestsByFormat, EmptySeq
  <2>2. /\ ~HelloDecodes(c.rest)
        /\ ~(Len(c.rest) = UuidLen + 1 /\ c.rest[1] \in {0, 1})
        /\ Len(c.rest) \notin 1 .. UuidLen - 1
    BY <1>1, <2>1 DEF HelloDecodes
  <2>3. ProfileId(c.rest) = Absent
    BY <2>1, <2>2, Zenon DEF ProfileId
  <2> QED  BY <1>3, <2>3 DEF SentUuid
<1>4. CASE c.format = "noUuid"
  <2>1. c.rest = <<0>>
    BY <1>2, <1>4, RestsByFormat
  <2>2. FlaggedUuid(c.rest) = Absent /\ HelloDecodes(c.rest)
    BY <2>1 DEF FlaggedUuid, HelloDecodes
  <2> QED  BY <1>4, <2>2 DEF ProfileId, SentUuid
<1>5. CASE c.format = "flagged"
  <2>1. PICK u \in Uuids : c.rest = <<1>> \o u
    <3>1. c.rest \in {<<1>> \o u : u \in Uuids}
      BY <1>2, <1>5, RestsByFormat
    <3> QED  BY <3>1
  <2>2. u \in Seq(0 .. 2) /\ Len(u) = UuidLen /\ <<1>> \in Seq(0 .. 2) /\ Len(<<1>>) = 1
    BY UuidTypes
  <2>3. /\ c.rest \in Seq(0 .. 2) /\ Len(c.rest) = 1 + UuidLen
        /\ \A i \in 1 .. 1 + UuidLen : c.rest[i] = IF i <= 1 THEN <<1>>[i] ELSE u[i - 1]
    BY <2>1, <2>2, ConcatProperties
  <2>4. c.rest[1] = 1 /\ c.rest # <<>>
    BY <1>1, <2>3, EmptySeq
  <2>5. Tail(c.rest) \in Seq(0 .. 2) /\ Len(Tail(c.rest)) = UuidLen
    BY <1>1, <2>3, <2>4, HeadTailProperties
  <2>6. Take(Tail(c.rest), UuidLen) = Tail(c.rest)
    <3>1. UuidLen <= Len(Tail(c.rest))
      BY <1>1, <2>5
    <3> QED  BY <1>1, <2>5, <3>1, TakeTypes
  <2>7. HelloDecodes(c.rest) /\ FlaggedUuid(c.rest) = Tail(c.rest)
    BY <1>1, <2>3, <2>4, <2>6 DEF HelloDecodes, FlaggedUuid
  <2>8. ~(c.rest = <<>>) /\ ~(Len(c.rest) \in 1 .. UuidLen - 1)
    BY <1>1, <2>3, <2>4
  <2>9. ProfileId(c.rest) = Tail(c.rest)
    BY <2>7, <2>8, Zenon DEF ProfileId
  <2>10. c.format # "bare" /\ c.format # "signable"
    BY <1>5
  <2> QED  BY <1>5, <2>9, <2>10, Zenon DEF SentUuid
<1>6. CASE c.format = "bare"
  <2>1. c.rest \in Seq(0 .. 2) /\ Len(c.rest) = UuidLen
    BY <1>2, <1>6, RestsByFormat, UuidTypes
  <2>2. Take(c.rest, UuidLen) = c.rest
    BY <1>1, <2>1, TakeTypes
  <2>3. c.rest # <<>> /\ c.rest # <<0>>
    <3>1. Len(<<>>) = 0 /\ Len(<<0>>) = 1
      OBVIOUS
    <3>2. Len(c.rest) # 0 /\ Len(c.rest) # 1
      BY <1>1, <2>1
    <3> QED  BY <3>1, <3>2, Zenon
  <2>4. ~HelloDecodes(c.rest) /\ Len(c.rest) # UuidLen + 1 /\ Len(c.rest) \notin 1 .. UuidLen - 1
    BY <1>1, <2>1, <2>3 DEF HelloDecodes
  <2>5. ProfileId(c.rest) = c.rest
    BY <2>2, <2>3, <2>4 DEF ProfileId
  <2> QED  BY <1>6, <2>5 DEF SentUuid
<1> QED  BY <1>2, <1>3, <1>4, <1>5, <1>6

\* A login start of the maximal size and more is not taken.
LEMMA OversizedDoesNotFit ==
    ASSUME NEW c \in Clients, c.format = "oversized", BodyLen = Len(LoginBody(c))
    PROVE  ~Fits(MaxLogin)
<1>1. MaxLogin \in Nat
  BY StreamAssumption
<1>2. c.rest = [i \in 1 .. MaxLogin |-> 2]
  BY ClientTypes, RestsByFormat
<1>3. Len(c.rest) = MaxLogin
  BY <1>1, <1>2
<1>4. BodyLen = MaxLogin + 2
  BY <1>3, BodyTypes
<1>5. Len(Prefix(BodyLen, FALSE)) \in {1, 2}
  <2>1. BodyLen \in Nat /\ FALSE \in BOOLEAN
    BY <1>1, <1>4
  <2> QED  BY <2>1, PrefixDigits
<1>6. ~(WireLen(BodyLen) <= MaxLogin)
  <2>1. PICK l \in {1, 2} : l = Len(Prefix(BodyLen, FALSE))
    BY <1>5
  <2>2. WireLen(BodyLen) = BodyLen + l
    BY <2>1 DEF WireLen
  <2>3. ~(BodyLen + l <= MaxLogin)
    BY <1>1, <1>4
  <2> QED  BY <2>2, <2>3
<1> QED  BY <1>6 DEF Fits

\* The two frames that a client sends.
LEMMA FramesOfClient ==
    ASSUME NEW c \in Clients
    PROVE  /\ SentFrames(c) = <<SentFrames(c)[1], SentFrames(c)[2]>>
           /\ SentFrames(c)[1] = From(Len(First(c)), c.len)
           /\ SentFrames(c)[2] = From(HandshakeEnd(c) + Len(Second(c)), Len(LoginBody(c)))
BY DEF SentFrames

(***************************************************************************)
(* The invariant                                                            *)
(***************************************************************************)

Handling == {"firstByte", "handshake", "loginStart", "join", "connect"}
Relaying == {"relay", "closed"}

\* What was read from position a on is in the decoder.
Holds(a) == a <= taken /\ decoder = From(a, taken - a)

\* The relay has passed on what was read after the m bytes that stayed behind.
PassedOn(m) ==
    /\ LoginEnd(client) + m <= taken
    /\ decoder = From(LoginEnd(client), m)
    /\ relayed = From(LoginEnd(client) + m, taken - (LoginEnd(client) + m))

\* Of t bytes that were read d is some part.
IsRun(t, d) == \E a \in 0 .. t, m \in 0 .. t : a + m <= t /\ d = From(a, m)

\* What the stages know of the frames and of the decoder.
StageInv ==
    /\ stage = "firstByte" => frames = <<>> /\ taken = 0 /\ Holds(0)
    /\ stage = "handshake" => frames = <<>> /\ Holds(0)
    /\ stage = "loginStart" => frames = <<SentFrames(client)[1]>> /\ Holds(HandshakeEnd(client))
    /\ stage \in {"join", "connect"} => frames = SentFrames(client) /\ Holds(LoginEnd(client))
    /\ stage \in Relaying => frames = SentFrames(client) /\ \E m \in 0 .. taken : PassedOn(m)
    /\ stage \notin Relaying => relayed = <<>> /\ hello = <<>>

\* Before the relay nothing is read from a client that waits for its answer
\* that lies behind its login start.
WaitInv ==
    ~client.pipelines => /\ stage \notin Relaying => sent <= LoginEnd(client)
                         /\ stage = "relay" => decoder = <<>>

HelloInv == hello # <<>> => /\ hello[1].suffix = client.suffix
                            /\ hello[2] = SentFrames(client)[2]

ProfileInv ==
    /\ profile \in Seq(0 .. 2)
    /\ frames = SentFrames(client) /\ client.format # "signable" => profile = SentUuid(client)

StreamInv ==
    /\ client \in Clients /\ stream = Stream(client)
    /\ sent \in 0 .. Len(stream) /\ closed \in BOOLEAN /\ taken \in 0 .. sent
    /\ stage \in Handling \cup {"relay"} \cup Ends
    /\ frames \in {<<>>, <<SentFrames(client)[1]>>, SentFrames(client)}
    /\ IsRun(taken, decoder)
    /\ StageInv /\ WaitInv /\ HelloInv /\ ProfileInv

\* No bytes and one byte are runs.
LEMMA ShortRuns == ASSUME NEW a \in Nat PROVE From(a, 0) = <<>> /\ From(0, 1) = <<1>>
BY DEF From

\* The numbers that the invariant is about.
LEMMA NumberTypes ==
    ASSUME StreamInv
    PROVE  /\ client \in Clients /\ stream = Stream(client)
           /\ sent \in Nat /\ taken \in Nat /\ taken <= sent /\ sent <= Len(stream)
           /\ Len(stream) \in Nat /\ HandshakeEnd(client) \in Nat /\ LoginEnd(client) \in Nat
<1>1. client \in Clients /\ stream = Stream(client) /\ sent \in 0 .. Len(stream) /\ taken \in 0 .. sent
  BY DEF StreamInv
<1>2. HandshakeEnd(client) \in Nat /\ LoginEnd(client) \in Nat
  BY <1>1, StreamParts
<1>3. Len(stream) \in Nat
  BY <1>1, <1>2, StreamParts, StreamAssumption
<1> QED  BY <1>1, <1>2, <1>3

\* A run of positions that were read is some part of what was read.
LEMMA RunFrom ==
    ASSUME NEW t \in Nat, NEW a \in Nat, NEW m \in Nat, a + m <= t
    PROVE  IsRun(t, From(a, m))
<1>1. a \in 0 .. t /\ m \in 0 .. t
  OBVIOUS
<1> QED  BY <1>1 DEF IsRun

\* So are all of them from some position on.
LEMMA HoldsRun ==
    ASSUME NEW t \in Nat, NEW a \in Nat, a <= t
    PROVE  IsRun(t, From(a, t - a))
<1>1. t - a \in Nat /\ a + (t - a) <= t
  OBVIOUS
<1> QED  BY <1>1, RunFrom

\* A handler that ends before the relay keeps the invariant, whatever it has
\* read.
LEMMA EndStep ==
    ASSUME StreamInv, stage \notin Relaying, stage' \in Ends \ {"closed"},
           UNCHANGED <<clientVars, taken, decoder, frames, profile, hello, relayed>>
    PROVE  StreamInv'
<1>1. /\ UNCHANGED <<client, stream, sent, closed, taken, decoder, frames, profile, hello, relayed>>
      /\ stage' \notin Handling /\ stage' \notin Relaying
  BY DEF clientVars, Handling, Relaying, Ends
<1>2. IsRun(taken', decoder') /\ HelloInv' /\ ProfileInv'
  BY <1>1 DEF StreamInv, HelloInv, ProfileInv
<1>3. StageInv'
  BY <1>1 DEF StreamInv, StageInv, Handling
<1>4. WaitInv'
  BY <1>1 DEF StreamInv, WaitInv, Relaying
<1> QED  BY <1>1, <1>2, <1>3, <1>4 DEF StreamInv

\* The chunks of a read fit into what has arrived.
LEMMA ChunkTypes ==
    ASSUME StreamInv, NEW n \in Chunks
    PROVE  n \in Nat /\ taken + n \in Nat /\ taken + n <= sent
<1>1. sent \in Nat /\ taken \in Nat /\ taken <= sent /\ BufferSize \in Nat
  BY NumberTypes, StreamAssumption
<1> QED  BY <1>1 DEF Chunks

\* What is read is added to what is held.
LEMMA HoldsMore ==
    ASSUME taken \in Nat, NEW a \in Nat, Holds(a), NEW n \in Nat,
           taken' = taken + n, decoder' = decoder \o From(taken, n)
    PROVE  Holds(a)'
<1>1. a <= taken /\ decoder = From(a, taken - a)
  BY DEF Holds
<1>2. PICK m \in Nat : m = taken - a
  <2>1. taken - a \in Nat
    BY <1>1
  <2> QED  BY <2>1, Zenon
<1>3. a + m = taken /\ taken' - a = m + n /\ a <= taken'
  BY <1>1, <1>2
<1>4. From(a, m) \o From(a + m, n) = From(a, m + n)
  BY FromConcat
<1> QED  BY <1>1, <1>2, <1>3, <1>4 DEF Holds

\* The frame that is read first is the client's handshake, and after it is
\* held what follows.
LEMMA HandshakeFrame ==
    ASSUME StreamInv, stage = "handshake", FrameReady
    PROVE  /\ Body = SentFrames(client)[1]
           /\ HandshakeEnd(client) <= taken
           /\ Rest = From(HandshakeEnd(client), taken - HandshakeEnd(client))
<1> DEFINE q == Prefix(client.len, client.padded)
<1>1. /\ client \in Clients /\ stream = Stream(client) /\ taken \in Nat
      /\ decoder = From(0, taken - 0)
  BY NumberTypes DEF StreamInv, StageInv, Holds
<1>2. client.len \in Nat /\ client.padded \in BOOLEAN
  BY <1>1, ClientTypes
<1>3. At(stream, 0, q) /\ HandshakeEnd(client) = Len(q) + client.len /\ Len(q) \in Nat
  BY <1>1, StreamParts DEF First
<1>4. taken - 0 = taken /\ 0 + Len(q) = Len(q)
  BY <1>1, <1>3
<1>5. /\ Len(q) + client.len <= taken
      /\ Body = From(0 + Len(q), client.len)
      /\ Rest = From(0 + Len(q) + client.len, taken - (Len(q) + client.len))
  BY <1>1, <1>2, <1>3, <1>4, FrameAt
<1>6. SentFrames(client)[1] = From(Len(q), client.len)
  BY <1>1, FramesOfClient DEF First
<1> QED  BY <1>3, <1>4, <1>5, <1>6

\* The frame that is read second is the client's login start.
LEMMA LoginFrame ==
    ASSUME StreamInv, stage = "loginStart", FrameReady
    PROVE  /\ Body = SentFrames(client)[2] /\ BodyLen = Len(LoginBody(client))
           /\ LoginEnd(client) <= taken
           /\ Rest = From(LoginEnd(client), taken - LoginEnd(client))
<1> DEFINE q == Prefix(Len(LoginBody(client)), client.padded)
           h == HandshakeEnd(client)
           b == Len(LoginBody(client))
<1>1. /\ client \in Clients /\ stream = Stream(client) /\ taken \in Nat
      /\ h \in Nat /\ h <= taken /\ decoder = From(h, taken - h)
  BY NumberTypes DEF StreamInv, StageInv, Holds
<1>2. client.padded \in BOOLEAN /\ b \in Nat
  BY <1>1, ClientTypes, StreamParts
<1>3. At(stream, h, q) /\ Len(q) \in Nat
  BY <1>1, StreamParts DEF Second
<1>4. LoginEnd(client) = h + Len(q) + b
  BY DEF LoginEnd, Second
<1>5. SentFrames(client)[2] = From(h + Len(q), b)
  BY <1>1, FramesOfClient DEF Second
<1> HIDE DEF h, b
<1>6. PICK m \in Nat : m = taken - h
  <2>1. taken - h \in Nat
    BY <1>1
  <2> QED  BY <2>1, Zenon
<1>7. decoder = From(h, m)
  BY <1>1, <1>6
<1>8. /\ BodyLen = b /\ Len(q) + b <= m
      /\ Body = From(h + Len(q), b)
      /\ Rest = From(h + Len(q) + b, m - (Len(q) + b))
  BY <1>1, <1>2, <1>3, <1>7, FrameAt DEF b
<1>9. h + Len(q) + b <= taken /\ m - (Len(q) + b) = taken - (h + Len(q) + b)
  BY <1>1, <1>2, <1>3, <1>6, <1>8
<1> QED  BY <1>4, <1>5, <1>8, <1>9 DEF b

\* The values behind the name are those of the client's login start.
LEMMA RestIsSent ==
    ASSUME NEW c \in Clients, stream = Stream(c)
    PROVE  RestOf(SentFrames(c)[2]) = c.rest
<1> DEFINE k == HandshakeEnd(c) + Len(Second(c))
           body == SentFrames(c)[2]
<1>1. k \in Nat /\ Len(LoginBody(c)) \in Nat
  BY StreamParts
<1>2. body = From(k, Len(LoginBody(c)))
  BY FramesOfClient
<1>3. /\ Len(LoginBody(c)) = Len(c.rest) + 2 /\ c.rest \in Seq(0 .. 2)
      /\ \A i \in 1 .. Len(c.rest) : LoginBody(c)[i + 2] = c.rest[i]
  BY BodyTypes, RestTypes
<1>4. \A i \in 1 .. Len(LoginBody(c)) : stream[k + i] = LoginBody(c)[i]
  BY StreamParts DEF At
<1> HIDE DEF k
<1>5. Len(body) = Len(LoginBody(c)) /\ \A i \in 1 .. Len(LoginBody(c)) : body[i] = k + i
  BY <1>1, <1>2, FromSeq
<1> HIDE DEF body
<1>6. PICK l \in Nat : l = Len(c.rest)
  <2>1. Len(c.rest) \in Nat
    BY <1>3, LenProperties
  <2> QED  BY <2>1, Zenon
<1>7. Len(body) - 2 = l
  BY <1>3, <1>5, <1>6
<1>8. ASSUME NEW i \in 1 .. l PROVE stream[body[i + 2]] = c.rest[i]
  <2>1. PICK j \in 1 .. Len(LoginBody(c)) : j = i + 2
    <3>1. i + 2 \in 1 .. Len(LoginBody(c))
      BY <1>3, <1>6
    <3> QED  BY <3>1, Zenon
  <2>2. body[j] = k + j /\ stream[k + j] = LoginBody(c)[j]
    BY <1>4, <1>5
  <2>3. LoginBody(c)[j] = c.rest[i]
    BY <1>3, <1>6, <2>1
  <2> QED  BY <2>1, <2>2, <2>3
<1>9. RestOf(body) = [i \in 1 .. l |-> c.rest[i]]
  BY <1>7, <1>8 DEF RestOf
<1>10. c.rest = [i \in 1 .. l |-> c.rest[i]]
  BY <1>3, <1>6, LenProperties
<1> QED  BY <1>9, <1>10 DEF body

\* The first byte: it is alone in the decoder, or the handler ends.
LEMMA FirstByteStep == ASSUME StreamInv, FirstByte PROVE StreamInv'
<1>1. /\ UNCHANGED <<client, stream, sent, closed, frames, profile, hello, relayed>>
      /\ stage = "firstByte" /\ sent >= 1 /\ taken' = 1
      /\ \/ stage' = "legacy" /\ decoder' = decoder
         \/ stage' = "handshake" /\ decoder' = <<1>>
  BY DEF FirstByte, clientVars, Go
<1>2. frames = <<>> /\ decoder = From(0, taken - 0) /\ taken = 0 /\ relayed = <<>> /\ hello = <<>>
  BY <1>1 DEF StreamInv, StageInv, Holds, Relaying
<1>3. taken' \in 0 .. sent' /\ taken' \in Nat
  BY <1>1, NumberTypes
<1>4. stage' \in {"legacy", "handshake"}
  BY <1>1
<1>5. HelloInv' /\ ProfileInv'
  BY <1>1 DEF StreamInv, HelloInv, ProfileInv
<1>6. WaitInv'
  BY <1>1, <1>4 DEF StreamInv, WaitInv, Relaying
<1>7. CASE stage' = "legacy"
  <2>1. decoder' = From(0, 0) /\ 0 + 0 <= taken'
    BY <1>1, <1>2, <1>7
  <2>2. IsRun(taken', decoder')
    BY <1>3, <2>1, RunFrom
  <2>3. StageInv'
    BY <1>1, <1>2, <1>7 DEF StageInv, Relaying
  <2> QED  BY <1>1, <1>3, <1>5, <1>6, <1>7, <2>2, <2>3 DEF StreamInv, Ends
<1>8. CASE stage' = "handshake"
  <2>1. decoder' = From(0, taken' - 0) /\ 0 <= taken'
    BY <1>1, <1>8, ShortRuns
  <2>2. Holds(0)'
    BY <2>1 DEF Holds
  <2>3. IsRun(taken', decoder')
    BY <1>3, <2>1, HoldsRun
  <2>4. StageInv'
    BY <1>1, <1>2, <1>8, <2>2 DEF StageInv, Relaying
  <2> QED  BY <1>1, <1>3, <1>5, <1>6, <1>8, <2>3, <2>4 DEF StreamInv, Handling
<1> QED  BY <1>4, <1>7, <1>8

\* Chunks are added to the decoder.
LEMMA ReadStep == ASSUME StreamInv, Read PROVE StreamInv'
<1>1. PICK n \in Chunks : taken' = taken + n /\ decoder' = decoder \o From(taken, n)
  BY DEF Read
<1>2. UNCHANGED <<client, stream, sent, closed, frames, profile, hello, relayed, stage>>
  BY DEF Read, clientVars
<1>3. n \in Nat /\ taken \in Nat /\ taken' \in Nat /\ taken' \in 0 .. sent'
  BY <1>1, <1>2, ChunkTypes, NumberTypes
<1>4. stage \in {"handshake", "loginStart"}
  BY DEF Read
<1>5. HelloInv' /\ ProfileInv' /\ WaitInv'
  BY <1>2, <1>4 DEF StreamInv, HelloInv, ProfileInv, WaitInv
<1>6. relayed' = <<>> /\ hello' = <<>> /\ stage' = stage
  BY <1>2, <1>4 DEF StreamInv, StageInv, Relaying
<1>7. CASE stage = "handshake"
  <2>1. Holds(0) /\ frames = <<>>
    BY <1>7 DEF StreamInv, StageInv
  <2>2. Holds(0)'
    BY <1>1, <1>3, <2>1, HoldsMore
  <2>3. IsRun(taken', decoder')
    <3>1. 0 <= taken' /\ decoder' = From(0, taken' - 0)
      BY <2>2 DEF Holds
    <3> QED  BY <1>3, <3>1, HoldsRun
  <2>4. StageInv'
    BY <1>2, <1>6, <1>7, <2>1, <2>2 DEF StageInv, Relaying
  <2> QED  BY <1>2, <1>3, <1>5, <2>3, <2>4 DEF StreamInv
<1>8. CASE stage = "loginStart"
  <2>1. PICK h \in Nat : h = HandshakeEnd(client)
    BY NumberTypes
  <2>2. Holds(h) /\ frames = <<SentFrames(client)[1]>>
    BY <1>8, <2>1 DEF StreamInv, StageInv
  <2>3. Holds(h)'
    BY <1>1, <1>3, <2>2, HoldsMore
  <2>4. IsRun(taken', decoder')
    <3>1. h <= taken' /\ decoder' = From(h, taken' - h)
      BY <2>3 DEF Holds
    <3> QED  BY <1>3, <3>1, HoldsRun
  <2>5. HandshakeEnd(client') = h
    BY <1>2, <2>1
  <2>6. StageInv'
    BY <1>2, <1>6, <1>8, <2>2, <2>3, <2>5 DEF StageInv, Relaying
  <2> QED  BY <1>2, <1>3, <1>5, <2>4, <2>6 DEF StreamInv
<1> QED  BY <1>4, <1>7, <1>8

\* A packet that is too large ends the handler.
LEMMA TooLargeStep ==
    ASSUME StreamInv,
           TooLarge("handshake", MaxHandshake) \/ TooLarge("loginStart", MaxLogin)
    PROVE  StreamInv'
<1>1. /\ UNCHANGED <<client, stream, sent, closed, taken, frames, profile, hello, relayed>>
      /\ stage \in {"handshake", "loginStart"} /\ stage' = "tooLarge"
      /\ FrameReady /\ decoder' = Rest
  BY DEF TooLarge, clientVars, Go
<1>2. /\ taken \in Nat /\ taken' \in Nat
      /\ HandshakeEnd(client) \in Nat /\ LoginEnd(client) \in Nat
  BY <1>1, NumberTypes
<1>3. PICK a \in Nat : a <= taken /\ decoder' = From(a, taken - a)
  <2>1. CASE stage = "handshake"
    BY <1>1, <1>2, <2>1, HandshakeFrame
  <2>2. CASE stage = "loginStart"
    BY <1>1, <1>2, <2>2, LoginFrame
  <2> QED  BY <1>1, <2>1, <2>2
<1>4. a <= taken' /\ decoder' = From(a, taken' - a)
  BY <1>1, <1>3
<1>5. IsRun(taken', decoder')
  BY <1>2, <1>4, HoldsRun
<1>6. HelloInv' /\ ProfileInv' /\ WaitInv'
  BY <1>1 DEF StreamInv, HelloInv, ProfileInv, WaitInv, Relaying
<1>7. StageInv'
  BY <1>1 DEF StreamInv, StageInv, Relaying
<1> QED  BY <1>1, <1>5, <1>6, <1>7 DEF StreamInv, Ends

\* The handshake is read: the decoder goes on behind it.
LEMMA HandshakeStep == ASSUME StreamInv, Handshake PROVE StreamInv'
<1>1. /\ UNCHANGED <<client, stream, sent, closed, taken, profile, hello, relayed>>
      /\ stage = "handshake" /\ stage' \in {"malformed", "loginStart", client.intent}
      /\ client.intent = "login" <=> stage' = "loginStart"
      /\ stage' # "unknown"
      /\ FrameReady /\ decoder' = Rest /\ frames' = Append(frames, Body)
  <2>1. PICK to : /\ Go("handshake", to)
                  /\ to = CASE client.intent = "unknown" -> "malformed"
                            [] client.intent = "login" -> "loginStart"
                            [] OTHER -> client.intent
    BY DEF Handshake, TakeFrame
  <2>2. /\ to \in {"malformed", "loginStart", client.intent}
        /\ client.intent = "login" <=> to = "loginStart"
        /\ to # "unknown"
    <3>1. client.intent \in {"login", "status", "magic", "unknown"}
      BY DEF StreamInv, Clients, Logins, Others
    <3>2. CASE client.intent = "unknown"
      <4>1. client.intent # "login" /\ "malformed" # "loginStart"
        BY <3>2
      <4>2. to = "malformed"
        BY <2>1, <3>2, <4>1, Zenon
      <4> QED  BY <4>1, <4>2
    <3>3. CASE client.intent = "login"
      <4>1. client.intent # "unknown"
        BY <3>3
      <4>2. to = "loginStart"
        BY <2>1, <3>3, <4>1, Zenon
      <4> QED  BY <3>3, <4>2
    <3>4. CASE client.intent \in {"status", "magic"}
      <4>1. client.intent # "unknown" /\ client.intent # "login" /\ client.intent # "loginStart"
        BY <3>4
      <4>2. to = client.intent
        BY <2>1, <4>1, Zenon
      <4> QED  BY <4>1, <4>2
    <3> QED  BY <3>1, <3>2, <3>3, <3>4
  <2> QED  BY <2>1, <2>2 DEF Handshake, TakeFrame, clientVars, Go
<1>2. client.intent \in {"login", "status", "magic", "unknown"}
  BY DEF StreamInv, Clients, Logins, Others
<1>3. /\ taken \in Nat /\ HandshakeEnd(client) \in Nat /\ HandshakeEnd(client) <= taken
      /\ frames = <<>> /\ Body = SentFrames(client)[1]
      /\ decoder' = From(HandshakeEnd(client), taken - HandshakeEnd(client))
      /\ relayed = <<>> /\ hello = <<>>
  BY <1>1, NumberTypes, HandshakeFrame DEF StreamInv, StageInv, Relaying
<1>4. frames' = <<SentFrames(client)[1]>>
  BY <1>1, <1>3
<1>5. IsRun(taken', decoder')
  BY <1>1, <1>3, HoldsRun
<1>6. frames' # SentFrames(client)
  BY <1>4, FramesOfClient DEF StreamInv
<1>7. stage' \notin Relaying /\ stage' \notin {"firstByte", "handshake", "join", "connect"}
  BY <1>1, <1>2 DEF Relaying
<1>8. HelloInv' /\ ProfileInv' /\ WaitInv'
  BY <1>1, <1>6, <1>7 DEF StreamInv, HelloInv, ProfileInv, WaitInv, Relaying
<1>9. StageInv'
  BY <1>1, <1>3, <1>4, <1>7 DEF StageInv, Holds
<1>10. stage' \in Handling \cup {"relay"} \cup Ends
  BY <1>1, <1>2 DEF Handling, Ends
<1> QED  BY <1>1, <1>4, <1>5, <1>8, <1>9, <1>10 DEF StreamInv

\* The login start is read: the profile is that of the client, and the
\* decoder goes on behind the login start.
LEMMA LoginStep == ASSUME StreamInv, LoginStart PROVE StreamInv'
<1>1. /\ UNCHANGED <<client, stream, sent, closed, taken, hello, relayed>>
      /\ stage = "loginStart" /\ stage' = "join" /\ FrameReady /\ Fits(MaxLogin)
      /\ decoder' = Rest /\ frames' = Append(frames, Body)
      /\ profile' = ProfileId(RestOf(Body))
  BY DEF LoginStart, TakeFrame, clientVars, Go
<1>2. /\ taken \in Nat /\ LoginEnd(client) \in Nat /\ LoginEnd(client) <= taken
      /\ frames = <<SentFrames(client)[1]>> /\ Body = SentFrames(client)[2]
      /\ BodyLen = Len(LoginBody(client))
      /\ decoder' = From(LoginEnd(client), taken - LoginEnd(client))
      /\ relayed = <<>> /\ hello = <<>>
      /\ client \in Clients /\ stream = Stream(client)
  BY <1>1, NumberTypes, LoginFrame DEF StreamInv, StageInv, Relaying
<1>3. frames' = SentFrames(client)
  BY <1>1, <1>2, FramesOfClient
<1>4. IsRun(taken', decoder')
  BY <1>1, <1>2, HoldsRun
<1>5. profile' = ProfileId(client.rest)
  BY <1>1, <1>2, RestIsSent
<1>6. profile' \in Seq(0 .. 2)
  BY <1>2, <1>5, RestTypes, ProfileTypes
<1>7. client.format # "oversized"
  BY <1>1, <1>2, OversizedDoesNotFit
<1>8. client.format # "signable" => profile' = SentUuid(client)
  BY <1>2, <1>5, <1>7, ProfileIsSent
<1>9. ProfileInv'
  BY <1>1, <1>6, <1>8 DEF ProfileInv
<1>10. HelloInv' /\ WaitInv'
  BY <1>1 DEF StreamInv, HelloInv, WaitInv, Relaying
<1>11. StageInv'
  BY <1>1, <1>2, <1>3 DEF StageInv, Holds, Relaying
<1> QED  BY <1>1, <1>3, <1>4, <1>9, <1>10, <1>11 DEF StreamInv, Handling

\* The upstream is sent the client's packets, and what the decoder holds is
\* left behind; a client that waits has sent nothing of it.
LEMMA HelloStep == ASSUME StreamInv, HelloSent PROVE StreamInv'
<1>1. /\ UNCHANGED <<client, stream, sent, closed, taken, decoder, frames, profile, relayed>>
      /\ stage = "connect" /\ stage' = "relay"
      /\ \E addr : hello' = <<RewriteAddr(addr), frames[2]>>
  BY DEF HelloSent, clientVars, Go
<1>2. PICK l \in Nat : l = LoginEnd(client)
  BY NumberTypes
<1>3. /\ taken \in Nat /\ sent \in Nat /\ taken <= sent
      /\ frames = SentFrames(client) /\ relayed = <<>>
      /\ l <= taken /\ decoder = From(l, taken - l)
  BY <1>1, <1>2, NumberTypes DEF StreamInv, StageInv, Holds, Relaying
<1>4. PICK m \in Nat : m = taken - l
  <2>1. taken - l \in Nat
    BY <1>3
  <2> QED  BY <2>1, Zenon
<1>5. l + m = taken /\ taken - (l + m) = 0 /\ m \in 0 .. taken
  BY <1>3, <1>4
<1>6. PassedOn(m)'
  <2>1. decoder' = From(l, m) /\ l + m <= taken'
    BY <1>1, <1>3, <1>4, <1>5
  <2>2. relayed' = From(l + m, taken' - (l + m))
    BY <1>1, <1>3, <1>5, ShortRuns
  <2>3. LoginEnd(client') = l
    BY <1>1, <1>2
  <2> QED  BY <2>1, <2>2, <2>3 DEF PassedOn
<1>7. StageInv'
  BY <1>1, <1>3, <1>5, <1>6 DEF StageInv, Relaying
<1>8. HelloInv'
  BY <1>1, <1>3 DEF HelloInv, RewriteAddr
<1>9. WaitInv'
  <2>1. CASE ~client.pipelines
    <3>1. sent <= l
      BY <1>1, <1>2, <2>1 DEF StreamInv, WaitInv, Relaying
    <3>2. m = 0
      BY <1>3, <1>4, <3>1
    <3>3. decoder' = <<>>
      BY <1>1, <1>3, <1>4, <3>2, ShortRuns
    <3> QED  BY <1>1, <3>3 DEF WaitInv, Relaying
  <2>2. CASE client.pipelines
    BY <1>1, <2>2 DEF WaitInv
  <2> QED  BY <2>1, <2>2
<1> QED  BY <1>1, <1>7, <1>8, <1>9 DEF StreamInv, ProfileInv

\* The relay passes on the next byte.
LEMMA RelayStep == ASSUME StreamInv, Relay PROVE StreamInv'
<1>1. /\ UNCHANGED <<client, stream, sent, closed, decoder, frames, profile, hello, stage>>
      /\ stage = "relay" /\ taken < sent /\ taken' = taken + 1
      /\ relayed' = Append(relayed, taken + 1)
  BY DEF Relay, clientVars
<1>2. taken \in Nat /\ sent \in Nat /\ taken' \in Nat /\ taken' \in 0 .. sent'
  BY <1>1, NumberTypes
<1>3. PICK l \in Nat : l = LoginEnd(client)
  BY NumberTypes
<1>4. PICK m \in 0 .. taken : /\ l + m <= taken /\ decoder = From(l, m)
                              /\ relayed = From(l + m, taken - (l + m))
  BY <1>1, <1>3 DEF StreamInv, StageInv, PassedOn, Relaying
<1>5. PICK a \in Nat : a = l + m
  <2>1. l + m \in Nat
    BY <1>2
  <2> QED  BY <2>1, Zenon
<1>6. PICK n \in Nat : n = taken - a
  <2>1. taken - a \in Nat
    BY <1>2, <1>4, <1>5
  <2> QED  BY <2>1, Zenon
<1>7. a + n + 1 = taken + 1 /\ n + 1 = taken' - a /\ a <= taken' /\ m \in 0 .. taken'
  BY <1>1, <1>2, <1>4, <1>5, <1>6
<1>8. relayed' = From(a, taken' - a)
  BY <1>1, <1>4, <1>5, <1>6, <1>7, FromAppend
<1>9. PassedOn(m)'
  <2>1. LoginEnd(client') = l
    BY <1>1, <1>3
  <2> QED  BY <1>1, <1>4, <1>5, <1>7, <1>8, <2>1 DEF PassedOn
<1>10. StageInv'
  BY <1>1, <1>7, <1>9 DEF StreamInv, StageInv, Relaying
<1>11. IsRun(taken', decoder')
  <2>1. l + m <= taken' /\ m \in Nat
    BY <1>5, <1>7
  <2> QED  BY <1>1, <1>2, <1>4, <2>1, RunFrom
<1>12. HelloInv' /\ ProfileInv' /\ WaitInv'
  BY <1>1 DEF StreamInv, HelloInv, ProfileInv, WaitInv, Relaying
<1> QED  BY <1>1, <1>2, <1>10, <1>11, <1>12 DEF StreamInv

\* The client sends another byte, if it does not wait for an answer.
LEMMA SendStep == ASSUME StreamInv, ClientSends PROVE StreamInv'
<1>1. /\ UNCHANGED <<client, stream, closed, taken, decoder, frames, profile, hello, relayed, stage>>
      /\ sent' = sent + 1 /\ sent < Len(stream)
      /\ sent < LoginEnd(client) \/ client.pipelines \/ stage = "relay"
  BY DEF ClientSends
<1>2. sent' \in 0 .. Len(stream') /\ taken' \in 0 .. sent'
  BY <1>1, NumberTypes
<1>3. WaitInv'
  <2>1. ~client.pipelines /\ stage \notin Relaying => sent' <= LoginEnd(client)
    BY <1>1, NumberTypes DEF Relaying
  <2> QED  BY <1>1, <2>1 DEF StreamInv, WaitInv
<1>4. StageInv' /\ HelloInv' /\ ProfileInv'
  BY <1>1 DEF StreamInv, StageInv, Holds, PassedOn, HelloInv, ProfileInv
<1> QED  BY <1>1, <1>2, <1>3, <1>4 DEF StreamInv

\* The invariant holds at first, and every step keeps it.
THEOREM StreamInvariance == Spec => []StreamInv
<1>1. Init => StreamInv
  <2> SUFFICES ASSUME Init PROVE StreamInv
    OBVIOUS
  <2>1. /\ client \in Clients /\ stream = Stream(client) /\ sent = 0 /\ closed = FALSE
        /\ taken = 0 /\ decoder = <<>> /\ frames = <<>> /\ profile = Absent
        /\ hello = <<>> /\ relayed = <<>> /\ stage = "firstByte"
    BY DEF Init
  <2>2. Len(stream) \in Nat /\ LoginEnd(client) \in Nat
    BY <2>1, StreamParts, StreamAssumption
  <2>3. decoder = From(0, taken - 0) /\ decoder = From(0, 0)
    BY <2>1, ShortRuns
  <2>4. IsRun(taken, decoder)
    BY <2>1, <2>3, RunFrom
  <2>5. frames # SentFrames(client)
    BY <2>1, FramesOfClient
  <2>6. profile \in Seq(0 .. 2)
    BY <2>1, EmptySeq DEF Absent
  <2>7. StageInv
    BY <2>1, <2>3 DEF StageInv, Holds, Relaying
  <2>8. WaitInv /\ HelloInv /\ ProfileInv
    BY <2>1, <2>2, <2>5, <2>6 DEF WaitInv, HelloInv, ProfileInv, Relaying
  <2>9. sent \in 0 .. Len(stream) /\ taken \in 0 .. sent /\ closed \in BOOLEAN
    <3>1. sent \in 0 .. Len(stream)
      BY <2>1, <2>2
    <3>2. taken \in 0 .. sent
      BY <2>1
    <3>3. closed \in BOOLEAN
      BY <2>1, Zenon
    <3> QED  BY <3>1, <3>2, <3>3
  <2> QED  BY <2>1, <2>4, <2>7, <2>8, <2>9 DEF StreamInv, Handling
<1>2. StreamInv /\ [Next]_vars => StreamInv'
  <2> SUFFICES ASSUME StreamInv, [Next]_vars PROVE StreamInv'
    OBVIOUS
  <2>1. CASE ClientSends
    BY <2>1, SendStep
  <2>2. CASE ClientCloses
    BY <2>2 DEF ClientCloses, StreamInv, StageInv, Holds, PassedOn, WaitInv, HelloInv, ProfileInv
  <2>3. CASE FirstByte
    BY <2>3, FirstByteStep
  <2>4. CASE NoFirstByte \/ ReadEof \/ TimedOut
    BY <2>4, EndStep DEF NoFirstByte, ReadEof, TimedOut, Go, Relaying, Ends, clientVars
  <2>5. CASE Read
    BY <2>5, ReadStep
  <2>6. CASE TooLarge("handshake", MaxHandshake) \/ TooLarge("loginStart", MaxLogin)
    BY <2>6, TooLargeStep
  <2>7. CASE Handshake
    BY <2>7, HandshakeStep
  <2>8. CASE LoginStart
    BY <2>8, LoginStep
  <2>9. CASE Denied \/ Unreachable
    BY <2>9, EndStep DEF Denied, Unreachable, Go, Relaying, Ends
  <2>10. CASE Allowed
    <3>1. /\ UNCHANGED <<client, stream, sent, closed, taken, decoder, frames, profile, hello, relayed>>
          /\ stage = "join" /\ stage' = "connect"
      BY <2>10 DEF Allowed, clientVars, Go
    <3>2. StageInv' /\ WaitInv' /\ HelloInv' /\ ProfileInv'
      BY <3>1 DEF StreamInv, StageInv, Holds, WaitInv, HelloInv, ProfileInv, Relaying
    <3> QED  BY <3>1, <3>2 DEF StreamInv, Handling
  <2>11. CASE HelloSent
    BY <2>11, HelloStep
  <2>12. CASE Relay
    BY <2>12, RelayStep
  <2>13. CASE RelayEof
    <3>1. /\ UNCHANGED <<client, stream, sent, closed, taken, decoder, frames, profile, hello, relayed>>
          /\ stage = "relay" /\ stage' = "closed"
      BY <2>13 DEF RelayEof, clientVars, Go
    <3>2. StageInv' /\ WaitInv' /\ HelloInv' /\ ProfileInv'
      BY <3>1 DEF StreamInv, StageInv, PassedOn, WaitInv, HelloInv, ProfileInv, Relaying
    <3> QED  BY <3>1, <3>2 DEF StreamInv, Ends
  <2>14. CASE UNCHANGED vars
    BY <2>14 DEF vars, clientVars, StreamInv, StageInv, Holds, PassedOn, WaitInv, HelloInv, ProfileInv
  <2> QED  BY <2>1, <2>2, <2>3, <2>4, <2>5, <2>6, <2>7, <2>8, <2>9, <2>10, <2>11, <2>12, <2>13,
              <2>14 DEF Next, Reading
<1> QED  BY <1>1, <1>2, PTL DEF Spec

(***************************************************************************)
(* The theorems                                                             *)
(***************************************************************************)

\* A pair and its prefixes.
LEMMA PairPrefixes ==
    ASSUME NEW x, NEW y
    PROVE  /\ Len(<<>>) = 0 /\ Len(<<x>>) = 1 /\ Len(<<x, y>>) = 2
           /\ SubSeq(<<x, y>>, 1, 0) = <<>>
           /\ SubSeq(<<x, y>>, 1, 1) = <<x>>
           /\ SubSeq(<<x, y>>, 1, 2) = <<x, y>>
<1>1. Len(<<>>) = 0 /\ Len(<<x>>) = 1 /\ Len(<<x, y>>) = 2
  OBVIOUS
<1>2. SubSeq(<<x, y>>, 1, 0) = <<>>
  OBVIOUS
<1>3. <<x>> \in Seq({x, y}) /\ <<x, y>> \in Seq({x, y})
  OBVIOUS
<1>4. SubSeq(<<x, y>>, 1, 1) = <<x>>
  <2> DEFINE w == SubSeq(<<x, y>>, 1, 1)
  <2>1. \A i \in 1 .. 1 : <<x, y>>[i] \in {x, y}
    OBVIOUS
  <2>2. /\ w \in Seq({x, y}) /\ Len(w) = IF 1 <= 1 THEN 1 - 1 + 1 ELSE 0
        /\ \A i \in 1 .. 1 - 1 + 1 : w[i] = <<x, y>>[1 + i - 1]
    BY <2>1, SubSeqProperties
  <2> HIDE DEF w
  <2>3. Len(w) = 1 /\ w[1] = x
    BY <2>2
  <2>4. w = <<x>>
    BY <1>3, <2>2, <2>3, SeqEqual
  <2> QED  BY <2>4 DEF w
<1>5. SubSeq(<<x, y>>, 1, 2) = <<x, y>>
  BY <1>1, <1>3, SubSeqFull, Zenon
<1> QED  BY <1>1, <1>2, <1>4, <1>5

\* Elements of a run are positions in it.
LEMMA RunElements ==
    ASSUME NEW t \in Nat, NEW d, IsRun(t, d)
    PROVE  \A i \in DOMAIN d : d[i] \in 1 .. t
<1>1. PICK a \in 0 .. t, m \in 0 .. t : a + m <= t /\ d = From(a, m)
  BY DEF IsRun
<1>2. a \in Nat /\ m \in Nat
  OBVIOUS
<1>3. DOMAIN d = 1 .. m /\ \A i \in 1 .. m : d[i] = a + i
  BY <1>1, <1>2, FromSeq
<1> QED  BY <1>1, <1>3

\* Every variable has its type: the handler is never behind the start of the
\* stream nor ahead of what has arrived, the decoder and the relay hold only
\* bytes that were read, and no third packet is taken.
THEOREM TypeCorrect == Spec => []TypeOK
<1>1. ASSUME StreamInv PROVE TypeOK
  <2>1. /\ client \in Clients /\ stream = Stream(client) /\ sent \in 0 .. Len(stream)
        /\ closed \in BOOLEAN /\ taken \in 0 .. sent /\ taken \in Nat
        /\ profile \in Seq(0 .. 2)
        /\ stage \in {"firstByte", "handshake", "loginStart", "join", "connect", "relay"} \cup Ends
    BY <1>1, NumberTypes DEF StreamInv, ProfileInv, Handling
  <2>2. \A i \in DOMAIN decoder : decoder[i] \in 1 .. taken
    BY <1>1, <2>1, RunElements DEF StreamInv
  <2>3. Len(frames) <= 2
    <3>1. /\ Len(<<>>) = 0 /\ Len(<<SentFrames(client)[1]>>) = 1
          /\ Len(SentFrames(client)) = 2
      BY <2>1, PairPrefixes, FramesOfClient, Zenon
    <3>2. Len(frames) \in {0, 1, 2}
      BY <1>1, <3>1, Zenon DEF StreamInv
    <3>3. \A n \in {0, 1, 2} : n <= 2
      OBVIOUS
    <3> QED  BY <3>2, <3>3, Zenon
  <2>4. \A i \in DOMAIN relayed : relayed[i] \in 1 .. taken
    <3>1. CASE stage \in Relaying
      <4>1. PICK l \in Nat : l = LoginEnd(client)
        BY <1>1, NumberTypes
      <4>2. PICK m \in 0 .. taken : l + m <= taken /\ relayed = From(l + m, taken - (l + m))
        BY <1>1, <3>1, <4>1 DEF StreamInv, StageInv, PassedOn
      <4>3. l + m \in Nat
        OBVIOUS
      <4>4. IsRun(taken, relayed)
        BY <2>1, <4>2, <4>3, HoldsRun
      <4> QED  BY <2>1, <4>4, RunElements
    <3>2. CASE stage \notin Relaying
      BY <1>1, <3>2 DEF StreamInv, StageInv
    <3> QED  BY <3>1, <3>2
  <2> QED  BY <2>1, <2>2, <2>3, <2>4 DEF TypeOK
<1> QED  BY <1>1, StreamInvariance, PTL

\* In whatever chunks the bytes come, the packets that are taken are the
\* client's, the decoder holds exactly what was read behind them, and the
\* profile is the one that was sent, for the formats that the code knows.
THEOREM PacketsAreAsSent == Spec => []PacketsAsSent
<1>1. ASSUME StreamInv PROVE PacketsAsSent
  <2> DEFINE sf == SentFrames(client)
             consumed == CASE Len(frames) = 0 -> 0
                           [] Len(frames) = 1 -> HandshakeEnd(client)
                           [] Len(frames) = 2 -> LoginEnd(client)
  <2>1. client \in Clients /\ sf = <<sf[1], sf[2]>>
    BY <1>1, FramesOfClient, NumberTypes
  <2> HIDE DEF sf
  <2>2. frames \in {<<>>, <<sf[1]>>, sf} /\ StageInv /\ ProfileInv
    BY <1>1 DEF StreamInv, sf
  <2>3. Len(<<>>) = 0 /\ Len(<<sf[1]>>) = 1 /\ Len(sf) = 2
    BY <2>1, PairPrefixes, Zenon
  <2>4. /\ SubSeq(sf, 1, 0) = <<>> /\ SubSeq(sf, 1, 1) = <<sf[1]>> /\ SubSeq(sf, 1, 2) = sf
    BY <2>1, PairPrefixes, Zenon
  <2>5. frames = SubSeq(sf, 1, Len(frames))
    BY <2>2, <2>3, <2>4
  <2>6. /\ stage = "handshake" => frames = <<>> /\ decoder = From(0, taken - 0)
        /\ stage = "loginStart" => /\ frames = <<sf[1]>>
                                   /\ decoder = From(HandshakeEnd(client), taken - HandshakeEnd(client))
        /\ stage \in {"join", "connect"} =>
              frames = sf /\ decoder = From(LoginEnd(client), taken - LoginEnd(client))
    BY <2>2 DEF StageInv, Holds, sf
  <2>7. /\ frames = <<>> => consumed = 0
        /\ frames = <<sf[1]>> => consumed = HandshakeEnd(client)
        /\ frames = sf => consumed = LoginEnd(client)
    <3>1. ASSUME frames = <<>> PROVE consumed = 0
      <4>1. Len(frames) = 0 /\ Len(frames) # 1 /\ Len(frames) # 2
        BY <2>3, <3>1
      <4> QED  BY <4>1, Zenon
    <3>2. ASSUME frames = <<sf[1]>> PROVE consumed = HandshakeEnd(client)
      <4>1. Len(frames) # 0 /\ Len(frames) = 1 /\ Len(frames) # 2
        BY <2>3, <3>2
      <4> QED  BY <4>1, Zenon
    <3>3. ASSUME frames = sf PROVE consumed = LoginEnd(client)
      <4>1. Len(frames) # 0 /\ Len(frames) # 1 /\ Len(frames) = 2
        BY <2>3, <3>3
      <4> QED  BY <4>1, Zenon
    <3> QED  BY <3>1, <3>2, <3>3
  <2> HIDE DEF consumed
  <2>8. stage \in {"handshake", "loginStart", "join", "connect"} =>
           decoder = From(consumed, taken - consumed)
    BY <2>6, <2>7
  <2>9. Len(frames) = 2 /\ client.format # "signable" => profile = SentUuid(client)
    <3>1. Len(frames) = 2 => frames = sf
      BY <2>2, <2>3
    <3> QED  BY <2>2, <3>1 DEF ProfileInv, sf
  <2> QED  BY <2>5, <2>8, <2>9 DEF PacketsAsSent, consumed, sf
<1> QED  BY <1>1, StreamInvariance, PTL

\* The upstream is sent the client's host suffix and its login start, and
\* then the client's bytes in order and without a gap, but for those that
\* stayed in the decoder; of a client that waits for its answer none do.
THEOREM UpstreamIsSentTheStream == Spec => []UpstreamSeesTheClient
<1>1. ASSUME StreamInv PROVE UpstreamSeesTheClient
  <2>1. HelloInv /\ (~client.pipelines /\ stage = "relay" => decoder = <<>>)
    BY <1>1 DEF StreamInv, WaitInv
  <2>2. PICK l \in Nat : l = LoginEnd(client)
    BY <1>1, NumberTypes
  <2>3. taken \in Nat
    BY <1>1, NumberTypes
  <2>4. relayed = From(l + Len(decoder), Len(relayed))
    <3>1. CASE stage \in Relaying
      <4>1. PICK m \in 0 .. taken : /\ l + m <= taken /\ decoder = From(l, m)
                                    /\ relayed = From(l + m, taken - (l + m))
        BY <1>1, <2>2, <3>1 DEF StreamInv, StageInv, PassedOn
      <4>2. PICK a \in Nat : a = l + m
        <5>1. l + m \in Nat
          OBVIOUS
        <5> QED  BY <5>1, Zenon
      <4>3. PICK n \in Nat : n = taken - a
        <5>1. taken - a \in Nat
          BY <2>3, <4>1, <4>2
        <5> QED  BY <5>1, Zenon
      <4>4. Len(decoder) = m
        BY <4>1, FromSeq
      <4>5. relayed = From(a, n) /\ Len(relayed) = n
        BY <4>1, <4>2, <4>3, FromSeq
      <4> QED  BY <4>2, <4>4, <4>5
    <3>2. CASE stage \notin Relaying
      <4>1. relayed = <<>> /\ Len(<<>>) = 0
        BY <1>1, <3>2 DEF StreamInv, StageInv
      <4>2. From(l + Len(decoder), 0) = <<>>
        BY DEF From
      <4> QED  BY <4>1, <4>2
    <3> QED  BY <3>1, <3>2
  <2> QED  BY <2>1, <2>2, <2>4 DEF UpstreamSeesTheClient, HelloInv
<1> QED  BY <1>1, StreamInvariance, PTL

(***************************************************************************)
(* The status exchange, which a client is given instead of a login          *)
(***************************************************************************)

(* The wire between handler and upstream: requests owed, answers not yet read *)

Idle(o, u) == o = <<>> /\ u = <<>>
StatusDue(o, u) == \/ o = <<"request">> /\ u = <<>>
                   \/ o = <<>> /\ u = <<"status">>
PongDue(o, u) == \/ o = <<"ping">> /\ u = <<>>
                 \/ o = <<>> /\ u = <<"pong">>
BothDue(o, u) == \/ o = <<"request", "ping">> /\ u = <<>>
                 \/ o = <<"ping">> /\ u = <<"status">>
                 \/ o = <<>> /\ u = <<"status", "pong">>
Wire(o, u) == Idle(o, u) \/ StatusDue(o, u) \/ PongDue(o, u) \/ BothDue(o, u)

\* Sequences of one and of two elements.
LEMMA ShortSeqs ==
    ASSUME NEW x, NEW y
    PROVE  /\ Head(<<x>>) = x /\ Tail(<<x>>) = <<>>
           /\ Head(<<x, y>>) = x /\ Tail(<<x, y>>) = <<y>>
           /\ Append(<<>>, x) = <<x>> /\ Append(<<x>>, y) = <<x, y>>
           /\ <<x>> # <<>> /\ <<x, y>> # <<>>
<1>1. /\ Head(<<x>>) = x /\ Tail(<<x>>) = <<>>
      /\ Head(<<x, y>>) = x /\ Tail(<<x, y>>) = <<y>>
  OBVIOUS
<1>2. Append(<<>>, x) = <<x>> /\ <<x>> # <<>> /\ <<x, y>> # <<>>
  OBVIOUS
<1>3. Append(<<x>>, y) = <<x, y>>
  <2>1. <<x>> \in Seq({x, y}) /\ <<x, y>> \in Seq({x, y}) /\ Len(<<x>>) = 1 /\ Len(<<x, y>>) = 2
    OBVIOUS
  <2> DEFINE w == Append(<<x>>, y)
  <2>2. /\ w \in Seq({x, y}) /\ Len(w) = 1 + 1
        /\ \A i \in 1 .. 1 : w[i] = <<x>>[i]
        /\ w[1 + 1] = y
    BY <2>1, AppendProperties
  <2> HIDE DEF w
  <2>3. Len(w) = 2 /\ w[1] = x /\ w[2] = y
    BY <2>2
  <2>4. w = <<x, y>>
    BY <2>1, <2>2, <2>3, SeqEqual
  <2> QED  BY <2>4 DEF w
<1> QED  BY <1>1, <1>2, <1>3

\* An answer of the upstream leaves what is due as it is.
LEMMA WireAnswers ==
    ASSUME NEW o, NEW u, o # <<>>,
           NEW p, p = Tail(o),
           NEW v, v = Append(u, IF Head(o) = "request" THEN "status" ELSE "pong")
    PROVE  /\ ~Idle(o, u)
           /\ StatusDue(o, u) => StatusDue(p, v)
           /\ PongDue(o, u) => PongDue(p, v)
           /\ BothDue(o, u) => BothDue(p, v)
<1>1. ~Idle(o, u)
  BY DEF Idle
<1>2. ASSUME StatusDue(o, u) PROVE StatusDue(p, v)
  <2>1. o = <<"request">> /\ u = <<>>
    BY <1>2 DEF StatusDue
  <2>2. Head(o) = "request" /\ p = <<>>
    BY <2>1, ShortSeqs
  <2>3. v = <<"status">>
    BY <2>1, <2>2, ShortSeqs
  <2> QED  BY <2>2, <2>3 DEF StatusDue
<1>3. ASSUME PongDue(o, u) PROVE PongDue(p, v)
  <2>1. o = <<"ping">> /\ u = <<>>
    BY <1>3 DEF PongDue
  <2>2. Head(o) = "ping" /\ p = <<>>
    BY <2>1, ShortSeqs
  <2>3. v = <<"pong">>
    BY <2>1, <2>2, ShortSeqs
  <2> QED  BY <2>2, <2>3 DEF PongDue
<1>4. ASSUME BothDue(o, u) PROVE BothDue(p, v)
  <2>1. CASE o = <<"request", "ping">> /\ u = <<>>
    <3>1. Head(o) = "request" /\ p = <<"ping">>
      BY <2>1, ShortSeqs
    <3>2. v = <<"status">>
      BY <2>1, <3>1, ShortSeqs
    <3> QED  BY <3>1, <3>2 DEF BothDue
  <2>2. CASE o = <<"ping">> /\ u = <<"status">>
    <3>1. Head(o) = "ping" /\ p = <<>>
      BY <2>2, ShortSeqs
    <3>2. v = <<"status", "pong">>
      BY <2>2, <3>1, ShortSeqs
    <3> QED  BY <3>1, <3>2 DEF BothDue
  <2> QED  BY <1>4, <2>1, <2>2 DEF BothDue
<1> QED  BY <1>1, <1>2, <1>3, <1>4

\* Asking makes an answer due.
LEMMA WireAsks ==
    ASSUME NEW o, NEW u
    PROVE  /\ Idle(o, u) => StatusDue(Append(o, "request"), u)
           /\ Idle(o, u) => PongDue(Append(o, "ping"), u)
           /\ StatusDue(o, u) => BothDue(Append(o, "ping"), u)
<1>1. /\ Append(<<>>, "request") = <<"request">> /\ Append(<<>>, "ping") = <<"ping">>
      /\ Append(<<"request">>, "ping") = <<"request", "ping">>
  BY ShortSeqs
<1>2. Idle(o, u) => StatusDue(Append(o, "request"), u) /\ PongDue(Append(o, "ping"), u)
  BY <1>1, Zenon DEF Idle, StatusDue, PongDue
<1>3. StatusDue(o, u) => BothDue(Append(o, "ping"), u)
  BY <1>1, Zenon DEF StatusDue, BothDue
<1> QED  BY <1>2, <1>3

\* Reading the one answer that is due leaves none; with two due the first is
\* the status.
LEMMA WireReads ==
    ASSUME NEW o, NEW u, u # <<>>
    PROVE  /\ StatusDue(o, u) => Idle(o, Tail(u))
           /\ PongDue(o, u) => Idle(o, Tail(u))
           /\ BothDue(o, u) => Head(u) = "status"
<1>1. /\ Tail(<<"status">>) = <<>> /\ Tail(<<"pong">>) = <<>>
      /\ Head(<<"status">>) = "status" /\ Head(<<"status", "pong">>) = "status"
  BY ShortSeqs
<1> QED  BY <1>1, Zenon DEF Idle, StatusDue, PongDue, BothDue

\* What is due, in numbers, and its types.
LEMMA WireCounts ==
    ASSUME NEW o, NEW u
    PROVE  /\ Wire(o, u) => o \in Seq({"request", "ping"}) /\ u \in Seq({"status", "pong"})
           /\ Idle(o, u) => Len(o) + Len(u) = 0
           /\ StatusDue(o, u) \/ PongDue(o, u) => Len(o) + Len(u) = 1
<1>1. /\ <<>> \in Seq({"request", "ping"}) /\ <<"request">> \in Seq({"request", "ping"})
      /\ <<"ping">> \in Seq({"request", "ping"}) /\ <<"request", "ping">> \in Seq({"request", "ping"})
      /\ <<>> \in Seq({"status", "pong"}) /\ <<"status">> \in Seq({"status", "pong"})
      /\ <<"pong">> \in Seq({"status", "pong"}) /\ <<"status", "pong">> \in Seq({"status", "pong"})
  OBVIOUS
<1>2. Wire(o, u) => o \in Seq({"request", "ping"}) /\ u \in Seq({"status", "pong"})
  BY <1>1, Zenon DEF Wire, Idle, StatusDue, PongDue, BothDue
<1>3. Idle(o, u) => Len(o) + Len(u) = 0
  BY DEF Idle
<1>4. ASSUME StatusDue(o, u) \/ PongDue(o, u) PROVE Len(o) + Len(u) = 1
  <2>1. /\ Len(<<>>) = 0 /\ Len(<<"request">>) = 1 /\ Len(<<"ping">>) = 1
        /\ Len(<<"status">>) = 1 /\ Len(<<"pong">>) = 1
    OBVIOUS
  <2>2. (Len(o) = 1 /\ Len(u) = 0) \/ (Len(o) = 0 /\ Len(u) = 1)
    BY <1>4, <2>1, Zenon DEF StatusDue, PongDue
  <2>3. 1 + 0 = 1 /\ 0 + 1 = 1
    OBVIOUS
  <2> QED  BY <2>2, <2>3, Zenon
<1> QED  BY <1>2, <1>3, <1>4

(* What the client was told *)

ZeroPong == [kind |-> "pong", payload |-> "zero"]
ClientPong == [kind |-> "pong", payload |-> "client"]
Told(t) == \E s \in Status : t = <<s>>
Answered(t, p) == \E s \in Status : t = <<s, p>>
ToldLegacy(t) == \E l \in Legacy : t = <<l>>

\* Each is a sequence of answers of the kinds that it says.
LEMMA ToldTypes ==
    ASSUME NEW t
    PROVE  LET A == Status \cup Pong \cup Legacy
           IN  /\ t = <<>> => t \in Seq(A) /\ Len(t) = 0 /\ DOMAIN t = {}
               /\ Told(t) => /\ t \in Seq(A) /\ Len(t) = 1 /\ DOMAIN t = {1}
                             /\ t[1].kind = "status"
               /\ \A p \in {ZeroPong, ClientPong} :
                     Answered(t, p) => /\ t \in Seq(A) /\ Len(t) = 2 /\ DOMAIN t = {1, 2}
                                       /\ t[1].kind = "status" /\ t[2] = p
               /\ ToldLegacy(t) => /\ t \in Seq(A) /\ Len(t) = 1 /\ DOMAIN t = {1}
                                   /\ t[1].kind = "legacy"
<1> DEFINE A == Status \cup Pong \cup Legacy
<1>1. ASSUME t = <<>> PROVE t \in Seq(A) /\ Len(t) = 0 /\ DOMAIN t = {}
  BY <1>1
<1>2. ASSUME Told(t) PROVE t \in Seq(A) /\ Len(t) = 1 /\ DOMAIN t = {1} /\ t[1].kind = "status"
  <2>1. PICK s \in Status : t = <<s>>
    BY <1>2 DEF Told
  <2>2. s \in A /\ s.kind = "status"
    BY DEF Status
  <2> HIDE DEF A
  <2> QED  BY <2>1, <2>2
<1>3. ASSUME NEW p \in {ZeroPong, ClientPong}, Answered(t, p)
      PROVE  /\ t \in Seq(A) /\ Len(t) = 2 /\ DOMAIN t = {1, 2}
             /\ t[1].kind = "status" /\ t[2] = p
  <2>1. PICK s \in Status : t = <<s, p>>
    BY <1>3 DEF Answered
  <2>2. s \in A /\ s.kind = "status" /\ p \in A
    BY DEF Status, Pong, ZeroPong, ClientPong
  <2> HIDE DEF A
  <2> QED  BY <2>1, <2>2
<1>4. ASSUME ToldLegacy(t) PROVE t \in Seq(A) /\ Len(t) = 1 /\ DOMAIN t = {1} /\ t[1].kind = "legacy"
  <2>1. PICK l \in Legacy : t = <<l>>
    BY <1>4 DEF ToldLegacy
  <2>2. l \in A /\ l.kind = "legacy"
    BY DEF Legacy
  <2> HIDE DEF A
  <2> QED  BY <2>1, <2>2
<1> QED  BY <1>1, <1>2, <1>3, <1>4

(* The invariant of the exchange *)

\* The only packet of a legacy client; every other sends requests and pings.
ForLegacy == asked = <<"legacy">>

\* An open session has its status or is owed it.
Open ==
    /\ hasJson => session /\ Idle(owed, fromUpstream)
    /\ session /\ ~hasJson => StatusDue(owed, fromUpstream)
    /\ ~session => Idle(owed, fromUpstream)

\* The client has its pong, in the mode that gives it.
Ponged ==
    \/ Answered(toClient, ZeroPong) /\ config.ping = "ZeroMs"
    \/ Answered(toClient, ClientPong) /\ config.ping = "Local"
    \/ /\ Answered(toClient, ClientPong) /\ config.ping = "Passthrough"
       /\ session /\ Idle(owed, fromUpstream)

AskedInv ==
    /\ fromClient \in Seq({"request", "ping"})
    /\ ForLegacy \/ asked \in Seq({"request", "ping"})
    /\ Len(asked) <= MaxSent /\ MaxSent \in Nat
    /\ exchange \in {"legacy", "legacyRead"} => ForLegacy
    /\ exchange \notin {"legacy", "legacyRead", "done", "failed"} => ~ForLegacy

\* What each stage knows of the session and of what is due.
SessionInv ==
    /\ Wire(owed, fromUpstream)
    /\ exchange \in {"request", "connect", "legacy", "connectPing"} =>
          ~session /\ ~hasJson /\ Idle(owed, fromUpstream)
    /\ exchange \in {"readJson", "readPingJson"} =>
          session /\ ~hasJson /\ StatusDue(owed, fromUpstream)
    /\ exchange = "legacyRead" => ~hasJson /\ StatusDue(owed, fromUpstream)
    /\ exchange \in {"build", "ping"} => Open
    /\ exchange = "pong" => /\ session
                            /\ hasJson => PongDue(owed, fromUpstream)
                            /\ ~hasJson => BothDue(owed, fromUpstream)
    /\ exchange = "done" /\ (hasJson \/ ForLegacy) => Idle(owed, fromUpstream)

\* What each stage knows of what the client was told.
ToldInv ==
    /\ exchange \in {"request", "connect", "legacy", "readJson", "legacyRead", "build"} =>
          toClient = <<>>
    /\ exchange \in {"ping", "connectPing", "readPingJson", "pong"} => Told(toClient)
    /\ exchange = "ping" => config.ping \in {"Local", "Passthrough"}
    /\ exchange \in {"connectPing", "readPingJson", "pong"} => config.ping = "Passthrough"
    /\ exchange = "done" => IF ForLegacy THEN ToldLegacy(toClient) ELSE Told(toClient) \/ Ponged
    /\ exchange = "failed" => toClient = <<>> \/ (~ForLegacy /\ Told(toClient))

MotdInv ==
    /\ config \in Config
    /\ exchange \in Waits \cup {"done", "failed"}
    /\ session \in BOOLEAN /\ hasJson \in BOOLEAN /\ gone \subseteq {"client", "upstream"}
    /\ AskedInv /\ SessionInv /\ ToldInv

\* The steps of the handler do not touch what the client sends, but for what
\* they read of it.
LEMMA AskedStep ==
    ASSUME AskedInv, asked' = asked,
           fromClient' = fromClient \/ (fromClient # <<>> /\ fromClient' = Tail(fromClient)),
           exchange \in {"legacy", "legacyRead"} => exchange' \in {"legacyRead", "done", "failed"},
           exchange \notin {"legacy", "legacyRead"} => exchange' \notin {"legacy", "legacyRead"},
           exchange \notin {"done", "failed"}
    PROVE  AskedInv'
<1>1. fromClient' \in Seq({"request", "ping"})
  BY HeadTailProperties DEF AskedInv
<1> QED  BY <1>1 DEF AskedInv, ForLegacy

\* A handler that fails leaves everything as it is.
LEMMA FailStep ==
    ASSUME MotdInv, NEW from \in {"request", "connect", "readJson", "build", "ping", "connectPing",
                                  "readPingJson", "pong", "legacy", "legacyRead"},
           Fails(from)
    PROVE  MotdInv'
<1>1. /\ exchange = from /\ exchange' = "failed"
      /\ UNCHANGED <<config, fromClient, asked, session, hasJson, owed, fromUpstream, gone, toClient>>
  BY DEF Fails, Goes, askVars, upstreamVars
<1>2. AskedInv'
  BY <1>1, AskedStep DEF MotdInv
<1>3. SessionInv'
  BY <1>1 DEF MotdInv, SessionInv
<1>4. ToldInv'
  BY <1>1 DEF MotdInv, ToldInv, AskedInv, ForLegacy
<1> QED  BY <1>1, <1>2, <1>3, <1>4 DEF MotdInv

\* The client sends a packet.
LEMMA ClientAsksStep ==
    ASSUME MotdInv, NEW kind \in {"request", "ping"}, ClientAsks(kind)
    PROVE  MotdInv'
<1>1. /\ Len(asked) < MaxSent /\ ~ForLegacy
      /\ asked' = Append(asked, kind) /\ fromClient' = Append(fromClient, kind)
      /\ UNCHANGED <<config, exchange, session, hasJson, owed, fromUpstream, gone, toClient>>
  BY DEF ClientAsks, upstreamVars, ForLegacy
<1>2. asked \in Seq({"request", "ping"}) /\ fromClient \in Seq({"request", "ping"})
  BY <1>1 DEF MotdInv, AskedInv
<1>3. /\ asked' \in Seq({"request", "ping"}) /\ fromClient' \in Seq({"request", "ping"})
      /\ Len(asked') = Len(asked) + 1
  BY <1>1, <1>2, AppendProperties
<1>4. ~ForLegacy'
  <2>1. asked'[Len(asked) + 1] \in {"request", "ping"}
    BY <1>1, <1>2, AppendProperties
  <2>2. <<"legacy">>[1] = "legacy" /\ Len(<<"legacy">>) = 1
    OBVIOUS
  <2>3. ASSUME asked' = <<"legacy">> PROVE FALSE
    <3>1. Len(asked) + 1 = 1
      BY <1>3, <2>2, <2>3, Zenon
    <3>2. asked'[1] \in {"request", "ping"}
      BY <2>1, <3>1, Zenon
    <3> QED  BY <2>2, <2>3, <3>2
  <2> QED  BY <2>3 DEF ForLegacy
<1>5. Len(asked') <= MaxSent
  <2>1. PICK n \in Nat : n = Len(asked)
    BY <1>2, LenProperties
  <2>2. MaxSent \in Nat
    BY DEF MotdInv, AskedInv
  <2>3. n < MaxSent /\ Len(asked') = n + 1
    BY <1>1, <1>3, <2>1
  <2>4. n + 1 <= MaxSent
    BY <2>2, <2>3
  <2> QED  BY <2>3, <2>4
<1>6. AskedInv'
  BY <1>1, <1>3, <1>4, <1>5 DEF MotdInv, AskedInv
<1>7. SessionInv' /\ ToldInv'
  BY <1>1, <1>4 DEF MotdInv, SessionInv, Open, ToldInv, Ponged
<1> QED  BY <1>1, <1>6, <1>7 DEF MotdInv

\* The upstream answers what it owes.
LEMMA AnswerStep == ASSUME MotdInv, UpstreamAnswers PROVE MotdInv'
<1>1. /\ owed # <<>> /\ owed' = Tail(owed)
      /\ fromUpstream' = Append(fromUpstream, IF Head(owed) = "request" THEN "status" ELSE "pong")
      /\ UNCHANGED <<config, exchange, fromClient, asked, session, hasJson, gone, toClient>>
  BY DEF UpstreamAnswers, askVars
<1>2. /\ ~Idle(owed, fromUpstream)
      /\ StatusDue(owed, fromUpstream) => StatusDue(owed', fromUpstream')
      /\ PongDue(owed, fromUpstream) => PongDue(owed', fromUpstream')
      /\ BothDue(owed, fromUpstream) => BothDue(owed', fromUpstream')
  BY <1>1, WireAnswers
<1>3. AskedInv' /\ ToldInv'
  BY <1>1, <1>2 DEF MotdInv, AskedInv, ForLegacy, ToldInv, Ponged
<1>4. SessionInv'
  BY <1>1, <1>2 DEF MotdInv, SessionInv, Wire, Open, ForLegacy
<1> QED  BY <1>1, <1>3, <1>4 DEF MotdInv

\* The handler reads the request, and opens a session if it wants one.
LEMMA OpeningStep ==
    ASSUME MotdInv, ReadRequest \/ Connect \/ ReadJson
    PROVE  MotdInv'
<1>1. CASE ReadRequest
  <2>1. /\ UNCHANGED <<config, asked, session, hasJson, owed, fromUpstream, gone, toClient>>
        /\ fromClient # <<>> /\ fromClient' = Tail(fromClient)
        /\ exchange = "request" /\ exchange' \in {"build", "connect", "failed"}
    BY <1>1 DEF ReadRequest, ClientSent, Goes, upstreamVars
  <2>2. AskedInv'
    BY <2>1, AskedStep DEF MotdInv
  <2>3. SessionInv' /\ ToldInv'
    BY <2>1 DEF MotdInv, AskedInv, SessionInv, Open, ToldInv, ForLegacy
  <2> QED  BY <2>1, <2>2, <2>3 DEF MotdInv, Waits
<1>2. CASE Connect
  <2>1. /\ UNCHANGED <<config, fromClient, asked, hasJson, fromUpstream, gone, toClient>>
        /\ session' = TRUE /\ owed' = Append(owed, "request")
        /\ exchange = "connect" /\ exchange' \in {"readJson", "build"}
    BY <1>2 DEF Connect, Goes, askVars
  <2>2. AskedInv'
    BY <2>1, AskedStep DEF MotdInv
  <2>3. StatusDue(owed', fromUpstream') /\ ~hasJson /\ toClient = <<>>
    BY <2>1, WireAsks DEF MotdInv, SessionInv, ToldInv
  <2>4. SessionInv' /\ ToldInv'
    BY <2>1, <2>3 DEF SessionInv, Wire, Open, ToldInv
  <2> QED  BY <2>1, <2>2, <2>4 DEF MotdInv, Waits
<1>3. CASE ReadJson
  <2>1. /\ UNCHANGED <<config, fromClient, asked, session, owed, gone, toClient>>
        /\ fromUpstream # <<>> /\ fromUpstream' = Tail(fromUpstream) /\ hasJson' = TRUE
        /\ exchange = "readJson" /\ exchange' = "build"
    BY <1>3 DEF ReadJson, UpstreamSent, Goes, askVars
  <2>2. AskedInv'
    BY <2>1, AskedStep DEF MotdInv
  <2>3. Idle(owed', fromUpstream') /\ session /\ toClient = <<>>
    BY <2>1, WireReads DEF MotdInv, SessionInv, ToldInv
  <2>4. SessionInv' /\ ToldInv'
    BY <2>1, <2>3 DEF SessionInv, Wire, Open, ToldInv
  <2> QED  BY <2>1, <2>2, <2>4 DEF MotdInv, Waits
<1> QED  BY <1>1, <1>2, <1>3

\* The status is sent, and with it, in the mode of that name, a pong.
LEMMA StatusStep == ASSUME MotdInv, SendStatus PROVE MotdInv'
<1>1. /\ UNCHANGED <<config, fromClient, asked, session, hasJson, owed, fromUpstream, gone>>
      /\ exchange = "build"
      /\ exchange' = IF config.ping \in {"ZeroMs", "Disconnect"} THEN "done" ELSE "ping"
      /\ toClient' = toClient \o (IF config.ping = "ZeroMs" THEN <<StatusSent, ZeroPong>>
                                  ELSE <<StatusSent>>)
  BY DEF SendStatus, Goes, askVars, upstreamVars, ZeroPong
<1>2. toClient = <<>> /\ Open /\ Wire(owed, fromUpstream) /\ ~ForLegacy
  BY <1>1 DEF MotdInv, AskedInv, SessionInv, ToldInv
<1>3. config.ping \in {"Local", "ZeroMs", "Passthrough", "Disconnect"}
  BY DEF MotdInv, Config
<1>4. StatusSent \in Status
  BY DEF StatusSent, Status
<1> DEFINE s == StatusSent
<1> HIDE DEF s
<1>5. ASSUME NEW x, NEW y PROVE <<>> \o <<x>> = <<x>> /\ <<>> \o <<x, y>> = <<x, y>>
  <2>1. <<x>> \in Seq({x, y}) /\ <<x, y>> \in Seq({x, y})
    OBVIOUS
  <2> QED  BY <2>1, ConcatEmptySeq
<1>6. AskedInv'
  BY <1>1, AskedStep DEF MotdInv
<1>7. SessionInv'
  BY <1>1, <1>2 DEF SessionInv, Open, ForLegacy
<1>8. CASE config.ping = "ZeroMs"
  <2>1. exchange' = "done" /\ toClient' = <<s, ZeroPong>>
    BY <1>1, <1>2, <1>5, <1>8 DEF s
  <2>2. Answered(toClient', ZeroPong)
    BY <1>4, <2>1 DEF Answered, s
  <2>3. ToldInv'
    BY <1>1, <1>2, <1>8, <2>1, <2>2 DEF ToldInv, Ponged, ForLegacy
  <2> QED  BY <1>1, <1>6, <1>7, <2>1, <2>3 DEF MotdInv
<1>9. CASE config.ping # "ZeroMs"
  <2>1. toClient' = <<s>> /\ exchange' \in {"done", "ping"}
    BY <1>1, <1>2, <1>5, <1>9 DEF s
  <2>2. Told(toClient')
    BY <1>4, <2>1 DEF Told, s
  <2>3. exchange' = "ping" => config.ping \in {"Local", "Passthrough"}
    BY <1>1, <1>3, <1>9
  <2>4. ToldInv'
    BY <1>1, <1>2, <2>1, <2>2, <2>3 DEF ToldInv, ForLegacy
  <2> QED  BY <1>1, <1>6, <1>7, <2>1, <2>4 DEF MotdInv, Waits
<1> QED  BY <1>8, <1>9

\* A client that has its status is sent its pong.
LEMMA PongAfterStatus ==
    ASSUME NEW t, NEW u, Told(t), u = Append(t, ClientPong)
    PROVE  Answered(u, ClientPong)
<1>1. PICK s \in Status : t = <<s>>
  BY DEF Told
<1>2. u = <<s, ClientPong>>
  BY <1>1, ShortSeqs
<1> QED  BY <1>2 DEF Answered

\* The ping is read: it is answered, sent on, or asks for a session first.
LEMMA PingStep ==
    ASSUME MotdInv, ReadPingLocal \/ ReadPingOpen \/ ReadPingClosed
    PROVE  MotdInv'
<1>1. /\ UNCHANGED <<config, asked, session, hasJson, fromUpstream, gone>>
      /\ fromClient # <<>> /\ fromClient' = Tail(fromClient)
      /\ exchange = "ping" /\ exchange' \in {"done", "pong", "connectPing", "failed"}
  BY DEF ReadPingLocal, ReadPingOpen, ReadPingClosed, ClientSent, Goes, upstreamVars
<1>2. Told(toClient) /\ Open /\ ~ForLegacy /\ Wire(owed, fromUpstream)
  BY <1>1 DEF MotdInv, AskedInv, SessionInv, ToldInv
<1>3. AskedInv'
  BY <1>1, AskedStep DEF MotdInv
<1>4. CASE ReadPingLocal
  <2>1. /\ config.ping = "Local" /\ exchange' = "done" /\ owed' = owed
        /\ toClient' = Append(toClient, ClientPong)
    BY <1>4 DEF ReadPingLocal, SendPong, Goes, upstreamVars, ClientPong
  <2>2. Answered(toClient', ClientPong)
    BY <1>2, <2>1, PongAfterStatus
  <2>3. ToldInv'
    BY <1>1, <1>2, <2>1, <2>2 DEF ToldInv, Ponged, ForLegacy
  <2>4. SessionInv'
    BY <1>1, <1>2, <2>1 DEF SessionInv, Open, ForLegacy
  <2> QED  BY <1>1, <1>3, <2>1, <2>3, <2>4 DEF MotdInv
<1>5. CASE ReadPingOpen
  <2>1. /\ config.ping = "Passthrough" /\ session /\ exchange' = "pong"
        /\ owed' = Append(owed, "ping") /\ toClient' = toClient
    BY <1>5 DEF ReadPingOpen, Goes
  <2>2. /\ hasJson => PongDue(owed', fromUpstream')
        /\ ~hasJson => BothDue(owed', fromUpstream')
    BY <1>1, <1>2, <2>1, WireAsks DEF Open
  <2>3. SessionInv' /\ ToldInv'
    BY <1>1, <1>2, <2>1, <2>2 DEF SessionInv, ToldInv, Wire
  <2> QED  BY <1>1, <1>3, <2>1, <2>3 DEF MotdInv, Waits
<1>6. CASE ReadPingClosed
  <2>1. /\ config.ping = "Passthrough" /\ ~session /\ exchange' \in {"connectPing", "failed"}
        /\ owed' = owed /\ toClient' = toClient
    BY <1>6 DEF ReadPingClosed, Goes, upstreamVars
  <2>2. Idle(owed, fromUpstream) /\ ~hasJson
    BY <1>2, <2>1 DEF Open
  <2>3. SessionInv' /\ ToldInv'
    BY <1>1, <1>2, <2>1, <2>2 DEF SessionInv, ToldInv, Wire, ForLegacy
  <2> QED  BY <1>1, <1>3, <2>1, <2>3 DEF MotdInv, Waits
<1> QED  BY <1>4, <1>5, <1>6

\* The session that is opened for the ping alone: its status is read, the
\* ping is sent on, and the pong comes back to the client.
LEMMA PassedPingStep ==
    ASSUME MotdInv, ConnectPing \/ ReadPingJson \/ ReadPong
    PROVE  MotdInv'
<1>1. CASE ConnectPing
  <2>1. /\ UNCHANGED <<config, fromClient, asked, hasJson, fromUpstream, gone, toClient>>
        /\ session' = TRUE /\ owed' = Append(owed, "request")
        /\ exchange = "connectPing" /\ exchange' = "readPingJson"
    BY <1>1 DEF ConnectPing, Goes, askVars
  <2>2. AskedInv'
    BY <2>1, AskedStep DEF MotdInv
  <2>3. /\ StatusDue(owed', fromUpstream') /\ ~hasJson
        /\ Told(toClient) /\ config.ping = "Passthrough"
    BY <2>1, WireAsks DEF MotdInv, SessionInv, ToldInv
  <2>4. SessionInv' /\ ToldInv'
    BY <2>1, <2>3 DEF SessionInv, Wire, ToldInv
  <2> QED  BY <2>1, <2>2, <2>4 DEF MotdInv, Waits
<1>2. CASE ReadPingJson
  <2>1. /\ UNCHANGED <<config, fromClient, asked, session, gone, toClient>>
        /\ fromUpstream # <<>> /\ fromUpstream' = Tail(fromUpstream) /\ hasJson' = TRUE
        /\ owed' = Append(owed, "ping")
        /\ exchange = "readPingJson" /\ exchange' = "pong"
    BY <1>2 DEF ReadPingJson, UpstreamSent, Goes, askVars
  <2>2. AskedInv'
    BY <2>1, AskedStep DEF MotdInv
  <2>3. session /\ StatusDue(owed, fromUpstream) /\ Told(toClient) /\ config.ping = "Passthrough"
    BY <2>1 DEF MotdInv, SessionInv, ToldInv
  <2>4. PongDue(owed', fromUpstream')
    BY <2>1, <2>3, WireReads, WireAsks
  <2>5. SessionInv' /\ ToldInv'
    BY <2>1, <2>3, <2>4 DEF SessionInv, Wire, ToldInv
  <2> QED  BY <2>1, <2>2, <2>5 DEF MotdInv, Waits
<1>3. CASE ReadPong
  <2>1. /\ UNCHANGED <<config, fromClient, asked, session, hasJson, owed, gone>>
        /\ fromUpstream # <<>> /\ Head(fromUpstream) = "pong" /\ fromUpstream' = Tail(fromUpstream)
        /\ toClient' = Append(toClient, ClientPong)
        /\ exchange = "pong" /\ exchange' = "done"
    BY <1>3 DEF ReadPong, UpstreamSent, SendPong, Goes, askVars, ClientPong
  <2>2. AskedInv'
    BY <2>1, AskedStep DEF MotdInv
  <2>3. /\ session /\ Told(toClient) /\ config.ping = "Passthrough" /\ ~ForLegacy
        /\ hasJson => PongDue(owed, fromUpstream)
        /\ ~hasJson => BothDue(owed, fromUpstream)
    BY <2>1 DEF MotdInv, AskedInv, SessionInv, ToldInv
  <2>4. Idle(owed', fromUpstream')
    <3>1. ~BothDue(owed, fromUpstream)
      BY <2>1, WireReads
    <3> QED  BY <2>1, <2>3, <3>1, WireReads
  <2>5. Answered(toClient', ClientPong)
    BY <2>1, <2>3, PongAfterStatus
  <2>6. SessionInv' /\ ToldInv'
    BY <2>1, <2>3, <2>4, <2>5 DEF SessionInv, Wire, ToldInv, Ponged, ForLegacy
  <2> QED  BY <2>1, <2>2, <2>6 DEF MotdInv
<1> QED  BY <1>1, <1>2, <1>3

\* A legacy ping gets its one answer, from here or from the upstream.
LEMMA LegacyStep ==
    ASSUME MotdInv, LegacyLocal \/ LegacyConnect \/ LegacyRead
    PROVE  MotdInv'
<1>1. ASSUME NEW text \in {"local", "upstream", "template"}, toClient = <<>>, LegacyReply(text)
      PROVE  ToldLegacy(toClient')
  <2>1. PICK l \in Legacy : toClient' = Append(<<>>, l)
    BY <1>1 DEF LegacyReply, Legacy
  <2>2. toClient' = <<l>>
    BY <2>1, ShortSeqs
  <2> QED  BY <2>2 DEF ToldLegacy
<1>2. CASE LegacyLocal
  <2>1. /\ UNCHANGED <<config, fromClient, asked, session, hasJson, owed, fromUpstream, gone>>
        /\ exchange = "legacy" /\ exchange' = "done" /\ LegacyReply("local")
    BY <1>2 DEF LegacyLocal, Goes, askVars, upstreamVars
  <2>2. AskedInv'
    BY <2>1, AskedStep DEF MotdInv
  <2>3. toClient = <<>> /\ Idle(owed, fromUpstream) /\ ForLegacy
    BY <2>1 DEF MotdInv, AskedInv, SessionInv, ToldInv
  <2>4. ToldLegacy(toClient')
    BY <1>1, <2>1, <2>3
  <2>5. SessionInv' /\ ToldInv'
    BY <2>1, <2>3, <2>4 DEF SessionInv, Wire, ToldInv, ForLegacy
  <2> QED  BY <2>1, <2>2, <2>5 DEF MotdInv
<1>3. CASE LegacyConnect
  <2>1. /\ UNCHANGED <<config, fromClient, asked, hasJson, fromUpstream, gone, toClient>>
        /\ session' = TRUE /\ owed' = Append(owed, "request")
        /\ exchange = "legacy" /\ exchange' = "legacyRead"
    BY <1>3 DEF LegacyConnect, Goes, askVars
  <2>2. AskedInv'
    BY <2>1, AskedStep DEF MotdInv
  <2>3. StatusDue(owed', fromUpstream') /\ ~hasJson /\ toClient = <<>>
    BY <2>1, WireAsks DEF MotdInv, SessionInv, ToldInv
  <2>4. SessionInv' /\ ToldInv'
    BY <2>1, <2>3 DEF SessionInv, Wire, ToldInv
  <2> QED  BY <2>1, <2>2, <2>4 DEF MotdInv, Waits
<1>4. CASE LegacyRead
  <2>1. /\ UNCHANGED <<config, fromClient, asked, session, hasJson, owed, gone>>
        /\ fromUpstream # <<>> /\ fromUpstream' = Tail(fromUpstream)
        /\ exchange = "legacyRead" /\ exchange' = "done"
        /\ LegacyReply("upstream") \/ LegacyReply("template")
    BY <1>4 DEF LegacyRead, UpstreamSent, Goes, askVars
  <2>2. AskedInv'
    BY <2>1, AskedStep DEF MotdInv
  <2>3. toClient = <<>> /\ StatusDue(owed, fromUpstream) /\ ForLegacy
    BY <2>1 DEF MotdInv, AskedInv, SessionInv, ToldInv
  <2>4. Idle(owed', fromUpstream') /\ ToldLegacy(toClient')
    BY <1>1, <2>1, <2>3, WireReads
  <2>5. SessionInv' /\ ToldInv'
    BY <2>1, <2>3, <2>4 DEF SessionInv, Wire, ToldInv, ForLegacy
  <2> QED  BY <2>1, <2>2, <2>5 DEF MotdInv
<1> QED  BY <1>2, <1>3, <1>4

\* The invariant of the exchange holds in every state of every behaviour, for
\* every setting.
THEOREM MotdInvariance == MotdSpec => []MotdInv
<1>1. MotdInit => MotdInv
  <2> SUFFICES ASSUME MotdInit PROVE MotdInv
    OBVIOUS
  <2>1. /\ config \in Config /\ fromClient = <<>> /\ session = FALSE /\ hasJson = FALSE
        /\ owed = <<>> /\ fromUpstream = <<>> /\ gone = {} /\ toClient = <<>>
        /\ \/ exchange = "request" /\ asked = <<>>
           \/ exchange = "legacy" /\ asked = <<"legacy">>
    BY DEF MotdInit
  <2>2. MaxSent \in Nat /\ 0 <= MaxSent /\ 1 <= MaxSent
    BY MotdAssumption
  <2>3. /\ <<>> \in Seq({"request", "ping"}) /\ <<>> # <<"legacy">>
        /\ Len(<<>>) = 0 /\ Len(<<"legacy">>) = 1
    OBVIOUS
  <2>4. AskedInv
    <3>1. Len(asked) <= MaxSent
      BY <2>1, <2>2, <2>3
    <3> QED  BY <2>1, <2>2, <2>3, <3>1 DEF AskedInv, ForLegacy
  <2>5. SessionInv /\ ToldInv
    BY <2>1 DEF SessionInv, ToldInv, Idle, Wire
  <2>6. session \in BOOLEAN /\ hasJson \in BOOLEAN
    BY <2>1, Zenon
  <2> QED  BY <2>1, <2>4, <2>5, <2>6 DEF MotdInv, Waits
<1>2. MotdInv /\ [MotdNext]_motdVars => MotdInv'
  <2> SUFFICES ASSUME MotdInv, [MotdNext]_motdVars PROVE MotdInv'
    OBVIOUS
  <2>1. CASE ReadRequest \/ Connect \/ ReadJson
    BY <2>1, OpeningStep
  <2>2. CASE SendStatus
    BY <2>2, StatusStep
  <2>3. CASE ReadPingLocal \/ ReadPingOpen \/ ReadPingClosed
    BY <2>3, PingStep
  <2>4. CASE ConnectPing \/ ReadPingJson \/ ReadPong
    BY <2>4, PassedPingStep
  <2>5. CASE LegacyLocal \/ LegacyConnect \/ LegacyRead
    BY <2>5, LegacyStep
  <2>6. CASE ClientFails
    BY <2>6, FailStep DEF ClientFails
  <2>7. CASE ConnectFails \/ BuildFails \/ FaviconFails
    BY <2>7, FailStep DEF ConnectFails, BuildFails, FaviconFails
  <2>8. CASE UpstreamFails
    BY <2>8, FailStep DEF UpstreamFails
  <2>9. CASE \E kind \in {"request", "ping"} : ClientAsks(kind)
    BY <2>9, ClientAsksStep
  <2>10. CASE UpstreamAnswers
    BY <2>10, AnswerStep
  <2>11. CASE \E peer \in {"client", "upstream"} : Leaves(peer)
    BY <2>11 DEF Leaves, askVars, upstreamVars, MotdInv, AskedInv, SessionInv, ToldInv,
                 Open, Ponged, ForLegacy
  <2>12. CASE UNCHANGED motdVars
    BY <2>12 DEF motdVars, askVars, upstreamVars, MotdInv, AskedInv, SessionInv, ToldInv,
                 Open, Ponged, ForLegacy
  <2> QED  BY <2>1, <2>2, <2>3, <2>4, <2>5, <2>6, <2>7, <2>8, <2>9, <2>10, <2>11, <2>12
              DEF MotdNext, Serve
<1> QED  BY <1>1, <1>2, PTL DEF MotdSpec

\* The type invariant of the exchange: what either side is told is made of the
\* packets that it may be told.
THEOREM MotdTypeCorrect == MotdSpec => []MotdTypeOK
<1>1. ASSUME MotdInv PROVE MotdTypeOK
  <2>1. owed \in Seq({"request", "ping"}) /\ fromUpstream \in Seq({"status", "pong"})
    BY <1>1, WireCounts DEF MotdInv, SessionInv
  <2>2. asked \in Seq({"request", "ping", "legacy"})
    <3>1. CASE ForLegacy
      BY <3>1 DEF ForLegacy
    <3>2. CASE asked \in Seq({"request", "ping"})
      BY <3>2
    <3> QED  BY <1>1, <3>1, <3>2 DEF MotdInv, AskedInv
  <2>3. toClient \in Seq(Status \cup Pong \cup Legacy)
    <3>1. \/ toClient = <<>> \/ Told(toClient) \/ ToldLegacy(toClient)
          \/ \E p \in {ZeroPong, ClientPong} : Answered(toClient, p)
      BY <1>1 DEF MotdInv, ToldInv, Ponged, Waits
    <3> QED  BY <3>1, ToldTypes
  <2> QED  BY <1>1, <2>1, <2>2, <2>3 DEF MotdTypeOK, MotdInv, AskedInv
<1> QED  BY <1>1, MotdInvariance, PTL

\* A client gets one status and after it at most one pong, its own only when
\* it has come back from where it was to be answered; a legacy ping gets one
\* answer.  Of the upstream no answer is ever left to be taken for another,
\* once its status has been read.
THEOREM EachIsAnsweredOnce == MotdSpec => []OneAnswerEach
<1>1. ASSUME MotdInv PROVE OneAnswerEach
  <2>1. \/ toClient = <<>>
        \/ Told(toClient) /\ ~ForLegacy
        \/ ToldLegacy(toClient) /\ ForLegacy
        \/ Ponged /\ exchange = "done" /\ ~ForLegacy
    <3>1. CASE exchange \in {"request", "connect", "legacy", "readJson", "legacyRead", "build"}
      BY <1>1, <3>1 DEF MotdInv, ToldInv
    <3>2. CASE exchange \in {"ping", "connectPing", "readPingJson", "pong"}
      BY <1>1, <3>2 DEF MotdInv, ToldInv, AskedInv
    <3>3. CASE exchange \in {"done", "failed"}
      BY <1>1, <3>3 DEF MotdInv, ToldInv
    <3> QED  BY <1>1, <3>1, <3>2, <3>3 DEF MotdInv, Waits
  <2>2. /\ Len(toClient) <= 2
        /\ \A i \in DOMAIN toClient :
              /\ (toClient[i].kind = "pong") = (i = 2)
              /\ (toClient[i].kind = "legacy") = ForLegacy
        /\ Len(toClient) = 2 =>
              /\ exchange = "done" /\ config.ping # "Disconnect"
              /\ (toClient[2].payload = "zero") = (config.ping = "ZeroMs")
              /\ config.ping = "Passthrough" => session /\ Idle(owed, fromUpstream)
    <3>1. CASE toClient = <<>>
      <4>1. Len(toClient) = 0 /\ DOMAIN toClient = {}
        BY <3>1, ToldTypes
      <4> QED  BY <4>1
    <3>2. CASE Told(toClient) /\ ~ForLegacy
      <4>1. Len(toClient) = 1 /\ DOMAIN toClient = {1} /\ toClient[1].kind = "status"
        BY <3>2, ToldTypes
      <4>2. \A i \in DOMAIN toClient :
               /\ (toClient[i].kind = "pong") = (i = 2)
               /\ (toClient[i].kind = "legacy") = ForLegacy
        BY <3>2, <4>1 DEF ForLegacy
      <4>3. Len(toClient) <= 2 /\ Len(toClient) # 2
        BY <4>1
      <4> QED  BY <4>2, <4>3
    <3>3. CASE ToldLegacy(toClient) /\ ForLegacy
      <4>1. Len(toClient) = 1 /\ DOMAIN toClient = {1} /\ toClient[1].kind = "legacy"
        BY <3>3, ToldTypes
      <4>2. \A i \in DOMAIN toClient :
               /\ (toClient[i].kind = "pong") = (i = 2)
               /\ (toClient[i].kind = "legacy") = ForLegacy
        BY <3>3, <4>1 DEF ForLegacy
      <4>3. Len(toClient) <= 2 /\ Len(toClient) # 2
        BY <4>1
      <4> QED  BY <4>2, <4>3
    <3>4. CASE Ponged /\ exchange = "done" /\ ~ForLegacy
      <4>1. PICK p \in {ZeroPong, ClientPong} :
               /\ Answered(toClient, p)
               /\ p = ZeroPong => config.ping = "ZeroMs"
               /\ p = ClientPong => \/ config.ping = "Local"
                                    \/ config.ping = "Passthrough" /\ session /\ Idle(owed, fromUpstream)
        <5>1. ZeroPong # ClientPong
          BY DEF ZeroPong, ClientPong
        <5> QED  BY <3>4, <5>1 DEF Ponged
      <4>2. /\ Len(toClient) = 2 /\ DOMAIN toClient = {1, 2}
            /\ toClient[1].kind = "status" /\ toClient[2] = p
        BY <4>1, ToldTypes
      <4>3. /\ p.kind = "pong"
            /\ p = ZeroPong => p.payload = "zero"
            /\ p = ClientPong => p.payload = "client"
        BY DEF ZeroPong, ClientPong
      <4> HIDE DEF ZeroPong, ClientPong
      <4>4. \A i \in DOMAIN toClient :
               /\ (toClient[i].kind = "pong") = (i = 2)
               /\ (toClient[i].kind = "legacy") = ForLegacy
        BY <3>4, <4>2, <4>3 DEF ForLegacy
      <4>5. /\ config.ping # "Disconnect"
            /\ (toClient[2].payload = "zero") = (config.ping = "ZeroMs")
            /\ config.ping = "Passthrough" => session /\ Idle(owed, fromUpstream)
        <5>1. CASE p = ZeroPong
          BY <4>1, <4>2, <4>3, <5>1
        <5>2. CASE p = ClientPong
          BY <4>1, <4>2, <4>3, <5>2
        <5> QED  BY <5>1, <5>2
      <4> QED  BY <3>4, <4>2, <4>4, <4>5
    <3> QED  BY <2>1, <3>1, <3>2, <3>3, <3>4
  <2>3. exchange # "failed" /\ (hasJson \/ ForLegacy) =>
           Len(owed) + Len(fromUpstream) = IF exchange \in {"pong", "legacyRead"} THEN 1 ELSE 0
    <3> SUFFICES ASSUME exchange # "failed", hasJson \/ ForLegacy
                 PROVE  Len(owed) + Len(fromUpstream)
                           = IF exchange \in {"pong", "legacyRead"} THEN 1 ELSE 0
      OBVIOUS
    <3>1. CASE exchange \in {"pong", "legacyRead"}
      <4>1. StatusDue(owed, fromUpstream) \/ PongDue(owed, fromUpstream)
        BY <1>1, <3>1 DEF MotdInv, AskedInv, SessionInv
      <4> QED  BY <3>1, <4>1, WireCounts
    <3>2. CASE exchange \notin {"pong", "legacyRead"}
      <4>1. Idle(owed, fromUpstream)
        BY <1>1, <3>2 DEF MotdInv, AskedInv, SessionInv, Open, Waits
      <4> QED  BY <3>2, <4>1, WireCounts
    <3> QED  BY <3>1, <3>2
  <2> QED  BY <2>2, <2>3 DEF OneAnswerEach, ForLegacy, Idle
<1> QED  BY <1>1, MotdInvariance, PTL
=============================================================================
