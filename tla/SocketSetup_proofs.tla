-------------------------- MODULE SocketSetup_proofs --------------------------
(***************************************************************************)
(* Proofs about SocketSetup, for any addresses and any options asked for:   *)
(* the interface and the mark are set before the socket is used, the        *)
(* addresses are tried one after the other, and no option is set twice.     *)
(***************************************************************************)
EXTENDS SocketSetup, TLAPS

Stage == {"resolve", "socket", "before", "writable", "after", "end"}

\* The sequences and sets that hold options.
ShapeInv ==
    /\ hosts \in Seq(Hosts) /\ at \in 0 .. Len(hosts)
    /\ stage \in Stage
    /\ todo \in Seq(AllOptions)

\* While a socket is being prepared in a build with linux-accel, a configured
\* option that must not be left out is set already or still to come.
PolicyInv ==
    /\ accel /\ stage = "before" => wanted \cap Mandatory \subseteq applied \cup Names(todo)
    /\ PolicyHolds

\* All addresses below the current one were tried or given up, the current one
\* is not before its socket is ready for it, and a connect goes on with its
\* socket only if the host answers or that is left to the first write.
Reached == hosts[at].does = "answers" \/ Deferred

OrderInv ==
    /\ 1 .. at - 1 \subseteq Tried \cup unusable
    /\ stage = "resolve" => at = 0
    /\ stage \in {"socket", "before", "writable"} => at \in 1 .. Len(hosts)
    /\ stage \in {"socket", "before"} => at \notin Tried \cup unusable
    /\ stage = "writable" => at \in Tried
    /\ stage = "after" /\ role = "connect" => Reached
    /\ stage # "end" => result = "none"
    /\ TriedInOrder

\* The head of a list and the names of its tail are the names of the list.
LEMMA NamesOfTail ==
    ASSUME NEW S, NEW list \in Seq(S), list # <<>>
    PROVE  Names(list) = {Head(list)} \cup Names(Tail(list))
<1>1. Len(list) \in Nat /\ Len(list) >= 1 /\ DOMAIN list = 1 .. Len(list)
  OBVIOUS
<1>2. /\ Len(Tail(list)) = Len(list) - 1 /\ DOMAIN Tail(list) = 1 .. Len(list) - 1
      /\ \A i \in 1 .. Len(list) - 1 : Tail(list)[i] = list[i + 1]
  BY <1>1
<1>3. \A i \in 1 .. Len(list) : i = 1 \/ i - 1 \in 1 .. Len(list) - 1
  BY <1>1
<1>4. Names(list) \subseteq {Head(list)} \cup Names(Tail(list))
  <2> SUFFICES ASSUME NEW i \in 1 .. Len(list)
               PROVE  list[i] \in {Head(list)} \cup Names(Tail(list))
    BY <1>1 DEF Names
  <2>1. CASE i = 1
    BY <2>1
  <2>2. CASE i - 1 \in 1 .. Len(list) - 1
    <3>1. Tail(list)[i - 1] = list[i]
      BY <1>2, <2>2
    <3> QED  BY <1>2, <2>2, <3>1 DEF Names
  <2> QED  BY <1>3, <2>1, <2>2
<1>5. {Head(list)} \cup Names(Tail(list)) \subseteq Names(list)
  <2>1. Head(list) \in Names(list)
    BY <1>1 DEF Names
  <2>2. ASSUME NEW i \in 1 .. Len(list) - 1 PROVE Tail(list)[i] \in Names(list)
    <3>1. i + 1 \in 1 .. Len(list) /\ Tail(list)[i] = list[i + 1]
      BY <1>1, <1>2
    <3> QED  BY <1>1, <3>1 DEF Names
  <2> QED  BY <1>2, <2>1, <2>2 DEF Names
<1> QED  BY <1>4, <1>5

\* Both lists that come before a bind or a connect name the interface and the
\* mark.
LEMMA MandatoryListed == Mandatory \subseteq Names(PreBind) \cap Names(PreConnect)
<1>1. "interface" \in Names(PreBind) /\ "mark" \in Names(PreBind)
  BY 3 \in DOMAIN PreBind, 4 \in DOMAIN PreBind, PreBind[3] = "interface",
     PreBind[4] = "mark" DEF Names, PreBind
<1>2. "interface" \in Names(PreConnect) /\ "mark" \in Names(PreConnect)
  BY 1 \in DOMAIN PreConnect, 2 \in DOMAIN PreConnect, PreConnect[1] = "interface",
     PreConnect[2] = "mark" DEF Names, PreConnect
<1> QED  BY <1>1, <1>2 DEF Mandatory

-----------------------------------------------------------------------------
(* The options *)

\* The lists a stage begins with hold options.
LEMMA ListTypes ==
    /\ PreBind \in Seq(AllOptions) /\ PostListen \in Seq(AllOptions)
    /\ PreConnect \in Seq(AllOptions) /\ SockRef \in Seq(AllOptions)
<1>1. ASSUME NEW S, NEW list \in Seq(S), Names(list) \subseteq AllOptions
      PROVE  list \in Seq(AllOptions)
  BY <1>1 DEF Names
<1>2. /\ PreBind \in Seq(Names(PreBind)) /\ PostListen \in Seq(Names(PostListen))
      /\ PreConnect \in Seq(Names(PreConnect)) /\ SockRef \in Seq(Names(SockRef))
  BY DEF PreBind, PostListen, PreConnect, SockRef, Names
<1>3. /\ Names(PreBind) \subseteq AllOptions /\ Names(PostListen) \subseteq AllOptions
      /\ Names(PreConnect) \subseteq AllOptions /\ Names(SockRef) \subseteq AllOptions
  BY DEF AllOptions
<1> QED  BY <1>1, <1>2, <1>3

\* The next address, or the end: the list of options is empty then, and
\* there is no socket that is being prepared.
LEMMA TryNextShape ==
    ASSUME ShapeInv, TryNext, UNCHANGED configVars
    PROVE  ShapeInv' /\ stage' # "before"
<1>1. hosts' = hosts /\ Len(hosts) \in Nat
  BY DEF ShapeInv, configVars
<1>2. CASE at < Len(hosts) /\ (role = "connect" \/ at = 0)
  <2>1. at' = at + 1 /\ stage' = "socket" /\ todo' = <<>>
    BY <1>2 DEF TryNext
  <2> QED  BY <1>1, <1>2, <2>1 DEF ShapeInv, Stage
<1>3. CASE ~(at < Len(hosts) /\ (role = "connect" \/ at = 0))
  <2>1. stage' = "end" /\ UNCHANGED <<at, todo>>
    BY <1>3 DEF TryNext, Finish
  <2> QED  BY <1>1, <2>1 DEF ShapeInv, Stage
<1> QED  BY <1>2, <1>3

\* Shapes are kept by every step.
LEMMA ShapeStep == ASSUME ShapeInv, [Next]_vars PROVE ShapeInv'
<1> USE DEF ShapeInv, Stage
<1>1. CASE Resolve \/ CreateFails
  BY <1>1, TryNextShape DEF Resolve, CreateFails, GiveUpAddress, Finish, configVars
<1>2. CASE CreateSocket
  BY <1>2, ListTypes DEF CreateSocket, configVars
<1>3. CASE SetOption \/ OptionIgnored
  <2>1. /\ todo # <<>> /\ todo' = Tail(todo)
        /\ UNCHANGED <<hosts, at, stage>>
    BY <1>3 DEF SetOption, OptionIgnored, configVars
  <2>2. Tail(todo) \in Seq(AllOptions)
    BY <2>1
  <2> QED  BY <2>1, <2>2
<1>4. CASE OptionFailsBefore \/ OptionFailsAfter
  BY <1>4, TryNextShape
     DEF OptionFailsBefore, OptionFailsAfter, GiveUpAddress, Finish, configVars
<1>5. CASE Bind
  BY <1>5, ListTypes DEF Bind, Finish, configVars
<1>6. CASE Connect
  BY <1>6, ListTypes, TryNextShape DEF Connect, Connected, configVars
<1>7. CASE Writable
  BY <1>7, ListTypes, TryNextShape DEF Writable, Connected, configVars
<1>8. CASE Ready \/ TimedOut
  BY <1>8 DEF Ready, TimedOut, Finish, configVars
<1>9. CASE UNCHANGED vars
  BY <1>9 DEF vars, configVars
<1> QED
  BY <1>1, <1>2, <1>3, <1>4, <1>5, <1>6, <1>7, <1>8, <1>9 DEF Next, Step, Options

\* What a step does that uses no socket and leaves no preparation behind.
LEMMA NoUseKeepsPolicy ==
    ASSUME PolicyInv, UNCHANGED <<configVars, used>>, stage' # "before"
    PROVE  PolicyInv'
BY DEF PolicyInv, PolicyHolds, configVars

\* An option leaves the list only when it is set, is not configured or not
\* built, or may be left out; a socket is used when the list is empty.
LEMMA PolicyStep == ASSUME ShapeInv, PolicyInv, [Next]_vars PROVE PolicyInv'
<1>1. CASE Resolve \/ CreateFails \/ Ready \/ TimedOut \/ OptionFailsAfter
  <2>1. UNCHANGED <<configVars, used>>
    BY <1>1 DEF Resolve, CreateFails, Ready, TimedOut, OptionFailsAfter
  <2>2. stage' # "before"
    BY <1>1, TryNextShape
       DEF Resolve, CreateFails, GiveUpAddress, Ready, TimedOut, OptionFailsAfter, Finish
  <2> QED  BY <2>1, <2>2, NoUseKeepsPolicy
<1>2. CASE CreateSocket
  <2>1. todo' \in {PreBind, PreConnect} /\ UNCHANGED <<configVars, applied, used>>
    BY <1>2 DEF CreateSocket
  <2>2. Mandatory \subseteq Names(todo')
    BY <2>1, MandatoryListed
  <2>3. Names(todo)' = Names(todo')
    BY DEF Names
  <2> QED  BY <2>1, <2>2, <2>3 DEF PolicyInv, PolicyHolds, configVars, Mandatory
<1>3. CASE SetOption
  <2>1. /\ todo # <<>> /\ todo' = Tail(todo)
        /\ applied' = applied \cup ({Head(todo)} \cap Supported)
        /\ UNCHANGED <<configVars, stage, used>>
    BY <1>3 DEF SetOption
  <2>2. Names(todo) = {Head(todo)} \cup Names(Tail(todo))
    BY <2>1, NamesOfTail DEF ShapeInv
  <2>3. Names(todo)' = Names(Tail(todo))
    BY <2>1 DEF Names
  <2>4. accel => Supported = wanted
    BY DEF Supported
  <2> QED  BY <2>1, <2>2, <2>3, <2>4 DEF PolicyInv, PolicyHolds, configVars, Mandatory
<1>4. CASE OptionIgnored
  <2>1. /\ todo # <<>> /\ todo' = Tail(todo) /\ Head(todo) \in BestEffort
        /\ UNCHANGED <<configVars, stage, applied, used>>
    BY <1>4 DEF OptionIgnored
  <2>2. Names(todo) = {Head(todo)} \cup Names(Tail(todo))
    BY <2>1, NamesOfTail DEF ShapeInv
  <2>3. Names(todo)' = Names(Tail(todo))
    BY <2>1 DEF Names
  <2>4. Head(todo) \notin Mandatory
    BY <2>1 DEF BestEffort, Mandatory
  <2> QED  BY <2>1, <2>2, <2>3, <2>4 DEF PolicyInv, PolicyHolds, configVars, Mandatory
<1>5. CASE OptionFailsBefore
  <2>1. UNCHANGED <<configVars, used>>
    BY <1>5 DEF OptionFailsBefore
  <2>2. stage' # "before"
    BY <1>5, <2>1, TryNextShape DEF OptionFailsBefore, GiveUpAddress, Finish
  <2> QED  BY <2>1, <2>2, NoUseKeepsPolicy
<1>6. CASE Bind \/ Connect
  <2>1. stage = "before" /\ todo = <<>> /\ UNCHANGED configVars /\ Use
    BY <1>6 DEF Bind, Connect, Prepared
  <2>2. accel => wanted \cap Mandatory \subseteq applied
    BY <2>1 DEF PolicyInv, Names
  <2>3. PolicyHolds'
    BY <2>1, <2>2 DEF PolicyInv, PolicyHolds, Use, configVars, Mandatory
  <2>4. stage' # "before"
    BY <1>6, <2>1, TryNextShape DEF Bind, Connect, Connected, Finish
  <2> QED  BY <2>3, <2>4 DEF PolicyInv
<1>7. CASE Writable
  <2>1. UNCHANGED <<configVars, used>>
    BY <1>7 DEF Writable
  <2>2. stage' # "before"
    BY <1>7, <2>1, TryNextShape DEF Writable, Connected
  <2> QED  BY <2>1, <2>2, NoUseKeepsPolicy
<1>8. CASE UNCHANGED vars
  BY <1>8 DEF vars, configVars, PolicyInv, PolicyHolds, Names
<1> QED
  BY <1>1, <1>2, <1>3, <1>4, <1>5, <1>6, <1>7, <1>8 DEF Next, Step, Options

\* Initially there is no socket but an accepted one.
LEMMA InitShape == Init => ShapeInv /\ PolicyInv
<1> SUFFICES ASSUME Init PROVE ShapeInv /\ PolicyInv
  OBVIOUS
<1>1. PICK n \in 0 .. MaxAddrs : hosts \in [1 .. n -> Hosts]
  BY DEF Init
<1>2. n \in Nat
  BY <1>1, SetupAssumption
<1>3. hosts \in Seq(Hosts) /\ Len(hosts) = n
  BY <1>1, <1>2
<1>4. ShapeInv
  BY <1>2, <1>3, ListTypes DEF Init, ShapeInv, Stage
<1>5. PolicyInv
  BY DEF Init, PolicyInv, PolicyHolds
<1> QED  BY <1>4, <1>5

\* In a build with linux-accel, the listener is bound, and a player's
\* connection made, only with the interface and the mark that are configured,
\* however many addresses there are and whatever other options fail on the way.
THEOREM PolicyAlwaysHolds == Spec => []PolicyHolds
<1>1. ShapeInv /\ PolicyInv /\ [Next]_vars => ShapeInv' /\ PolicyInv'
  BY ShapeStep, PolicyStep
<1>2. PolicyInv => PolicyHolds
  BY DEF PolicyInv
<1> QED  BY InitShape, <1>1, <1>2, PTL DEF Spec

-----------------------------------------------------------------------------
(* The addresses *)

\* The invariant from its parts, all but one of them about one address.
LEMMA TryNextOrder ==
    ASSUME ShapeInv, TryNext, UNCHANGED <<role, hosts>>, result = "none",
           Tried' \cup unusable' = 1 .. at,
           \A i \in Tried' : hosts[i].does \in {"refuses", "unroutable"}
    PROVE  OrderInv'
<1>1. at \in Nat /\ Len(hosts) \in Nat /\ at <= Len(hosts) /\ DOMAIN hosts = 1 .. Len(hosts)
  BY DEF ShapeInv
<1>2. CASE at < Len(hosts) /\ (role = "connect" \/ at = 0)
  <2>1. at' = at + 1 /\ stage' = "socket" /\ result' = "none"
    BY <1>2 DEF TryNext
  <2>2. at' - 1 = at /\ at' \in 1 .. Len(hosts) /\ at' \notin 1 .. at /\ 1 .. at \subseteq 1 .. at'
    BY <1>1, <1>2, <2>1
  <2>3. TriedInOrder'
    BY <2>1, <2>2 DEF TriedInOrder
  <2> QED  BY <2>1, <2>2, <2>3 DEF OrderInv
<1>3. CASE ~(at < Len(hosts) /\ (role = "connect" \/ at = 0))
  <2>1. at' = at /\ stage' = "end" /\ result' = "attempts"
    BY <1>3 DEF TryNext, Finish
  <2>2. 1 .. at - 1 \subseteq 1 .. at
    BY <1>1
  <2>3. role = "connect" => 1 .. at = DOMAIN hosts
    BY <1>1, <1>3
  <2>4. TriedInOrder'
    BY <2>1, <2>3 DEF TriedInOrder
  <2> QED  BY <2>1, <2>2, <2>4 DEF OrderInv
<1> QED  BY <1>2, <1>3

\* Up to the current address, but for itself, all were tried or given up, and
\* those tried do not answer.
LEMMA BelowCurrent ==
    ASSUME ShapeInv, OrderInv, at \in 1 .. Len(hosts)
    PROVE  /\ Tried \cup unusable \cup {at} = 1 .. at
           /\ \A i \in Tried : i # at => hosts[i].does \in {"refuses", "unroutable"}
<1>1. at \in Nat /\ at >= 1
  BY DEF ShapeInv
<1>2. 1 .. at = (1 .. at - 1) \cup {at}
  BY <1>1
<1>3. \A i \in 1 .. at : i # at => i < at
  BY <1>1
<1> QED  BY <1>2, <1>3 DEF OrderInv, TriedInOrder

\* An address that is given up is not one of those tried.
LEMMA GiveUpOrder ==
    ASSUME ShapeInv, OrderInv, stage \in {"socket", "before"}, GiveUpAddress,
           UNCHANGED <<configVars, used>>
    PROVE  OrderInv'
<1>1. /\ unusable' = unusable \cup {at} /\ Tried' = Tried /\ TryNext
      /\ UNCHANGED <<role, hosts>> /\ result = "none"
      /\ at \in 1 .. Len(hosts) /\ at \notin Tried
  BY DEF GiveUpAddress, configVars, Tried, OrderInv
<1>2. Tried' \cup unusable' = 1 .. at
  BY <1>1, BelowCurrent
<1>3. \A i \in Tried' : hosts[i].does \in {"refuses", "unroutable"}
  BY <1>1, BelowCurrent
<1> QED  BY <1>1, <1>2, <1>3, TryNextOrder

\* A step at the same address that uses no socket.
LEMMA SameAddressOrder ==
    ASSUME OrderInv, UNCHANGED <<role, hosts, at, used, unusable>>,
           \/ stage' = "end" /\ result' # "attempts"
              /\ (result' = "ok" /\ role = "connect" => stage = "after" /\ UNCHANGED applied)
           \/ stage' = "after" /\ result' = "none" /\ (role = "connect" => Reached')
           \/ stage' = stage /\ result' = result /\ stage # "end" /\ applied \subseteq applied'
           \/ stage = "socket" /\ stage' = "before" /\ result' = result
    PROVE  OrderInv'
<1>1. Tried' = Tried
  BY DEF Tried
<1>2. stage = "after" /\ role = "connect" /\ applied \subseteq applied' => Reached'
  BY DEF OrderInv, Reached, Deferred
<1>3. TriedInOrder'
  BY <1>1, <1>2 DEF OrderInv, TriedInOrder, Reached
<1> QED  BY <1>1, <1>2, <1>3 DEF OrderInv

\* To use a socket is to try the address it is for.
LEMMA UseTries == ASSUME Use PROVE Tried' = Tried \cup {at}
<1> DEFINE use == [addr |-> at, applied |-> applied]
<1>1. use.addr = at /\ used' = used \cup {use}
  BY DEF Use
<1> HIDE DEF use
<1>2. \A a : a \in Tried' <=> a \in Tried \/ a = at
  BY <1>1 DEF Tried
<1> QED  BY <1>2

\* A socket is used for the current address, which the next one, if there is
\* one, follows only when the host does not answer.
LEMMA ConnectOrder == ASSUME ShapeInv, OrderInv, Connect PROVE OrderInv'
<1>1. /\ stage = "before" /\ role = "connect" /\ result = "none"
      /\ Use /\ UNCHANGED <<role, hosts, unusable>>
  BY DEF Connect, Prepared, configVars, OrderInv
<1>2. Tried' = Tried \cup {at}
  BY <1>1, UseTries
<1>3. at \in 1 .. Len(hosts) /\ at \notin Tried /\ at \in Nat
  BY <1>1 DEF OrderInv, ShapeInv
<1>4. /\ Tried' \cup unusable' = 1 .. at
      /\ \A i \in Tried' : i # at => hosts[i].does \in {"refuses", "unroutable"}
  BY <1>1, <1>2, <1>3, BelowCurrent
<1>5. CASE hosts[at].does = "unroutable" /\ TryNext
  BY <1>1, <1>4, <1>5, TryNextOrder
<1>6. ASSUME UNCHANGED <<at, result>>, stage' \in {"after", "writable"},
             stage' = "after" => Reached'
      PROVE  OrderInv'
  <2>1. 1 .. at - 1 \subseteq 1 .. at
    BY <1>3
  <2>2. TriedInOrder'
    BY <1>1, <1>3, <1>4, <1>6 DEF TriedInOrder
  <2> QED  BY <1>1, <1>2, <1>3, <1>4, <1>6, <2>1, <2>2 DEF OrderInv
<1>7. CASE Deferred /\ Connected
  <2>1. UNCHANGED <<at, applied, result>> /\ stage' = "after"
    BY <1>7 DEF Connected
  <2>2. Reached'
    BY <1>1, <1>7, <2>1 DEF Reached, Deferred
  <2> QED  BY <1>6, <2>1, <2>2
<1>8. CASE stage' = "writable" /\ UNCHANGED <<at, todo, applied, result>>
  BY <1>6, <1>8
<1> QED  BY <1>5, <1>7, <1>8 DEF Connect

\* Every step keeps the order.
LEMMA OrderStep == ASSUME ShapeInv, OrderInv, [Next]_vars PROVE OrderInv'
<1>1. CASE Resolve
  <2>1. /\ stage = "resolve" /\ at = 0 /\ result = "none"
        /\ UNCHANGED <<role, hosts, used, unusable>>
    BY <1>1 DEF Resolve, OrderInv, configVars
  <2>2. CASE Finish("lookup")
    BY <2>1, <2>2, SameAddressOrder DEF Finish
  <2>3. CASE TryNext
    <3>1. Tried \cup unusable = {} /\ 1 .. at = {} /\ Tried' = Tried
      BY <2>1 DEF OrderInv, TriedInOrder, Tried
    <3> QED  BY <2>1, <2>3, <3>1, TryNextOrder
  <2> QED  BY <1>1, <2>2, <2>3 DEF Resolve
<1>2. CASE CreateFails
  BY <1>2, GiveUpOrder DEF CreateFails
<1>3. CASE CreateSocket
  BY <1>3, SameAddressOrder DEF CreateSocket, configVars
<1>4. CASE SetOption \/ OptionIgnored
  BY <1>4, SameAddressOrder DEF SetOption, OptionIgnored, configVars
<1>5. CASE OptionFailsBefore
  <2>1. CASE role = "connect"
    BY <1>5, <2>1, GiveUpOrder DEF OptionFailsBefore
  <2>2. CASE role # "connect"
    BY <1>5, <2>2, SameAddressOrder DEF OptionFailsBefore, Finish, configVars
  <2> QED  BY <2>1, <2>2
<1>6. CASE OptionFailsAfter
  BY <1>6, SameAddressOrder DEF OptionFailsAfter, Finish, configVars
<1>7. CASE Bind
  <2>1. /\ stage = "before" /\ role = "listen" /\ result = "none"
        /\ Use /\ UNCHANGED <<role, hosts, at, unusable>>
        /\ \/ stage' = "after" /\ result' = result
           \/ stage' = "end"
    BY <1>7 DEF Bind, Prepared, Finish, configVars, OrderInv
  <2>2. Tried' = Tried \cup {at}
    BY <2>1, UseTries
  <2>3. at \in 1 .. Len(hosts) /\ at \in Nat
    BY <2>1 DEF OrderInv, ShapeInv
  <2>4. /\ Tried' \cup unusable' = 1 .. at
        /\ \A i \in Tried' : i # at => hosts[i].does \in {"refuses", "unroutable"}
    BY <2>1, <2>2, <2>3, BelowCurrent
  <2>5. 1 .. at - 1 \subseteq 1 .. at
    BY <2>3
  <2>6. TriedInOrder'
    BY <2>1, <2>3, <2>4 DEF TriedInOrder
  <2> QED  BY <2>1, <2>4, <2>5, <2>6 DEF OrderInv
<1>8. CASE Connect
  BY <1>8, ConnectOrder
<1>9. CASE Writable
  <2>1. /\ stage = "writable" /\ at \in Tried /\ at \in 1 .. Len(hosts) /\ result = "none"
        /\ UNCHANGED <<role, hosts, used, unusable>> /\ Tried' = Tried
    BY <1>9 DEF Writable, OrderInv, configVars, Tried
  <2>2. CASE hosts[at].does = "answers" /\ Connected
    BY <2>1, <2>2, SameAddressOrder DEF Connected, Reached
  <2>3. CASE hosts[at].does = "refuses" /\ TryNext
    <3>1. Tried' \cup unusable' = 1 .. at
      BY <2>1, BelowCurrent
    <3>2. \A i \in Tried' : hosts[i].does \in {"refuses", "unroutable"}
      BY <2>1, <2>3, BelowCurrent
    <3> QED  BY <2>1, <2>3, <3>1, <3>2, TryNextOrder
  <2> QED  BY <1>9, <2>2, <2>3 DEF Writable
<1>10. CASE Ready \/ TimedOut
  BY <1>10, SameAddressOrder DEF Ready, TimedOut, Finish, configVars
<1>11. CASE UNCHANGED vars
  BY <1>11 DEF vars, configVars, OrderInv, TriedInOrder, Tried, Reached, Deferred
<1> QED
  BY <1>1, <1>2, <1>3, <1>4, <1>5, <1>6, <1>7, <1>8, <1>9, <1>10, <1>11
     DEF Next, Step, Options

\* Addresses are tried in their order, however many there are: no connect
\* gives up without having tried them all, and none goes on with a host that
\* has refused.
THEOREM AlwaysTriedInOrder == Spec => []TriedInOrder
<1>1. Init => OrderInv
  BY DEF Init, OrderInv, TriedInOrder, Tried
<1>2. ShapeInv /\ OrderInv /\ [Next]_vars => ShapeInv' /\ OrderInv'
  BY ShapeStep, OrderStep
<1>3. Init => ShapeInv
  BY InitShape
<1>4. OrderInv => TriedInOrder
  BY DEF OrderInv
<1> QED  BY <1>1, <1>2, <1>3, <1>4, PTL DEF Spec

-----------------------------------------------------------------------------
(* Each option at most once *)

\* The options of the stage before a socket is used.
Before == IF role = "listen" THEN PreBind ELSE PreConnect

\* No option is named twice in what is still to do, and none that is set is
\* named there: the list of a later stage has nothing in common with that of
\* the stage before, which is all that is set when the later one begins.
OnceInv ==
    /\ accel \in BOOLEAN
    /\ role \in {"connect", "listen", "accept"}
    /\ wanted \in SUBSET AllOptions /\ Always \subseteq wanted
    /\ Len(hosts) <= MaxAddrs
    /\ \A i, j \in DOMAIN todo : todo[i] = todo[j] => i = j
    /\ Names(todo) \cap applied = {} /\ applied \subseteq wanted
    /\ stage \in {"resolve", "socket"} => applied = {} /\ Names(todo) = {}
    /\ stage \in {"before", "writable"} => applied \cup Names(todo) \subseteq Names(Before)
    /\ stage = "writable" => role = "connect"
    /\ used \subseteq [addr : 1 .. MaxAddrs, applied : SUBSET wanted]
    /\ unusable \subseteq 1 .. MaxAddrs
    /\ result \in {"none", "ok", "lookup", "attempts", "options", "bind", "timeout"}

\* The lists of the stages name no option twice, and those of one socket none
\* in common.
LEMMA ListsDisjoint ==
    /\ \A list \in {PreBind, PostListen, PreConnect, SockRef} :
          \A i, j \in DOMAIN list : list[i] = list[j] => i = j
    /\ Names(PreBind) \cap Names(PostListen) = {}
    /\ Names(PreConnect) \cap Names(SockRef) = {}
<1>1. \A i, j \in DOMAIN PreBind : PreBind[i] = PreBind[j] => i = j
  BY DEF PreBind
<1>2. \A i, j \in DOMAIN PostListen : PostListen[i] = PostListen[j] => i = j
  BY DEF PostListen
<1>3. \A i, j \in DOMAIN PreConnect : PreConnect[i] = PreConnect[j] => i = j
  BY DEF PreConnect
<1>4. \A i, j \in DOMAIN SockRef : SockRef[i] = SockRef[j] => i = j
  BY DEF SockRef
<1>5. Names(PreBind) \cap Names(PostListen) = {}
  BY DEF PreBind, PostListen, Names
<1>6. Names(PreConnect) \cap Names(SockRef) = {}
  BY DEF PreConnect, SockRef, Names
<1> QED  BY <1>1, <1>2, <1>3, <1>4, <1>5, <1>6

\* What leaves the list is not in the rest of it.
LEMMA HeadLeaves ==
    ASSUME ShapeInv, OnceInv, todo # <<>>, todo' = Tail(todo)
    PROVE  /\ \A i, j \in DOMAIN todo' : todo'[i] = todo'[j] => i = j
           /\ Names(todo') \subseteq Names(todo)
           /\ Head(todo) \notin Names(todo') /\ Head(todo) \in Names(todo)
<1>1. todo \in Seq(AllOptions) /\ Len(todo) \in Nat /\ Len(todo) >= 1 /\ DOMAIN todo = 1 .. Len(todo)
  BY DEF ShapeInv
<1>2. /\ DOMAIN todo' = 1 .. Len(todo) - 1
      /\ \A i \in 1 .. Len(todo) - 1 : todo'[i] = todo[i + 1] /\ i + 1 \in 1 .. Len(todo)
  BY <1>1
<1>3. \A i, j \in DOMAIN todo' : todo'[i] = todo'[j] => i = j
  <2> SUFFICES ASSUME NEW i \in 1 .. Len(todo) - 1, NEW j \in 1 .. Len(todo) - 1,
                      todo'[i] = todo'[j]
               PROVE  i = j
    BY <1>2
  <2>1. i + 1 = j + 1
    BY <1>1, <1>2 DEF OnceInv
  <2> QED  BY <2>1
<1>4. Head(todo) \notin Names(todo')
  <2> SUFFICES ASSUME NEW i \in 1 .. Len(todo) - 1, todo'[i] = Head(todo) PROVE FALSE
    BY <1>2 DEF Names
  <2>1. todo[i + 1] = todo[1] /\ i + 1 \in DOMAIN todo /\ 1 \in DOMAIN todo
    BY <1>1, <1>2
  <2>2. i + 1 = 1
    BY <2>1 DEF OnceInv
  <2> QED  BY <2>2
<1> QED  BY <1>1, <1>3, <1>4, NamesOfTail

\* The next address has a socket of its own, with nothing set.
LEMMA TryNextOnce ==
    ASSUME OnceInv, TryNext, UNCHANGED configVars, unusable' \subseteq 1 .. MaxAddrs,
           used' \subseteq [addr : 1 .. MaxAddrs, applied : SUBSET wanted]
    PROVE  OnceInv'
<1>1. CASE at < Len(hosts) /\ (role = "connect" \/ at = 0)
  <2>1. stage' = "socket" /\ todo' = <<>> /\ applied' = {} /\ result' = result
    BY <1>1 DEF TryNext
  <2>2. Names(todo)' = {} /\ DOMAIN todo' = {}
    BY <2>1 DEF Names
  <2> QED  BY <2>1, <2>2 DEF OnceInv, configVars
<1>2. CASE ~(at < Len(hosts) /\ (role = "connect" \/ at = 0))
  <2>1. stage' = "end" /\ result' = "attempts" /\ UNCHANGED <<todo, applied>>
    BY <1>2 DEF TryNext, Finish
  <2> QED  BY <2>1 DEF OnceInv, configVars, Names
<1> QED  BY <1>1, <1>2

\* The end leaves everything as it is.
LEMMA FinishOnce ==
    ASSUME OnceInv, UNCHANGED <<configVars, todo, applied, unusable>>, stage' = "end",
           used' \subseteq [addr : 1 .. MaxAddrs, applied : SUBSET wanted],
           result' \in {"ok", "lookup", "options", "bind", "timeout"}
    PROVE  OnceInv'
BY DEF OnceInv, configVars, Names

\* A socket is used for one of the addresses.
LEMMA UseTypes ==
    ASSUME OnceInv, at \in 1 .. Len(hosts), Len(hosts) \in Nat, Use
    PROVE  used' \subseteq [addr : 1 .. MaxAddrs, applied : SUBSET wanted]
<1>1. at \in 1 .. MaxAddrs /\ applied \in SUBSET wanted
  BY SetupAssumption DEF OnceInv
<1>2. [addr |-> at, applied |-> applied] \in [addr : 1 .. MaxAddrs, applied : SUBSET wanted]
  BY <1>1
<1> QED  BY <1>2 DEF Use, OnceInv

\* Once the socket is used, the list of the stage after it begins.
LEMMA AfterOnce ==
    ASSUME OnceInv, UNCHANGED <<configVars, applied, unusable, result>>, stage' = "after",
           used' \subseteq [addr : 1 .. MaxAddrs, applied : SUBSET wanted],
           stage \in {"before", "writable"}, todo = <<>> \/ stage = "writable",
           todo' = IF role = "listen" THEN PostListen ELSE SockRef
    PROVE  OnceInv'
<1>1. applied \subseteq Names(Before)
  BY DEF OnceInv
<1>2. Names(todo') \cap Names(Before) = {}
  BY ListsDisjoint DEF Before
<1>3. Names(todo)' = Names(todo')
  BY DEF Names
<1>4. \A i, j \in DOMAIN todo' : todo'[i] = todo'[j] => i = j
  BY ListsDisjoint
<1> QED  BY <1>1, <1>2, <1>3, <1>4 DEF OnceInv, configVars

\* No step sets an option a second time.
LEMMA OnceStep == ASSUME ShapeInv, OrderInv, OnceInv, [Next]_vars PROVE OnceInv'
<1>1. CASE Resolve
  <2>1. UNCHANGED <<configVars, used, unusable>> /\ (TryNext \/ Finish("lookup"))
    BY <1>1 DEF Resolve
  <2>2. CASE TryNext
    BY <2>1, <2>2, TryNextOnce DEF OnceInv
  <2>3. CASE Finish("lookup")
    BY <2>1, <2>3, FinishOnce DEF Finish, OnceInv
  <2> QED  BY <2>1, <2>2, <2>3
<1>2. ASSUME stage \in {"socket", "before"}, GiveUpAddress, UNCHANGED <<configVars, used>>
      PROVE  OnceInv'
  <2>1. at \in 1 .. MaxAddrs
    BY <1>2, SetupAssumption DEF OrderInv, ShapeInv, OnceInv
  <2>2. unusable' \subseteq 1 .. MaxAddrs
    BY <1>2, <2>1 DEF GiveUpAddress, OnceInv
  <2> QED  BY <1>2, <2>2, TryNextOnce DEF GiveUpAddress, OnceInv
<1>3. CASE CreateFails
  BY <1>2, <1>3 DEF CreateFails
<1>4. CASE CreateSocket
  <2>1. /\ stage = "socket" /\ stage' = "before" /\ todo' = Before
        /\ UNCHANGED <<configVars, applied, used, unusable, result>>
    BY <1>4 DEF CreateSocket, Before
  <2>2. applied = {} /\ Before' = Before /\ Names(todo)' = Names(Before)
    BY <2>1 DEF OnceInv, Before, configVars, Names
  <2>3. \A i, j \in DOMAIN todo' : todo'[i] = todo'[j] => i = j
    BY <2>1, ListsDisjoint DEF Before
  <2> QED  BY <2>1, <2>2, <2>3 DEF OnceInv, configVars
<1>5. CASE SetOption \/ OptionIgnored
  <2>1. /\ todo # <<>> /\ todo' = Tail(todo) /\ stage \in {"before", "after"}
        /\ applied' \in {applied, applied \cup ({Head(todo)} \cap Supported)}
        /\ UNCHANGED <<configVars, stage, used, unusable, result>>
    BY <1>5 DEF SetOption, OptionIgnored
  <2>2. /\ \A i, j \in DOMAIN todo' : todo'[i] = todo'[j] => i = j
        /\ Names(todo') \subseteq Names(todo)
        /\ Head(todo) \notin Names(todo') /\ Head(todo) \in Names(todo)
    BY <2>1, HeadLeaves
  <2>3. Names(todo)' = Names(todo') /\ Names(Before)' = Names(Before)
    BY <2>1 DEF Names, Before, configVars
  <2>4. Supported \subseteq wanted
    BY DEF Supported
  <2> QED  BY <2>1, <2>2, <2>3, <2>4 DEF OnceInv, configVars
<1>6. CASE OptionFailsBefore
  <2>1. CASE role = "connect"
    BY <1>2, <1>6, <2>1 DEF OptionFailsBefore
  <2>2. CASE role # "connect"
    BY <1>6, <2>2, FinishOnce DEF OptionFailsBefore, Finish, OnceInv, configVars
  <2> QED  BY <2>1, <2>2
<1>7. CASE OptionFailsAfter \/ Ready \/ TimedOut
  BY <1>7, FinishOnce DEF OptionFailsAfter, Ready, TimedOut, Finish, OnceInv, configVars
<1>8. CASE Bind
  <2>1. /\ stage = "before" /\ todo = <<>> /\ role = "listen" /\ Use
        /\ UNCHANGED <<configVars, unusable>>
    BY <1>8 DEF Bind, Prepared
  <2>2. used' \subseteq [addr : 1 .. MaxAddrs, applied : SUBSET wanted]
    BY <2>1, UseTypes DEF OrderInv, ShapeInv
  <2>3. CASE stage' = "after" /\ todo' = PostListen /\ UNCHANGED <<at, applied, result>>
    BY <2>1, <2>2, <2>3, AfterOnce
  <2>4. CASE Finish("bind")
    BY <2>1, <2>2, <2>4, FinishOnce DEF Finish
  <2> QED  BY <1>8, <2>3, <2>4 DEF Bind
<1>9. CASE Connect
  <2>1. /\ stage = "before" /\ todo = <<>> /\ role = "connect" /\ Use
        /\ UNCHANGED <<configVars, unusable>>
    BY <1>9 DEF Connect, Prepared
  <2>2. used' \subseteq [addr : 1 .. MaxAddrs, applied : SUBSET wanted]
    BY <2>1, UseTypes DEF OrderInv, ShapeInv
  <2>3. CASE Connected
    BY <2>1, <2>2, <2>3, AfterOnce DEF Connected
  <2>4. CASE TryNext
    BY <2>1, <2>2, <2>4, TryNextOnce DEF OnceInv
  <2>5. CASE stage' = "writable" /\ UNCHANGED <<at, todo, applied, result>>
    BY <2>1, <2>2, <2>5 DEF OnceInv, configVars, Names, Before
  <2> QED  BY <1>9, <2>3, <2>4, <2>5 DEF Connect
<1>10. CASE Writable
  <2>1. stage = "writable" /\ role = "connect" /\ UNCHANGED <<configVars, used, unusable>>
    BY <1>10 DEF Writable, OnceInv
  <2>2. CASE Connected
    BY <2>1, <2>2, AfterOnce DEF Connected, OnceInv
  <2>3. CASE TryNext
    BY <2>1, <2>3, TryNextOnce DEF OnceInv
  <2> QED  BY <1>10, <2>2, <2>3 DEF Writable
<1>11. CASE UNCHANGED vars
  BY <1>11 DEF vars, configVars, OnceInv, Names, Before
<1> QED
  BY <1>1, <1>3, <1>4, <1>5, <1>6, <1>7, <1>8, <1>9, <1>10, <1>11 DEF Next, Step, Options

\* Nothing is set on a socket at first.
LEMMA InitOnce == Init => OnceInv
<1> SUFFICES ASSUME Init PROVE OnceInv
  OBVIOUS
<1>1. PICK n \in 0 .. MaxAddrs : hosts \in [1 .. n -> Hosts]
  BY DEF Init
<1>2. Len(hosts) <= MaxAddrs
  BY <1>1, SetupAssumption
<1>3. PICK chosen \in SUBSET Optional : wanted = Always \cup chosen
  BY DEF Init
<1>4. Always \subseteq AllOptions
  <2>1. SockRef[1] = "nodelay" /\ SockRef[2] = "keepalive" /\ 1 \in DOMAIN SockRef /\ 2 \in DOMAIN SockRef
    BY DEF SockRef
  <2> QED  BY <2>1 DEF Always, AllOptions, Names
<1>5. wanted \in SUBSET AllOptions /\ Always \subseteq wanted
  BY <1>3, <1>4, SetupAssumption
<1>6. Names(<<>>) = {}
  BY DEF Names
<1>7. \A i, j \in DOMAIN todo : todo[i] = todo[j] => i = j
  BY ListsDisjoint DEF Init
<1> QED  BY <1>2, <1>5, <1>6, <1>7 DEF Init, OnceInv

\* No option is set twice on a socket, only options that are configured are
\* set, and a socket is used for one of the addresses only.
THEOREM TypeCorrect == Spec => []TypeOK
<1>1. Init => ShapeInv /\ OrderInv
  BY InitShape DEF Init, OrderInv, TriedInOrder, Tried
<1>2. ShapeInv /\ OrderInv /\ OnceInv /\ [Next]_vars => ShapeInv' /\ OrderInv' /\ OnceInv'
  BY ShapeStep, OrderStep, OnceStep
<1>3. ShapeInv /\ OnceInv => TypeOK
  BY SetupAssumption DEF ShapeInv, OnceInv, TypeOK, Stage
<1> QED  BY InitOnce, <1>1, <1>2, <1>3, PTL DEF Spec
=============================================================================
