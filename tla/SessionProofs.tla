-------------------------- MODULE SessionProofs --------------------------
(***************************************************************************)
(* The blocks of a chat session, for every value of their constants: the   *)
(* outbox of the sender, the inbox of the receiver, and the exchange of    *)
(* their key. Each part has its inductive invariant, one lemma per group   *)
(* of actions, and its theorems.                                           *)
(***************************************************************************)
EXTENDS Outbox, Inbox, KeyExchange, Integers, Sequences, FiniteSetTheorems, TLAPS


-----------------------------------------------------------------------------
(***************************************************************************)
(* The key exchange, for any number of losses of either connection and any *)
(* number of relay restarts.                                               *)
(*                                                                         *)
(* Two ready sides hold the same key because hellos reach the guest in the *)
(* order they were made: the newest hello the guest has handled            *)
(* (LastHello) is at least every reply on its way and every key the host   *)
(* took, and a host that is ready took the newest hello of all.            *)
(***************************************************************************)

\* The first of a sequence and the rest.
LEMMA HeadAndTail ==
    ASSUME NEW S, NEW s \in Seq(S), s # <<>>
    PROVE  /\ Head(s) \in S /\ Head(s) = s[1]
           /\ Tail(s) \in Seq(S) /\ Len(Tail(s)) = Len(s) - 1 /\ Len(s) > 0
           /\ \A i \in 1..Len(Tail(s)) : Tail(s)[i] = s[i + 1]
OBVIOUS

\* One more at the end of a sequence.
LEMMA AppendedIs ==
    ASSUME NEW S, NEW s \in Seq(S), NEW x \in S
    PROVE  /\ Append(s, x) \in Seq(S) /\ Append(s, x) # <<>> /\ Len(Append(s, x)) = Len(s) + 1
           /\ \A i \in 1..Len(s) : Append(s, x)[i] = s[i]
           /\ Append(s, x)[Len(s) + 1] = x
OBVIOUS

\* A part of a sequence.
LEMMA PartIs ==
    ASSUME NEW S, NEW s \in Seq(S), NEW m \in 1..(Len(s) + 1), NEW n \in 0..Len(s)
    PROVE  /\ SubSeq(s, m, n) \in Seq(S)
           /\ Len(SubSeq(s, m, n)) = IF m <= n THEN n - m + 1 ELSE 0
           /\ \A i \in 1..Len(SubSeq(s, m, n)) : SubSeq(s, m, n)[i] = s[m + i - 1]
OBVIOUS

\* The empty sequence.
LEMMA EmptyIs ==
    ASSUME NEW S
    PROVE  /\ <<>> \in Seq(S) /\ Len(<<>>) = 0
           /\ \A s \in Seq(S) : s # <<>> => Len(s) \in Nat \ {0}
OBVIOUS

\* The newest hello the guest has handled, installed or not.
LastHello == IF installing = <<>> THEN guestKey ELSE installing[Len(installing)]

KexTypes ==
    /\ nonce \in Nat /\ initiator \in {0, nonce} /\ hostKey \in Nat /\ guestKey \in Nat
    /\ installing \in Seq(Nat) /\ toGuest \in Seq(Nat) /\ toHost \in Seq(Nat)

\* The hellos on the wire ascend, newer than what the guest has handled.
Ascending(wire, low, high) ==
    /\ \A i \in 1..Len(wire) : low < wire[i] /\ wire[i] <= high
    /\ \A i, j \in 1..Len(wire) : i < j => wire[i] < wire[j]

EarlierThan(wire, high) == \A i \in 1..Len(wire) : wire[i] <= high

KexInv ==
    /\ KexTypes
    /\ LastHello <= nonce /\ hostKey <= LastHello
    /\ Ascending(toGuest, LastHello, nonce)
    /\ EarlierThan(toHost, LastHello)
    /\ hostReady => hostKey = nonce /\ nonce # 0

\* LastHello is a number.
LEMMA LastHelloType ==
    ASSUME KexTypes
    PROVE  LastHello \in Nat
BY DEF KexTypes, LastHello

\* What a lost connection leaves of a wire is part of it, in order.
LEMMA PartOfWire ==
    ASSUME NEW wire \in Seq(Nat), NEW m \in 1..(Len(wire) + 1), NEW n \in 0..Len(wire),
           NEW low \in Nat, NEW high \in Nat
    PROVE  /\ SubSeq(wire, m, n) \in Seq(Nat)
           /\ Ascending(wire, low, high) => Ascending(SubSeq(wire, m, n), low, high)
           /\ EarlierThan(wire, high) => EarlierThan(SubSeq(wire, m, n), high)
<1> DEFINE part == SubSeq(wire, m, n)
<1>1. /\ part \in Seq(Nat)
      /\ Len(part) = IF m <= n THEN n - m + 1 ELSE 0
      /\ \A i \in 1..Len(part) : part[i] = wire[m + i - 1]
  BY PartIs, Zenon
<1>2. \A i \in 1..Len(part) : m + i - 1 \in 1..Len(wire)
  BY <1>1
<1> HIDE DEF part
<1>3. EarlierThan(wire, high) => EarlierThan(part, high)
  BY <1>1, <1>2, Zenon DEF EarlierThan
<1>4. ASSUME Ascending(wire, low, high) PROVE Ascending(part, low, high)
  <2>1. \A i \in 1..Len(part) : low < part[i] /\ part[i] <= high
    BY <1>1, <1>2, <1>4, Zenon DEF Ascending
  <2>2. ASSUME NEW i \in 1..Len(part), NEW j \in 1..Len(part), i < j
        PROVE  part[i] < part[j]
    <3>1. m + i - 1 < m + j - 1
      BY <2>2
    <3> QED BY <1>1, <1>2, <1>4, <2>2, <3>1, Zenon DEF Ascending
  <2> QED BY <2>1, <2>2 DEF Ascending
<1> QED BY <1>1, <1>3, <1>4 DEF part

\* The head of a wire and what follows it.
LEMMA WireHeadTail ==
    ASSUME NEW wire \in Seq(Nat), wire # <<>>, NEW low \in Nat, NEW high \in Nat
    PROVE  /\ Head(wire) \in Nat /\ Tail(wire) \in Seq(Nat) /\ Head(wire) = wire[1]
           /\ Ascending(wire, low, high) =>
                /\ low < Head(wire) /\ Head(wire) <= high
                /\ Ascending(Tail(wire), Head(wire), high)
           /\ EarlierThan(wire, high) => Head(wire) <= high /\ EarlierThan(Tail(wire), high)
<1>1. /\ Head(wire) = wire[1] /\ Head(wire) \in Nat /\ Tail(wire) \in Seq(Nat)
      /\ Len(wire) \in Nat /\ 1 \in 1..Len(wire)
      /\ Len(Tail(wire)) = Len(wire) - 1
      /\ \A i \in 1..Len(Tail(wire)) : Tail(wire)[i] = wire[i + 1]
  BY HeadAndTail
<1>2. \A i \in 1..Len(Tail(wire)) : i + 1 \in 1..Len(wire) /\ 1 < i + 1
  BY <1>1
<1>3. EarlierThan(wire, high) => Head(wire) <= high /\ EarlierThan(Tail(wire), high)
  BY <1>1, <1>2 DEF EarlierThan
<1>4. ASSUME Ascending(wire, low, high)
      PROVE  /\ low < Head(wire) /\ Head(wire) <= high
             /\ Ascending(Tail(wire), Head(wire), high)
  <2>1. low < Head(wire) /\ Head(wire) <= high
    BY <1>1, <1>4 DEF Ascending
  <2>2. \A i \in 1..Len(Tail(wire)) : Head(wire) < Tail(wire)[i] /\ Tail(wire)[i] <= high
    BY <1>1, <1>2, <1>4 DEF Ascending
  <2>3. ASSUME NEW i \in 1..Len(Tail(wire)), NEW j \in 1..Len(Tail(wire)), i < j
        PROVE  Tail(wire)[i] < Tail(wire)[j]
    <3>1. i + 1 < j + 1
      BY <2>3
    <3> QED BY <1>1, <1>2, <1>4, <2>3, <3>1 DEF Ascending
  <2> QED BY <2>1, <2>2, <2>3 DEF Ascending
<1> QED BY <1>1, <1>3, <1>4

\* A frame appended to a wire.
LEMMA Appended ==
    ASSUME NEW wire \in Seq(Nat), NEW x \in Nat, NEW low \in Nat, NEW high \in Nat
    PROVE  /\ Append(wire, x) \in Seq(Nat)
           /\ Ascending(wire, low, high) /\ low <= high => Ascending(Append(wire, high + 1), low, high + 1)
           /\ EarlierThan(wire, low) /\ low <= high /\ x <= high => EarlierThan(Append(wire, x), high)
<1>1. /\ Append(wire, x) \in Seq(Nat) /\ Len(wire) \in Nat
      /\ \A y \in Nat : /\ Len(Append(wire, y)) = Len(wire) + 1
                        /\ Append(wire, y)[Len(wire) + 1] = y
                        /\ \A i \in 1..Len(wire) : Append(wire, y)[i] = wire[i]
  BY AppendedIs
<1>2. \A i \in 1..(Len(wire) + 1) : i \in 1..Len(wire) \/ i = Len(wire) + 1
  BY <1>1
<1>3. \A i \in 1..Len(wire) : wire[i] \in Nat
  OBVIOUS
<1>4. ASSUME Ascending(wire, low, high), low <= high
      PROVE  Ascending(Append(wire, high + 1), low, high + 1)
  <2> DEFINE w == Append(wire, high + 1)
  <2>1. /\ Len(w) = Len(wire) + 1 /\ w[Len(wire) + 1] = high + 1
        /\ \A i \in 1..Len(wire) : w[i] = wire[i]
    BY <1>1
  <2> HIDE DEF w
  <2>2. ASSUME NEW i \in 1..Len(w)
        PROVE  low < w[i] /\ w[i] <= high + 1
    <3>1. i \in 1..Len(wire) \/ i = Len(wire) + 1
      BY <1>2, <2>1
    <3>2. CASE i \in 1..Len(wire)
      <4>1. w[i] = wire[i] /\ wire[i] \in Nat /\ low < wire[i] /\ wire[i] <= high
        BY <1>3, <1>4, <2>1, <3>2, Zenon DEF Ascending
      <4> QED BY <4>1
    <3>3. CASE i = Len(wire) + 1
      BY <1>4, <2>1, <3>3
    <3> QED BY <3>1, <3>2, <3>3
  <2>3. ASSUME NEW i \in 1..Len(w), NEW j \in 1..Len(w), i < j
        PROVE  w[i] < w[j]
    <3>1. /\ i \in 1..Len(wire) /\ w[i] = wire[i] /\ wire[i] \in Nat
          /\ j \in 1..Len(wire) \/ j = Len(wire) + 1
      BY <1>1, <1>2, <1>3, <2>1, <2>3
    <3>2. wire[i] <= high
      BY <1>4, <3>1 DEF Ascending
    <3>3. CASE j \in 1..Len(wire)
      BY <1>4, <2>1, <2>3, <3>1, <3>3, Zenon DEF Ascending
    <3>4. CASE j = Len(wire) + 1
      BY <2>1, <3>1, <3>2, <3>4
    <3> QED BY <3>1, <3>3, <3>4
  <2> QED BY <2>2, <2>3, Zenon DEF Ascending, w
<1>5. ASSUME EarlierThan(wire, low), low <= high, x <= high
      PROVE  EarlierThan(Append(wire, x), high)
  BY <1>1, <1>2, <1>3, <1>5 DEF EarlierThan
<1> QED BY <1>1, <1>4, <1>5

\* The end of a queue, after an append and after the head is taken.
LEMMA EndOfQueue ==
    ASSUME NEW q \in Seq(Nat), NEW x \in Nat
    PROVE  /\ Append(q, x) \in Seq(Nat) /\ Append(q, x) # <<>>
           /\ Append(q, x)[Len(Append(q, x))] = x
           /\ q # <<>> /\ Tail(q) = <<>> => Head(q) = q[Len(q)]
           /\ q # <<>> /\ Tail(q) # <<>> => Tail(q)[Len(Tail(q))] = q[Len(q)]
<1>1. /\ Append(q, x) \in Seq(Nat) /\ Len(q) \in Nat
      /\ Len(Append(q, x)) = Len(q) + 1 /\ Append(q, x)[Len(q) + 1] = x
  BY AppendedIs
<1>2. Append(q, x) # <<>> /\ Append(q, x)[Len(Append(q, x))] = x
  BY <1>1
<1>3. ASSUME q # <<>>
      PROVE  /\ Tail(q) = <<>> => Head(q) = q[Len(q)]
             /\ Tail(q) # <<>> => Tail(q)[Len(Tail(q))] = q[Len(q)]
  <2>1. /\ Head(q) = q[1] /\ Tail(q) \in Seq(Nat) /\ Len(Tail(q)) = Len(q) - 1
        /\ \A i \in 1..Len(Tail(q)) : Tail(q)[i] = q[i + 1]
    BY <1>3, WireHeadTail
  <2>2. Tail(q) = <<>> => Len(Tail(q)) = 0
    BY EmptyIs, Zenon
  <2>3. Tail(q) # <<>> => Len(Tail(q)) # 0
    BY <2>1, EmptyIs, Zenon
  <2>4. CASE Len(Tail(q)) = 0
    <3>1. Len(q) = 1
      <4> DEFINE n == Len(q)
                 m == Len(Tail(q))
      <4>1. n \in Nat /\ m = n - 1 /\ m = 0
        BY <1>1, <2>1, <2>4, Zenon
      <4> HIDE DEF n, m
      <4>2. n = 1
        BY <4>1
      <4> QED BY <4>2 DEF n
    <3>2. Head(q) = q[Len(q)]
      BY <2>1, <3>1, Zenon
    <3> QED BY <2>3, <2>4, <3>2, Zenon
  <2>5. CASE Len(Tail(q)) # 0
    <3>1. Len(Tail(q)) \in 1..Len(Tail(q)) /\ Len(Tail(q)) + 1 = Len(q)
      BY <1>1, <2>1, <2>5
    <3> QED BY <2>1, <2>2, <2>5, <3>1, Zenon
  <2> QED BY <2>4, <2>5, Zenon
<1> QED BY <1>1, <1>2, <1>3, Zenon

\* The invariant depends on the guest only through LastHello.
LEMMA SameLastHello ==
    ASSUME installing' = installing, guestKey' = guestKey
    PROVE  LastHello' = LastHello
BY DEF LastHello

\* A new hello keeps the invariant (_initiate_handshake): it is newer than
\* all others, and the host is not ready until it is answered.
LEMMA InitiateKeeps ==
    ASSUME KexInv, Initiate, LastHello' = LastHello, hostKey' = hostKey,
           guestKey' = guestKey, installing' = installing,
           toHost' \in Seq(Nat), EarlierThan(toHost', LastHello)
    PROVE  KexInv'
<1> DEFINE L == LastHello
<1>1. /\ nonce \in Nat /\ L \in Nat /\ L <= nonce /\ hostKey \in Nat /\ hostKey <= L
      /\ toGuest \in Seq(Nat) /\ Ascending(toGuest, L, nonce)
  BY LastHelloType DEF KexInv, KexTypes
<1>2. /\ nonce' = nonce + 1 /\ initiator' = nonce + 1
      /\ toGuest' = Append(toGuest, nonce + 1) \/ toGuest' = toGuest
      /\ hostReady' = (hostReady /\ hostKey = 0)
  BY DEF Initiate, Forwarded
<1>3. ~hostReady'
  BY <1>1, <1>2, Zenon DEF KexInv
<1> HIDE DEF L
<1>4. /\ Append(toGuest, nonce + 1) \in Seq(Nat)
      /\ Ascending(Append(toGuest, nonce + 1), L, nonce + 1)
  BY <1>1, Appended
<1>5. Ascending(toGuest, L, nonce + 1)
  <2>1. \A i \in 1..Len(toGuest) : toGuest[i] \in Nat
    BY <1>1
  <2> QED BY <1>1, <2>1 DEF Ascending
<1>6. toGuest' \in Seq(Nat) /\ Ascending(toGuest', L, nonce')
  BY <1>1, <1>2, <1>4, <1>5, Zenon
<1>7. KexTypes'
  BY <1>1, <1>2, <1>6 DEF KexInv, KexTypes
<1>8. LastHello' = L /\ L <= nonce' /\ hostKey' <= L /\ EarlierThan(toHost', L)
  BY <1>1, <1>2 DEF L
<1> QED BY <1>3, <1>6, <1>7, <1>8 DEF KexInv

\* Steps that only touch the wires and the connections keep the invariant as
\* long as the wires stay in order.
LEMMA WiresKeep ==
    ASSUME KexInv, UNCHANGED <<nonce, initiator, hostKey, guestKey, installing>>,
           toGuest' \in Seq(Nat), Ascending(toGuest', LastHello, nonce),
           toHost' \in Seq(Nat), EarlierThan(toHost', LastHello), hostReady' => hostReady
    PROVE  KexInv'
<1>1. LastHello' = LastHello
  BY SameLastHello
<1>2. KexTypes'
  BY DEF KexInv, KexTypes
<1> QED BY <1>1, <1>2 DEF KexInv

\* The host's handlers keep the invariant.
LEMMA HostKeeps ==
    ASSUME KexInv, Host
    PROVE  KexInv'
<1>0. /\ LastHello \in Nat /\ nonce \in Nat /\ toHost \in Seq(Nat) /\ toGuest \in Seq(Nat)
      /\ EarlierThan(toHost, LastHello) /\ Ascending(toGuest, LastHello, nonce)
  BY LastHelloType DEF KexInv, KexTypes
<1>1. CASE HostPeerJoined
  <2>1. /\ toHost # <<>> /\ Initiate /\ toHost' = Tail(toHost) /\ hostKey' = hostKey
        /\ guestKey' = guestKey /\ installing' = installing
    BY <1>1 DEF HostPeerJoined, guestVars
  <2>2. Tail(toHost) \in Seq(Nat) /\ EarlierThan(Tail(toHost), LastHello)
    BY <1>0, <2>1, WireHeadTail
  <2>3. LastHello' = LastHello
    BY <2>1, SameLastHello
  <2> QED BY <2>1, <2>2, <2>3, InitiateKeeps
<1>2. CASE PostReconnect
  <2>1. /\ hostKey' = hostKey /\ guestKey' = guestKey /\ installing' = installing
        /\ toHost' = toHost
        /\ Initiate \/ UNCHANGED <<nonce, initiator, hostReady, toGuest>>
    BY <1>2 DEF PostReconnect, guestVars
  <2>2. LastHello' = LastHello
    BY <2>1, SameLastHello
  <2>3. CASE Initiate
    BY <1>0, <2>1, <2>2, <2>3, InitiateKeeps
  <2>4. CASE UNCHANGED <<nonce, initiator, hostReady, toGuest>>
    BY <1>0, <2>1, <2>4, WiresKeep
  <2> QED BY <2>1, <2>3, <2>4
<1>3. CASE HandleKexReply
  <2>1. /\ toHost # <<>> /\ Head(toHost) # 0 /\ initiator' = 0 /\ toHost' = Tail(toHost)
        /\ nonce' = nonce /\ toGuest' = toGuest
        /\ guestKey' = guestKey /\ installing' = installing
        /\ \/ initiator = Head(toHost) /\ hostKey' = initiator /\ hostReady' = TRUE
           \/ hostKey' = hostKey /\ hostReady' = hostReady
    BY <1>3 DEF HandleKexReply, guestVars, Joined
  <2>2. /\ Head(toHost) \in Nat /\ Head(toHost) <= LastHello
        /\ Tail(toHost) \in Seq(Nat) /\ EarlierThan(Tail(toHost), LastHello)
    BY <1>0, <2>1, WireHeadTail, Zenon
  <2>3. LastHello' = LastHello
    BY <2>1, SameLastHello
  <2>4. /\ hostKey' \in Nat /\ hostKey' <= LastHello
        /\ hostReady' => hostKey' = nonce /\ nonce # 0
    BY <1>0, <2>1, <2>2 DEF KexInv, KexTypes
  <2>5. KexTypes'
    BY <1>0, <2>1, <2>2, <2>4 DEF KexInv, KexTypes
  <2> QED BY <2>1, <2>2, <2>3, <2>4, <2>5 DEF KexInv
<1> QED BY <1>1, <1>2, <1>3 DEF Host

\* The guest's handlers keep the invariant: a hello it handles becomes the
\* newest, and installing a key takes nothing from the queue but its head.
LEMMA GuestKeeps ==
    ASSUME KexInv, Guest
    PROVE  KexInv'
<1>0. /\ LastHello \in Nat /\ nonce \in Nat /\ toHost \in Seq(Nat) /\ toGuest \in Seq(Nat)
      /\ installing \in Seq(Nat) /\ guestKey \in Nat /\ hostKey \in Nat /\ hostKey <= LastHello
      /\ EarlierThan(toHost, LastHello) /\ Ascending(toGuest, LastHello, nonce)
  BY LastHelloType DEF KexInv, KexTypes
<1>1. CASE HandleKexHello
  <2> DEFINE h == Head(toGuest)
  <2>1. /\ toGuest # <<>> /\ toGuest' = Tail(toGuest) /\ installing' = Append(installing, h)
        /\ toHost' = Append(toHost, h) \/ toHost' = toHost
        /\ guestKey' = guestKey
        /\ UNCHANGED <<initiator, nonce, hostKey, hostReady>>
    BY <1>1 DEF HandleKexHello, Forwarded, hostVars
  <2>2. /\ h \in Nat /\ LastHello < h /\ h <= nonce
        /\ Tail(toGuest) \in Seq(Nat) /\ Ascending(Tail(toGuest), h, nonce)
    BY <1>0, <2>1, WireHeadTail, Zenon
  <2> HIDE DEF h
  <2>3. /\ installing' \in Seq(Nat) /\ installing' # <<>>
        /\ installing'[Len(installing')] = h
    <3>1. /\ Append(installing, h) \in Seq(Nat) /\ Append(installing, h) # <<>>
          /\ Append(installing, h)[Len(Append(installing, h))] = h
      BY <1>0, <2>2, EndOfQueue, Zenon
    <3> QED BY <2>1, <3>1
  <2>4. LastHello' = h
    BY <2>3 DEF LastHello
  <2>5. /\ Append(toHost, h) \in Seq(Nat) /\ EarlierThan(Append(toHost, h), h)
    BY <1>0, <2>2, Appended
  <2>6. EarlierThan(toHost, h)
    <3>1. \A i \in 1..Len(toHost) : toHost[i] \in Nat
      BY <1>0
    <3> QED BY <1>0, <2>2, <3>1 DEF EarlierThan
  <2>7. KexTypes'
    BY <1>0, <2>1, <2>2, <2>3, <2>5, Zenon DEF KexInv, KexTypes
  <2>8. hostKey' <= h
    BY <1>0, <2>1, <2>2
  <2> QED BY <2>1, <2>2, <2>4, <2>5, <2>6, <2>7, <2>8, Zenon DEF KexInv
<1>2. CASE SetSession
  <2>1. /\ installing # <<>> /\ guestKey' = Head(installing) /\ installing' = Tail(installing)
        /\ UNCHANGED <<initiator, nonce, hostKey, hostReady, toGuest, toHost>>
    BY <1>2 DEF SetSession, hostVars, wires
  <2>2. /\ Head(installing) \in Nat /\ Tail(installing) \in Seq(Nat)
        /\ Tail(installing) = <<>> => Head(installing) = installing[Len(installing)]
        /\ Tail(installing) # <<>> =>
             Tail(installing)[Len(Tail(installing))] = installing[Len(installing)]
    BY <1>0, <2>1, WireHeadTail, EndOfQueue, Zenon
  <2>3. LastHello' = LastHello
    BY <2>1, <2>2, Zenon DEF LastHello
  <2>4. KexTypes'
    BY <2>1, <2>2 DEF KexInv, KexTypes
  <2> QED BY <2>1, <2>3, <2>4 DEF KexInv
<1> QED BY <1>1, <1>2 DEF Guest

\* Lost, restarted and restored connections keep the invariant.
LEMMA ConnectionsKeep ==
    ASSUME KexInv, Connections \/ HostLost \/ GuestLost \/ RelayCrash
    PROVE  KexInv'
<1>0. /\ LastHello \in Nat /\ nonce \in Nat /\ toHost \in Seq(Nat) /\ toGuest \in Seq(Nat)
      /\ EarlierThan(toHost, LastHello) /\ Ascending(toGuest, LastHello, nonce)
      /\ Len(toHost) \in Nat /\ Len(toGuest) \in Nat
  BY LastHelloType DEF KexInv, KexTypes
<1>1. UNCHANGED <<nonce, initiator, hostKey, guestKey, installing>> /\ (hostReady' => hostReady)
  BY DEF Connections, HostBack, GuestBack, HostLost, GuestLost, RelayCrash, hostVars, guestVars
<1>2. ASSUME NEW m \in 1..(Len(toGuest) + 1), NEW n \in 0..Len(toGuest)
      PROVE  /\ SubSeq(toGuest, m, n) \in Seq(Nat)
             /\ Ascending(SubSeq(toGuest, m, n), LastHello, nonce)
  BY <1>0, PartOfWire
<1>3. ASSUME NEW m \in 1..(Len(toHost) + 1), NEW n \in 0..Len(toHost)
      PROVE  /\ SubSeq(toHost, m, n) \in Seq(Nat)
             /\ EarlierThan(SubSeq(toHost, m, n), LastHello)
  BY <1>0, PartOfWire, Zenon
<1>4. CASE HostLost
  <2>1. PICK k \in 0..Len(toGuest) : toGuest' = SubSeq(toGuest, 1, k)
    BY <1>4 DEF HostLost, Prefixes
  <2>2. PICK m \in 1..(Len(toHost) + 1) : toHost' = SubSeq(toHost, m, Len(toHost))
    BY <1>4 DEF HostLost, Suffixes
  <2>3. 1 \in 1..(Len(toGuest) + 1) /\ Len(toHost) \in 0..Len(toHost)
    BY <1>0
  <2>4. toGuest' \in Seq(Nat) /\ Ascending(toGuest', LastHello, nonce)
    BY <1>2, <2>1, <2>3
  <2>5. toHost' \in Seq(Nat) /\ EarlierThan(toHost', LastHello)
    BY <1>3, <2>2, <2>3, Zenon
  <2> QED BY <1>1, <2>4, <2>5, WiresKeep
<1>5. CASE GuestLost
  <2>1. PICK k \in 0..Len(toHost) : toHost' = SubSeq(toHost, 1, k)
    BY <1>5 DEF GuestLost, Prefixes
  <2>2. PICK m \in 1..(Len(toGuest) + 1) : toGuest' = SubSeq(toGuest, m, Len(toGuest))
    BY <1>5 DEF GuestLost, Suffixes
  <2>3. 1 \in 1..(Len(toHost) + 1) /\ Len(toGuest) \in 0..Len(toGuest)
    BY <1>0
  <2>4. toGuest' \in Seq(Nat) /\ Ascending(toGuest', LastHello, nonce)
    BY <1>2, <2>2, <2>3, Zenon
  <2>5. toHost' \in Seq(Nat) /\ EarlierThan(toHost', LastHello)
    BY <1>3, <2>1, <2>3
  <2> QED BY <1>1, <2>4, <2>5, WiresKeep
<1>6. CASE RelayCrash
  <2>1. toGuest' = <<>> /\ toHost' = <<>>
    BY <1>6 DEF RelayCrash
  <2>2. /\ toGuest' \in Seq(Nat) /\ toHost' \in Seq(Nat)
        /\ Ascending(toGuest', LastHello, nonce) /\ EarlierThan(toHost', LastHello)
    BY <2>1 DEF Ascending, EarlierThan
  <2> QED BY <1>1, <2>2, WiresKeep
<1>7. CASE Connections
  <2>1. toGuest' = toGuest /\ (toHost' = Append(toHost, 0) \/ toHost' = toHost)
    BY <1>7 DEF Connections, HostBack, GuestBack, wires, Joined
  <2>2. Append(toHost, 0) \in Seq(Nat) /\ EarlierThan(Append(toHost, 0), LastHello)
    BY <1>0, Appended
  <2> QED BY <1>0, <1>1, <2>1, <2>2, WiresKeep, Zenon
<1> QED BY <1>4, <1>5, <1>6, <1>7

\* The inductive step.
LEMMA KexInvStep == KexInv /\ [KexNext]_kexVars => KexInv'
<1> SUFFICES ASSUME KexInv, [KexNext]_kexVars PROVE KexInv'
  OBVIOUS
<1>1. CASE UNCHANGED kexVars
  BY <1>1 DEF kexVars, hostVars, guestVars, wires, KexInv, KexTypes, LastHello
<1> QED BY <1>1, HostKeeps, GuestKeeps, ConnectionsKeep DEF KexNext

\* Nothing is on its way at the start.
LEMMA KexInvInit == KexInit => KexInv
BY DEF KexInit, KexInv, KexTypes, LastHello, Ascending, EarlierThan

\* Two sides that are ready have settled on the last hello.
LEMMA KexInvSafe == KexInv => ReadyKeysAgree
<1> SUFFICES ASSUME KexInv, hostReady, installing = <<>> PROVE hostKey = guestKey
  BY DEF ReadyKeysAgree
<1>1. /\ LastHello = guestKey /\ hostKey = nonce /\ hostKey <= guestKey /\ guestKey <= nonce
      /\ guestKey \in Nat /\ nonce \in Nat
  BY DEF KexInv, KexTypes, LastHello
<1> QED BY <1>1

\* Whatever is lost, delayed or overtaken, and however often, two sides that
\* are ready with no hello handler suspended hold the same key
\* (_initiate_handshake, _handle_kex_hello, _handle_kex_reply).
THEOREM ReadyKeysAlwaysAgree == KexSpec => []ReadyKeysAgree
BY KexInvInit, KexInvStep, KexInvSafe, PTL DEF KexSpec

-----------------------------------------------------------------------------
(***************************************************************************)
(* For every set of message identifiers: the outbox is type correct, never *)
(* strands a queued message, keeps one slot per message, records deliveries*)
(* exactly and respects the lifecycle.                                     *)
(***************************************************************************)

\* Enqueue needs to know that a message without a sequence number has never
\* been in the outbox, so that it cannot be in a slot already.
UnnumberedIsNew == \A m \in Ids : sequence[m] = 0 => status[m] = "NONE"

OutboxInv ==
    /\ OutboxTypeOK
    /\ NoStrandedMessage
    /\ OneSlotPerMessage
    /\ DeliveredSequencesExact
    /\ UnnumberedIsNew

-----------------------------------------------------------------------------
\* What requeue_unacked puts in the queue: the unsettled messages, each once.
LEMMA SortedQueue ==
    ASSUME NEW P \in SUBSET Ids, sequence \in [Ids -> Nat],
           NEW q \in SortedBySequence(P)
    PROVE  /\ q \in Seq(Ids)
           /\ Slots(q) = P
           /\ \A i, j \in DOMAIN q : q[i] = q[j] => i = j
<1>1. PICK n \in 0..Cardinality(P) : q \in [1..n -> P]
  BY DEF SortedBySequence
<1>2. /\ n \in Nat /\ q \in Seq(Ids) /\ DOMAIN q = 1..n /\ \A i \in 1..n : q[i] \in P
  BY <1>1
<1>3. P \subseteq Slots(q) /\ \A i, j \in DOMAIN q : i < j => sequence[q[i]] < sequence[q[j]]
  BY DEF SortedBySequence
<1>4. Slots(q) = P
  BY <1>2, <1>3 DEF Slots
<1>5. ASSUME NEW i \in DOMAIN q, NEW j \in DOMAIN q, q[i] = q[j]
      PROVE  i = j
  <2>1. i \in Nat /\ j \in Nat /\ q[i] \in Ids
    BY <1>2
  <2>2. ~ (i < j) /\ ~ (j < i)
    BY <1>3, <1>5, <2>1
  <2> QED BY <2>1, <2>2
<1> QED BY <1>2, <1>4, <1>5

\* The slots of a queue of messages.
LEMMA SlotsAreIds ==
    ASSUME NEW q \in Seq(Ids)
    PROVE  Slots(q) \subseteq Ids
BY DEF Slots

\* Appending a message adds its slot at the end.
LEMMA AppendSlot ==
    ASSUME NEW q \in Seq(Ids), NEW m \in Ids
    PROVE  Slots(Append(q, m)) = Slots(q) \cup {m}
<1> DEFINE r == Append(q, m)
<1>1. /\ Len(q) \in Nat /\ DOMAIN q = 1..Len(q) /\ DOMAIN r = 1..(Len(q) + 1)
      /\ r[Len(q) + 1] = m /\ \A k \in 1..Len(q) : r[k] = q[k]
  OBVIOUS
<1>2. Slots(r) \subseteq Slots(q) \cup {m}
  <2> SUFFICES ASSUME NEW k \in 1..(Len(q) + 1) PROVE r[k] \in Slots(q) \cup {m}
    BY <1>1 DEF Slots
  <2>1. k = Len(q) + 1 \/ k \in 1..Len(q) BY <1>1
  <2> QED BY <1>1, <2>1 DEF Slots
<1>3. m \in Slots(r)
  <2>1. Len(q) + 1 \in DOMAIN r BY <1>1
  <2> QED BY <1>1, <2>1 DEF Slots
<1>4. ASSUME NEW k \in 1..Len(q) PROVE q[k] \in Slots(r)
  <2>1. k \in DOMAIN r /\ r[k] = q[k] BY <1>1
  <2> QED BY <2>1 DEF Slots
<1> QED BY <1>1, <1>2, <1>3, <1>4 DEF Slots

\* Popping the first k slots.
LEMMA DropPrefix ==
    ASSUME NEW q \in Seq(Ids), NEW k \in 1..Len(q)
    PROVE  LET r == SubSeq(q, k + 1, Len(q))
           IN  /\ r \in Seq(Ids)
               /\ DOMAIN r = 1..(Len(q) - k)
               /\ \A i \in 1..(Len(q) - k) : r[i] = q[k + i]
<1> DEFINE r == SubSeq(q, k + 1, Len(q))
<1>1. Len(q) \in Nat /\ k \in Nat /\ k <= Len(q) OBVIOUS
<1>2. r \in Seq(Ids) /\ Len(r) = Len(q) - k
  BY <1>1
<1>3. ASSUME NEW i \in 1..(Len(q) - k) PROVE r[i] = q[k + i]
  BY <1>1, <1>2
<1> QED BY <1>1, <1>2, <1>3

\* The index in the queue of the i-th message behind the one at k.
LEMMA ShiftUp ==
    ASSUME NEW k \in Nat, NEW n \in Nat, k \in 1..n, NEW i \in 1..(n - k)
    PROVE  k + i \in 1..n /\ k + i # k
OBVIOUS

\* The place of i after the first k places are gone.
LEMMA ShiftDown ==
    ASSUME NEW n \in Nat, NEW k \in Nat, NEW i \in 1..n, i > k
    PROVE  i - k \in 1..(n - k)
OBVIOUS

\* Pushing an absent message on the left keeps the slots apart.
LEMMA PushLeft ==
    ASSUME NEW q \in Seq(Ids), NEW m \in Ids, m \notin Slots(q),
           \A i, j \in DOMAIN q : q[i] = q[j] => i = j
    PROVE  /\ <<m>> \o q \in Seq(Ids)
           /\ Slots(<<m>> \o q) = Slots(q) \cup {m}
           /\ \A i, j \in DOMAIN (<<m>> \o q) : (<<m>> \o q)[i] = (<<m>> \o q)[j] => i = j
<1> DEFINE r == <<m>> \o q
<1>1. /\ r \in Seq(Ids) /\ Len(r) = Len(q) + 1 /\ Len(q) \in Nat
      /\ r[1] = m
      /\ \A k \in 2..Len(r) : r[k] = q[k - 1]
  OBVIOUS
<1>2. DOMAIN r = 1..(Len(q) + 1) /\ DOMAIN q = 1..Len(q)
  BY <1>1
<1>3. \A k \in 1..Len(q) : r[k + 1] = q[k]
  BY <1>1
<1>4. Slots(r) = Slots(q) \cup {m}
  <2>1. Slots(r) \subseteq Slots(q) \cup {m}
    <3> SUFFICES ASSUME NEW k \in 1..(Len(q) + 1) PROVE r[k] \in Slots(q) \cup {m}
      BY <1>2 DEF Slots
    <3>1. CASE k = 1 BY <3>1, <1>1
    <3>2. CASE k # 1
      <4>1. k - 1 \in 1..Len(q) /\ r[k] = q[k - 1] BY <3>2, <1>1
      <4> QED BY <4>1, <1>2 DEF Slots
    <3> QED BY <3>1, <3>2
  <2>2. m \in Slots(r)
    <3>1. 1 \in DOMAIN r BY <1>1, <1>2
    <3> QED BY <3>1, <1>1 DEF Slots
  <2>3. ASSUME NEW k \in 1..Len(q) PROVE q[k] \in Slots(r)
    <3>1. k + 1 \in DOMAIN r /\ r[k + 1] = q[k] BY <1>1, <1>2, <1>3
    <3> QED BY <3>1, Zenon DEF Slots
  <2>4. Slots(q) \subseteq Slots(r) BY <2>3, <1>2 DEF Slots
  <2> HIDE DEF r
  <2> QED BY <2>1, <2>2, <2>4
<1>5. ASSUME NEW i \in DOMAIN r, NEW j \in DOMAIN r, r[i] = r[j]
      PROVE  i = j
  <2>1. ASSUME NEW k \in 2..(Len(q) + 1) PROVE r[k] # m
    <3>1. k - 1 \in DOMAIN q /\ r[k] = q[k - 1] BY <1>1, <1>2
    <3> QED BY <3>1 DEF Slots
  <2>2. CASE i = 1 \/ j = 1 BY <1>1, <1>2, <1>5, <2>1, <2>2
  <2>3. CASE i # 1 /\ j # 1
    <3>1. /\ i - 1 \in DOMAIN q /\ j - 1 \in DOMAIN q
          /\ r[i] = q[i - 1] /\ r[j] = q[j - 1]
      BY <2>3, <1>1, <1>2
    <3>2. i - 1 = j - 1 BY <3>1, <1>5
    <3> QED BY <3>2, <1>2
  <2> QED BY <2>2, <2>3
<1> QED BY <1>1, <1>4, <1>5

-----------------------------------------------------------------------------
\* The empty outbox satisfies the invariant.
LEMMA OutboxInvInit == OutboxInit => OutboxInv
BY DEF OutboxInit, OutboxInv, OutboxTypeOK, Statuses, WaiterStates, NoStrandedMessage,
       OneSlotPerMessage, DeliveredSequencesExact, UnnumberedIsNew, Slots

\* A roll-back of an in-flight message to the head of the queue (restore,
\* to_queued) preserves the invariant.
LEMMA RollBackKeeps ==
    ASSUME OutboxInv, NEW m \in Ids, status[m] \in {"SENDING", "SENT"},
           status' = [status EXCEPT ![m] = "QUEUED"],
           queue' = <<m>> \o queue,
           UNCHANGED <<sequence, nextSequence, waiter, deliveredSeqs>>
    PROVE  OutboxInv'
<1>1. m \notin Slots(queue)
  BY DEF OutboxInv, OneSlotPerMessage
<1>2. /\ queue' \in Seq(Ids)
      /\ Slots(queue') = Slots(queue) \cup {m}
      /\ \A i, j \in DOMAIN queue' : queue'[i] = queue'[j] => i = j
  BY <1>1, PushLeft, Zenon DEF OutboxInv, OutboxTypeOK, OneSlotPerMessage
<1>3. OutboxTypeOK'
  BY <1>2 DEF OutboxInv, OutboxTypeOK, Statuses
<1>4. NoStrandedMessage' /\ OneSlotPerMessage'
  <2>1. Slots(queue) \subseteq Ids BY SlotsAreIds DEF OutboxInv, OutboxTypeOK
  <2> QED BY <1>2, <2>1, Zenon DEF OutboxInv, OutboxTypeOK, NoStrandedMessage, OneSlotPerMessage
<1>5. DeliveredSequencesExact' /\ UnnumberedIsNew'
  BY DEF OutboxInv, OutboxTypeOK, DeliveredSequencesExact, UnnumberedIsNew
<1> QED BY <1>3, <1>4, <1>5 DEF OutboxInv

\* Every operation of the outbox preserves it.
LEMMA OutboxInvStep ==
    ASSUME OutboxInv, [OutboxNext]_outboxVars
    PROVE  OutboxInv'
<1> USE DEF OutboxInv, OutboxTypeOK, Statuses, WaiterStates
<1>1. ASSUME NEW m \in Ids, Enqueue(m) PROVE OutboxInv'
  <2>1. status[m] = "NONE" /\ m \notin Slots(queue)
    BY <1>1, Zenon DEF Enqueue, UnnumberedIsNew, OneSlotPerMessage
  <2>2. /\ queue' \in Seq(Ids) /\ Len(queue') = Len(queue) + 1 /\ Len(queue) \in Nat
        /\ DOMAIN queue' = 1..(Len(queue) + 1) /\ DOMAIN queue = 1..Len(queue)
        /\ queue'[Len(queue) + 1] = m
        /\ \A k \in 1..Len(queue) : queue'[k] = queue[k]
    BY <1>1 DEF Enqueue
  <2>3. Slots(queue') = Slots(queue) \cup {m}
    BY <1>1, AppendSlot DEF Enqueue
  <2>4. OutboxTypeOK'
    BY <1>1, <2>2 DEF Enqueue
  <2>5. NoStrandedMessage'
    BY <1>1, <2>3 DEF Enqueue, NoStrandedMessage
  <2>6. OneSlotPerMessage'
    <3>1. \A n \in Slots(queue') : status'[n] \in {"QUEUED", "FAILED"}
      BY <1>1, <2>2, <2>3 DEF Enqueue, OneSlotPerMessage, Slots
    <3>2. \A i, j \in DOMAIN queue' : queue'[i] = queue'[j] => i = j
      <4> SUFFICES ASSUME NEW i \in 1..(Len(queue) + 1), NEW j \in 1..(Len(queue) + 1), queue'[i] = queue'[j]
                   PROVE  i = j
        BY <2>2
      <4>1. \A k \in 1..Len(queue) : queue'[k] = queue[k] /\ queue[k] # m
        BY <2>1, <2>2, Zenon DEF Slots
      <4>2. CASE i \in 1..Len(queue) /\ j \in 1..Len(queue)
        BY <2>2, <4>1, <4>2, Zenon DEF OneSlotPerMessage
      <4>3. /\ i \in 1..Len(queue) \/ i = Len(queue) + 1
            /\ j \in 1..Len(queue) \/ j = Len(queue) + 1
        BY <2>2
      <4>4. queue'[Len(queue) + 1] = m
        BY <2>2
      <4> QED BY <4>1, <4>2, <4>3, <4>4, Zenon
    <3> QED BY <3>1, <3>2 DEF OneSlotPerMessage
  <2>7. DeliveredSequencesExact' /\ UnnumberedIsNew'
    BY <1>1, <2>1 DEF Enqueue, DeliveredSequencesExact, UnnumberedIsNew
  <2> QED BY <2>4, <2>5, <2>6, <2>7
<1>2. ASSUME NEW m \in Ids, NextQueued(m) PROVE OutboxInv'
  <2>1. PICK k \in 1..Len(queue) :
            /\ FirstLive(k) /\ queue[k] = m
            /\ queue' = SubSeq(queue, k + 1, Len(queue))
            /\ status' = [status EXCEPT ![m] = "SENDING"]
            /\ UNCHANGED <<sequence, nextSequence, waiter, deliveredSeqs>>
    BY <1>2 DEF NextQueued
  <2>2. /\ queue' \in Seq(Ids)
        /\ DOMAIN queue' = 1..(Len(queue) - k)
        /\ \A i \in 1..(Len(queue) - k) : queue'[i] = queue[k + i]
        /\ Len(queue) \in Nat /\ DOMAIN queue = 1..Len(queue)
    BY <2>1, DropPrefix
  <2>3. \A n \in Ids : status'[n] = "QUEUED" => n \in Slots(queue')
    <3> SUFFICES ASSUME NEW n \in Ids, status'[n] = "QUEUED"
                 PROVE  n \in Slots(queue')
      OBVIOUS
    <3>1. n # m /\ status[n] = "QUEUED" BY <2>1
    <3>2. PICK i \in 1..Len(queue) : queue[i] = n
      BY <3>1, <2>2 DEF NoStrandedMessage, Slots
    <3>3. i > k
      BY <3>1, <3>2, <2>1, <2>2 DEF FirstLive
    <3>4. i - k \in 1..(Len(queue) - k) /\ queue'[i - k] = n
      <4>0. k \in Nat /\ Len(queue) \in Nat BY <2>2
      <4>1. i - k \in 1..(Len(queue) - k) BY <3>3, <4>0, ShiftDown
      <4>2. queue'[i - k] = queue[k + (i - k)] BY <4>1, <2>2
      <4>3. k + (i - k) = i BY <4>0
      <4> QED BY <4>1, <4>2, <4>3, <3>2
    <3> QED BY <3>4, <2>2, Zenon DEF Slots
  <2>4. \A i, j \in DOMAIN queue' : queue'[i] = queue'[j] => i = j
    <3> SUFFICES ASSUME NEW i \in 1..(Len(queue) - k), NEW j \in 1..(Len(queue) - k),
                        queue[k + i] = queue[k + j]
                 PROVE  i = j
      BY <2>2, Zenon
    <3>1. k + i \in DOMAIN queue /\ k + j \in DOMAIN queue BY <2>2
    <3>2. k + i = k + j BY <3>1 DEF OneSlotPerMessage
    <3> QED BY <3>2
  <2>5. \A n \in Slots(queue') : status'[n] \in {"QUEUED", "FAILED"}
    <3> SUFFICES ASSUME NEW n \in Slots(queue')
                 PROVE  status'[n] \in {"QUEUED", "FAILED"}
      OBVIOUS
    <3> PICK i \in 1..(Len(queue) - k) : n = queue[k + i]
      BY <2>2, Zenon DEF Slots
    <3>0. k \in Nat /\ k \in 1..Len(queue) /\ Len(queue) \in Nat BY <2>2
    <3>1. k + i \in 1..Len(queue) /\ k + i # k
      BY <3>0, ShiftUp
    <3>2. k + i \in DOMAIN queue /\ k \in DOMAIN queue /\ k + i # k
      BY <3>0, <2>2, <3>1, Zenon
    <3>3. queue[k + i] # m /\ queue[k + i] \in Slots(queue)
      BY <3>2, <2>1, Zenon DEF OneSlotPerMessage, Slots
    <3>4. status[queue[k + i]] \in {"QUEUED", "FAILED"}
      BY <3>3 DEF OneSlotPerMessage
    <3> QED BY <3>2, <3>3, <3>4, <2>1
  <2>6. OutboxTypeOK'
    BY <2>1, <2>2
  <2>7. status[m] = "QUEUED" BY <2>1 DEF FirstLive
  <2>8. DeliveredSequencesExact' /\ UnnumberedIsNew'
    BY <2>1, <2>7 DEF DeliveredSequencesExact, UnnumberedIsNew
  <2> QED BY <2>3, <2>4, <2>5, <2>6, <2>8, Zenon DEF NoStrandedMessage, OneSlotPerMessage
<1>3. ASSUME NEW m \in Ids, Restore(m) PROVE OutboxInv'
  BY <1>3, RollBackKeeps, Zenon DEF Restore
<1>4. ASSUME NEW m \in Ids, ToQueued(m) PROVE OutboxInv'
  BY <1>4, RollBackKeeps, Zenon DEF ToQueued
<1>5. ASSUME NEW m \in Ids, MarkSent(m) PROVE OutboxInv'
  BY <1>5 DEF MarkSent, SentStatus, NoStrandedMessage, OneSlotPerMessage,
              DeliveredSequencesExact, UnnumberedIsNew, Slots
<1>6. ASSUME NEW m \in Ids, MarkDelivered(m) PROVE OutboxInv'
  <2>1. CASE AckLands(m)
    <3>1. m \notin Slots(queue)
      BY <2>1 DEF AckLands, OneSlotPerMessage
    <3>2. NoStrandedMessage' /\ UnnumberedIsNew'
      BY <1>6, <2>1 DEF MarkDelivered, AckLands, NoStrandedMessage, UnnumberedIsNew
    <3>5. OutboxTypeOK'
      <4>1. /\ status' = [status EXCEPT ![m] = "DELIVERED"]
            /\ waiter' = [waiter EXCEPT ![m] = Resolved(m)]
            /\ deliveredSeqs' = deliveredSeqs \cup {sequence[m]}
            /\ UNCHANGED <<sequence, nextSequence, queue>>
        BY <1>6, <2>1 DEF MarkDelivered
      <4>2. Resolved(m) \in WaiterStates BY DEF Resolved
      <4>3. deliveredSeqs' \subseteq Nat BY <4>1, Zenon
      <4> QED BY <4>1, <4>2, <4>3
    <3>3. OneSlotPerMessage'
      BY <1>6, <2>1, <3>1 DEF MarkDelivered, OneSlotPerMessage, Slots
    <3>4. DeliveredSequencesExact'
      BY <1>6, <2>1 DEF MarkDelivered, AckLands, DeliveredSequencesExact
    <3> QED BY <3>2, <3>3, <3>4, <3>5
  <2>2. CASE ~ AckLands(m)
    BY <1>6, <2>2 DEF MarkDelivered, NoStrandedMessage, OneSlotPerMessage,
                      DeliveredSequencesExact, UnnumberedIsNew, Slots
  <2> QED BY <2>1, <2>2
<1>7. ASSUME NEW m \in Ids, MarkFailed(m) PROVE OutboxInv'
  <2>1. CASE "FAILED" \in Transitions[status[m]]
    <3>1. status[m] \in {"QUEUED", "SENDING", "SENT"}
      BY <1>7, <2>1 DEF MarkFailed, Transitions
    <3>2. OutboxTypeOK' /\ NoStrandedMessage' /\ UnnumberedIsNew'
      BY <1>7, <2>1, <3>1, Zenon DEF MarkFailed, Resolved, NoStrandedMessage, UnnumberedIsNew
    <3>3. OneSlotPerMessage'
      <4>1. /\ queue' = queue
            /\ \A n \in Ids : status'[n] \in {status[n], "FAILED"}
        BY <1>7, <2>1 DEF MarkFailed
      <4>2. Slots(queue) \subseteq Ids BY DEF Slots
      <4>3. \A n \in Slots(queue) : status'[n] \in {"QUEUED", "FAILED"}
        BY <4>1, <4>2 DEF OneSlotPerMessage
      <4> QED BY <4>1, <4>3, Zenon DEF OneSlotPerMessage
    <3>4. DeliveredSequencesExact'
      BY <1>7, <2>1, <3>1 DEF MarkFailed, DeliveredSequencesExact
    <3> QED BY <3>2, <3>3, <3>4
  <2>2. CASE "FAILED" \notin Transitions[status[m]]
    BY <1>7, <2>2 DEF MarkFailed, NoStrandedMessage, OneSlotPerMessage,
                      DeliveredSequencesExact, UnnumberedIsNew, Slots
  <2> QED BY <2>1, <2>2
<1>8. ASSUME NEW m \in Ids, RegisterAckWaiter(m) \/ DropAckWaiter(m) PROVE OutboxInv'
  BY <1>8 DEF RegisterAckWaiter, DropAckWaiter, NoStrandedMessage,
              OneSlotPerMessage, DeliveredSequencesExact, UnnumberedIsNew, Slots
<1>9. ASSUME NEW c \in 0..(nextSequence - 1), MarkReadUpTo(c) PROVE OutboxInv'
  <2>1. OutboxTypeOK' /\ NoStrandedMessage' /\ UnnumberedIsNew'
    BY <1>9 DEF MarkReadUpTo, NoStrandedMessage, UnnumberedIsNew
  <2>2. OneSlotPerMessage'
    BY <1>9 DEF MarkReadUpTo, OneSlotPerMessage, Slots
  <2>3. DeliveredSequencesExact'
    <3>1. \A n \in Ids : status'[n] \in {"DELIVERED", "READ"}
                         <=> status[n] \in {"DELIVERED", "READ"}
      BY <1>9 DEF MarkReadUpTo
    <3> QED BY <1>9, <3>1, Zenon DEF MarkReadUpTo, DeliveredSequencesExact
  <2> QED BY <2>1, <2>2, <2>3
<1>10. CASE NothingQueued
  <2>1. Slots(queue') = {} /\ queue' \in Seq(Ids) /\ DOMAIN queue' = {}
    BY <1>10 DEF NothingQueued, Slots
  <2>2. \A m \in Ids : status[m] # "QUEUED"
    BY <1>10 DEF NothingQueued, NoStrandedMessage, Slots
  <2> QED
    BY <1>10, <2>1, <2>2 DEF NothingQueued, NoStrandedMessage, OneSlotPerMessage,
                             DeliveredSequencesExact, UnnumberedIsNew
<1>11. CASE OnReconnecting
  <2> USE <1>11 DEF OnReconnecting, RequeueUnacked
  <2>1. PICK q \in SortedBySequence(Pending) : queue' = q
    OBVIOUS
  <2>2. /\ queue' \in Seq(Ids) /\ Slots(queue') = Pending
        /\ \A i, j \in DOMAIN queue' : queue'[i] = queue'[j] => i = j
    <3>1. Pending \in SUBSET Ids BY DEF Pending
    <3> QED BY <2>1, <3>1, SortedQueue, Zenon
  <2>3. OutboxTypeOK'
    BY <2>2 DEF Pending, WaitersCancelled
  <2>4. NoStrandedMessage'
    BY <2>2 DEF Pending, NoStrandedMessage
  <2>5. OneSlotPerMessage'
    BY <2>2 DEF Pending, OneSlotPerMessage
  <2>6. DeliveredSequencesExact'
    <3>1. \A n \in Ids : status'[n] \in {"DELIVERED", "READ"}
                         <=> status[n] \in {"DELIVERED", "READ"}
      BY DEF Pending
    <3> QED BY <3>1, Zenon DEF DeliveredSequencesExact
  <2>7. UnnumberedIsNew'
    BY DEF Pending, UnnumberedIsNew
  <2> QED BY <2>3, <2>4, <2>5, <2>6, <2>7
<1>12. CASE Clear
  <2>1. Slots(queue') = {} /\ queue' \in Seq(Ids) /\ DOMAIN queue' = {}
    BY <1>12 DEF Clear, Slots
  <2> QED
    BY <1>12, <2>1 DEF Clear, WaitersCancelled, NoStrandedMessage, OneSlotPerMessage,
                       DeliveredSequencesExact, UnnumberedIsNew
<1>13. CASE UNCHANGED outboxVars
  BY <1>13 DEF outboxVars, NoStrandedMessage, OneSlotPerMessage,
               DeliveredSequencesExact, UnnumberedIsNew, Slots
<1> QED
  BY <1>1, <1>2, <1>3, <1>4, <1>5, <1>6, <1>7, <1>8, <1>9, <1>10, <1>11, <1>12,
     <1>13, ZenonT(30) DEF OutboxNext

-----------------------------------------------------------------------------
\* The inductive invariant holds in every reachable state of the outbox.
THEOREM OutboxInvariant == OutboxSpec => []OutboxInv
<1>1. OutboxInv /\ [OutboxNext]_outboxVars => OutboxInv'
  BY OutboxInvStep
<1> QED BY <1>1, OutboxInvInit, PTL DEF OutboxSpec

\* Every queued message keeps a slot that next_queued reaches, for any number
\* of messages and any sequence of calls.
THEOREM OutboxNeverStrands == OutboxSpec => []NoStrandedMessage
<1>1. OutboxInv => NoStrandedMessage BY DEF OutboxInv
<1> QED BY <1>1, OutboxInvariant, PTL

\* No message ever occupies two slots, or a slot while it is in flight: the
\* pump cannot pick one message twice (next_queued, requeue_unacked).
THEOREM OutboxOneSlot == OutboxSpec => []OneSlotPerMessage
<1>1. OutboxInv => OneSlotPerMessage BY DEF OutboxInv
<1> QED BY <1>1, OutboxInvariant, PTL

\* _delivered_sequences is exactly the set of acknowledged sequence numbers.
THEOREM OutboxDeliveriesExact == OutboxSpec => []DeliveredSequencesExact
<1>1. OutboxInv => DeliveredSequencesExact BY DEF OutboxInv
<1> QED BY <1>1, OutboxInvariant, PTL

\* No call moves a message against _OUTGOING_TRANSITIONS.
THEOREM OutboxLifecycle == OutboxSpec => LifecycleRespected
<1>1. OutboxInv /\ [OutboxNext]_outboxVars => [LifecycleStep]_outboxVars
  <2> SUFFICES ASSUME OutboxInv, OutboxNext PROVE LifecycleStep
    OBVIOUS
  <2> USE DEF OutboxInv, OutboxTypeOK, Statuses, LifecycleStep, Transitions
  <2>1. ASSUME NEW m \in Ids, Enqueue(m) PROVE LifecycleStep
    BY <2>1 DEF Enqueue, UnnumberedIsNew
  <2>2. ASSUME NEW m \in Ids, NextQueued(m) PROVE LifecycleStep
    BY <2>2, Zenon DEF NextQueued, FirstLive
  <2>3. ASSUME NEW m \in Ids, Restore(m) \/ ToQueued(m) PROVE LifecycleStep
    BY <2>3 DEF Restore, ToQueued
  <2>4. ASSUME NEW m \in Ids, MarkSent(m) PROVE LifecycleStep
    BY <2>4 DEF MarkSent, SentStatus
  <2>5. ASSUME NEW m \in Ids, MarkDelivered(m) PROVE LifecycleStep
    BY <2>5 DEF MarkDelivered, AckLands
  <2>6. ASSUME NEW m \in Ids, MarkFailed(m) PROVE LifecycleStep
    BY <2>6 DEF MarkFailed
  <2>7. ASSUME NEW m \in Ids, RegisterAckWaiter(m) \/ DropAckWaiter(m)
        PROVE LifecycleStep
    BY <2>7 DEF RegisterAckWaiter, DropAckWaiter
  <2>8. ASSUME NEW c \in 0..(nextSequence - 1), MarkReadUpTo(c) PROVE LifecycleStep
    BY <2>8 DEF MarkReadUpTo
  <2>9. CASE OnReconnecting
    BY <2>9 DEF OnReconnecting, RequeueUnacked, Pending
  <2>10. CASE NothingQueued \/ Clear
    BY <2>10 DEF NothingQueued, Clear
  <2> QED BY <2>1, <2>2, <2>3, <2>4, <2>5, <2>6, <2>7, <2>8, <2>9, <2>10, Zenon DEF OutboxNext
<1> QED BY <1>1, OutboxInvariant, PTL DEF OutboxSpec, LifecycleRespected

\* Together: whatever calls reach an outbox in whatever order, its queue and its
\* record of deliveries are sound.
THEOREM OutboxSafety == OutboxSpec => []OutboxSafe
<1>1. OutboxInv => OutboxSafe BY DEF OutboxInv, OutboxSafe
<1> QED BY <1>1, OutboxInvariant, PTL

-----------------------------------------------------------------------------
(***************************************************************************)
(* For any messages, any numbering and any buffer and LRU sizes: the inbox *)
(* delivers in strictly ascending order and buffers only what is ahead.    *)
(***************************************************************************)

\* The tests "is the buffer full" count a finite set.
BufferFinite == IsFiniteSet(DOMAIN buffer)

InboxInv == InboxTypeOK /\ StrictlyOrdered /\ BufferAhead /\ BufferFinite

\* A stream that may be delivered next, up to (excluding) the number e.
Below(d, e) ==
    /\ d \in Seq(InboxIds)
    /\ \A i, j \in DOMAIN d : i < j => SequenceOf[d[i]] < SequenceOf[d[j]]
    /\ \A i \in DOMAIN d : SequenceOf[d[i]] < e

\* A reorder buffer whose entries sit under their own numbers, from e on.
From(b, e) ==
    /\ IsFiniteSet(DOMAIN b)
    /\ DOMAIN b \subseteq Nat \ {0}
    /\ \A s \in DOMAIN b : b[s] \in InboxIds /\ SequenceOf[b[s]] = s /\ s >= e

-----------------------------------------------------------------------------
\* The number of position j of a run that starts with e after n messages.
LEMMA RunNumber ==
    ASSUME NEW e \in Nat, NEW n \in Nat, NEW j \in Nat, j >= n + 1
    PROVE  e + (j - n) - 1 \in Nat /\ e + (j - n) - 1 >= e
OBVIOUS

\* A run of consecutive numbers ascends.
LEMMA RunAscends ==
    ASSUME NEW e \in Nat, NEW n \in Nat, NEW i \in Nat, NEW j \in Nat, i < j
    PROVE  e + (i - n) - 1 < e + (j - n) - 1
OBVIOUS

\* The numbers of a run end before the cursor that passed it.
LEMMA RunStaysBelow ==
    ASSUME NEW e \in Nat, NEW k \in Nat, k - e \in Nat, NEW n \in Nat, NEW i \in (n + 1)..(n + (k - e))
    PROVE  e + (i - n) - 1 < k
OBVIOUS

\* Two sequences one after the other are a sequence.
LEMMA ConcatSeq ==
    ASSUME NEW S, NEW d \in Seq(S), NEW r \in Seq(S)
    PROVE  d \o r \in Seq(S) /\ Len(d \o r) = Len(d) + Len(r)
OBVIOUS

\* Extending an ordered stream by a run of consecutive numbers.
LEMMA ExtendByRun ==
    ASSUME NEW e \in Nat \ {0}, NEW k \in Nat, k >= e,
           NEW d, Below(d, e),
           NEW r \in Seq(InboxIds), Len(r) = k - e,
           \A i \in 1..(k - e) : SequenceOf[r[i]] = e + i - 1
    PROVE  Below(d \o r, k)
<1> DEFINE c == d \o r
<1>0. SequenceOf \in [InboxIds -> Nat \ {0}] BY InboxConstants
<1>1. /\ d \in Seq(InboxIds) /\ Len(d) \in Nat /\ DOMAIN d = 1..Len(d)
      /\ c \in Seq(InboxIds) /\ Len(c) = Len(d) + (k - e)
      /\ e \in Nat /\ k - e \in Nat
  <2>1. d \in Seq(InboxIds) BY DEF Below
  <2>2. c \in Seq(InboxIds) /\ Len(c) = Len(d) + Len(r) BY <2>1, ConcatSeq, Zenon
  <2>3. e \in Nat /\ k - e \in Nat OBVIOUS
  <2> QED BY <2>1, <2>2, <2>3
<1>2. DOMAIN c = 1..(Len(d) + (k - e))
  BY <1>1
<1>3. ASSUME NEW i \in 1..Len(d)
      PROVE  c[i] = d[i] /\ SequenceOf[c[i]] \in Nat /\ SequenceOf[c[i]] < e
  <2>1. c[i] = d[i] BY <1>1
  <2>2. d[i] \in InboxIds BY <1>1
  <2> QED BY <1>0, <1>1, <2>1, <2>2, Zenon DEF Below
<1>4. ASSUME NEW i \in (Len(d) + 1)..(Len(d) + (k - e))
      PROVE  SequenceOf[c[i]] = e + (i - Len(d)) - 1
  <2>1. i - Len(d) \in 1..(k - e) BY <1>1
  <2>2. c[i] = r[i - Len(d)] BY <1>1, <2>1
  <2> QED BY <2>1, <2>2
<1> HIDE DEF c
<1>5. \A i \in DOMAIN c : SequenceOf[c[i]] < k
  <2> SUFFICES ASSUME NEW i \in DOMAIN c PROVE SequenceOf[c[i]] < k
    OBVIOUS
  <2>1. CASE i \in 1..Len(d) BY <2>1, <1>3
  <2>2. CASE i \in (Len(d) + 1)..(Len(d) + (k - e))
    <3>1. SequenceOf[c[i]] = e + (i - Len(d)) - 1 BY <1>4, <2>2, Zenon
    <3>2. e + (i - Len(d)) - 1 < k BY <1>1, <2>2, RunStaysBelow, Zenon
    <3> QED BY <3>1, <3>2, Zenon
  <2> QED BY <1>1, <1>2, <2>1, <2>2
<1>6. ASSUME NEW i \in DOMAIN c, NEW j \in DOMAIN c, i < j
      PROVE  SequenceOf[c[i]] < SequenceOf[c[j]]
  <2>1. CASE j \in 1..Len(d)
    <3>1. i \in 1..Len(d) BY <1>1, <1>2, <1>6, <2>1
    <3>2. SequenceOf[d[i]] < SequenceOf[d[j]] BY <1>1, <1>6, <2>1, <3>1, Zenon DEF Below
    <3> QED BY <1>3, <2>1, <3>1, <3>2, Zenon
  <2>2. CASE j \in (Len(d) + 1)..(Len(d) + (k - e)) /\ i \in 1..Len(d)
    <3>1. SequenceOf[c[i]] \in Nat /\ SequenceOf[c[i]] < e BY <1>3, <2>2, Zenon
    <3>2. SequenceOf[c[j]] = e + (j - Len(d)) - 1 BY <1>4, <2>2, Zenon
    <3>3. j \in Nat /\ j >= Len(d) + 1 BY <1>1, <2>2
    <3>4. e \in Nat /\ Len(d) \in Nat BY <1>1
    <3>5. e + (j - Len(d)) - 1 \in Nat /\ e + (j - Len(d)) - 1 >= e
      BY <3>3, <3>4, RunNumber, Zenon
    <3>6. SequenceOf[c[j]] \in Nat /\ SequenceOf[c[j]] >= e BY <3>2, <3>5
    <3> QED BY <3>1, <3>4, <3>6
  <2>3. CASE /\ j \in (Len(d) + 1)..(Len(d) + (k - e))
             /\ i \in (Len(d) + 1)..(Len(d) + (k - e))
    <3>1. /\ SequenceOf[c[i]] = e + (i - Len(d)) - 1
          /\ SequenceOf[c[j]] = e + (j - Len(d)) - 1
      BY <1>4, <2>3, Zenon
    <3>2. i \in Nat /\ j \in Nat BY <1>1, <1>2
    <3>3. e + (i - Len(d)) - 1 < e + (j - Len(d)) - 1
      BY <1>1, <1>6, <3>2, RunAscends, Zenon
    <3> QED BY <3>1, <3>3
  <2>4. /\ i \in 1..Len(d) \/ i \in (Len(d) + 1)..(Len(d) + (k - e))
        /\ j \in 1..Len(d) \/ j \in (Len(d) + 1)..(Len(d) + (k - e))
    BY <1>1, <1>2
  <2> QED BY <2>1, <2>2, <2>3, <2>4
<1> QED BY <1>1, <1>5, <1>6, Zenon DEF Below, c

\* What one drain leaves behind (_drain_contiguous and _mark_delivered).
LEMMA DeliverEffect ==
    ASSUME NEW e \in Nat \ {0}, NEW d, Below(d, e), NEW b, From(b, e),
           unread \in Nat, delivered \in Seq(InboxIds), Len(delivered) <= Len(d),
           Deliver(d, b, e)
    PROVE  /\ expected' \in Nat \ {0} /\ expected' >= e
           /\ unread' \in Nat
           /\ Below(delivered', expected')
           /\ From(buffer', expected' + 1)
           /\ buffer' \in [DOMAIN buffer' -> InboxIds]
           /\ Cardinality(DOMAIN buffer') <= Cardinality(DOMAIN b)
           /\ e \in DOMAIN b => Cardinality(DOMAIN buffer') < Cardinality(DOMAIN b)
<1>1. Cardinality(DOMAIN b) \in Nat
  BY FS_CardinalityType DEF From
<1>2. PICK k \in e..(e + Cardinality(DOMAIN b)) :
        /\ e..(k - 1) \subseteq DOMAIN b
        /\ k \notin DOMAIN b
        /\ expected' = k
        /\ buffer' = [s \in DOMAIN b \ (e..(k - 1)) |-> b[s]]
        /\ delivered' = d \o [i \in 1..(k - e) |-> b[e + i - 1]]
        /\ unread' = unread + (Len(delivered') - Len(delivered))
  BY Zenon DEF Deliver
<1> DEFINE r == [i \in 1..(k - e) |-> b[e + i - 1]]
<1>3. k \in Nat /\ k >= e /\ k - e \in Nat
  <2>1. e \in Nat /\ k \in e..(e + Cardinality(DOMAIN b)) OBVIOUS
  <2> QED BY <1>1, <2>1
<1>4. ASSUME NEW i \in 1..(k - e)
      PROVE  r[i] \in InboxIds /\ SequenceOf[r[i]] = e + i - 1
  <2>1. e + i - 1 \in e..(k - 1) BY <1>3
  <2>2. e + i - 1 \in DOMAIN b BY <1>2, <2>1
  <2> QED BY <2>2 DEF From
<1>5. r \in Seq(InboxIds) /\ Len(r) = k - e
  <2>1. r \in [1..(k - e) -> InboxIds] BY <1>4, Zenon
  <2> HIDE DEF r
  <2>2. r \in Seq(InboxIds) BY <1>3, <2>1
  <2>3. DOMAIN r = 1..(k - e) BY <2>1
  <2> QED BY <1>3, <2>2, <2>3
<1>6. Below(delivered', k)
  BY <1>2, <1>3, <1>4, <1>5, ExtendByRun, Zenon
<1>7. unread' \in Nat
  <2>1. d \in Seq(InboxIds) BY DEF Below
  <2>2. Len(delivered') = Len(d) + (k - e) /\ Len(d) \in Nat /\ Len(delivered) \in Nat
    BY <1>2, <1>5, <2>1
  <2> QED BY <1>2, <1>3, <2>2
<1>8. DOMAIN buffer' = DOMAIN b \ (e..(k - 1))
  BY <1>2
<1>9. /\ IsFiniteSet(DOMAIN buffer')
      /\ Cardinality(DOMAIN buffer') <= Cardinality(DOMAIN b)
  BY <1>8, FS_Subset DEF From
<1>10. ASSUME e \in DOMAIN b
       PROVE  Cardinality(DOMAIN buffer') < Cardinality(DOMAIN b)
  <2>1. k # e BY <1>2, <1>10
  <2>2. e \in e..(k - 1) BY <1>3, <2>1
  <2>3. DOMAIN buffer' \subseteq DOMAIN b /\ e \notin DOMAIN buffer'
    BY <1>8, <2>2
  <2>4. Cardinality(DOMAIN buffer') # Cardinality(DOMAIN b)
    BY <1>10, <2>3, FS_Subset DEF From
  <2>5. Cardinality(DOMAIN buffer') \in Nat
    BY <1>9, FS_CardinalityType
  <2> QED BY <1>1, <1>9, <2>4, <2>5
<1>11. ASSUME NEW s \in DOMAIN buffer'
       PROVE  buffer'[s] = b[s] /\ s \in DOMAIN b /\ s \in Nat /\ s >= k + 1
  <2>1. s \in DOMAIN b /\ s \notin e..(k - 1) /\ s # k /\ buffer'[s] = b[s]
    BY <1>2, <1>8
  <2>2. s \in Nat /\ s >= e BY <2>1 DEF From
  <2> QED BY <1>3, <2>1, <2>2
<1>12. From(buffer', k + 1)
  BY <1>8, <1>9, <1>11, Zenon DEF From
<1>13. buffer' \in [DOMAIN buffer' -> InboxIds]
  BY <1>2, <1>8, <1>11 DEF From
<1> QED BY <1>2, <1>3, <1>6, <1>7, <1>9, <1>10, <1>12, <1>13

-----------------------------------------------------------------------------
\* The empty inbox satisfies the invariant.
LEMMA InboxInvInit == InboxInit => InboxInv
<1>1. InboxInit => DOMAIN buffer = {} BY DEF InboxInit
<1>2. IsFiniteSet({}) /\ Cardinality({}) = 0 BY FS_EmptySet
<1> QED
  BY <1>1, <1>2, InboxConstants
     DEF InboxInit, InboxInv, InboxTypeOK, Verdicts, StrictlyOrdered, BufferAhead, BufferFinite

\* The bounded LRU stays bounded.
LEMMA RememberEffect ==
    ASSUME InboxTypeOK, NEW m \in InboxIds, Remember(m)
    PROVE  seen' \in Seq(InboxIds) /\ Len(seen') <= MaxSeenIds
<1>1. /\ seen \in Seq(InboxIds) /\ Len(seen) \in Nat /\ Len(seen) <= MaxSeenIds
      /\ MaxSeenIds \in Nat /\ MaxSeenIds # 0
  BY InboxConstants DEF InboxTypeOK
<1>2. CASE Len(seen) = MaxSeenIds
  <2>1. seen' = Append(Tail(seen), m) BY <1>2 DEF Remember
  <2>2. seen # <<>> BY <1>1, <1>2
  <2>3. Tail(seen) \in Seq(InboxIds) /\ Len(Tail(seen)) = Len(seen) - 1 BY <1>1, <2>2
  <2> QED BY <1>1, <2>1, <2>3
<1>3. CASE Len(seen) # MaxSeenIds
  BY <1>1, <1>3 DEF Remember
<1> QED BY <1>2, <1>3

\* The buffer with one more message that is ahead of the cursor.
LEMMA HeldEffect ==
    ASSUME InboxInv, NEW m \in InboxIds, SequenceOf[m] > expected
    PROVE  /\ DOMAIN Held(m) = DOMAIN buffer \cup {SequenceOf[m]}
           /\ From(Held(m), expected + 1)
           /\ Held(m) \in [DOMAIN Held(m) -> InboxIds]
           /\ Cardinality(DOMAIN Held(m)) <= Cardinality(DOMAIN buffer) + 1
<1>1. SequenceOf[m] \in Nat \ {0} BY InboxConstants
<1>2. DOMAIN Held(m) = DOMAIN buffer \cup {SequenceOf[m]} BY DEF Held
<1>4. /\ IsFiniteSet(DOMAIN Held(m))
      /\ Cardinality(DOMAIN Held(m)) <= Cardinality(DOMAIN buffer) + 1
  <2> DEFINE S == DOMAIN buffer
             n == SequenceOf[m]
  <2>1. IsFiniteSet(S) BY DEF InboxInv, BufferFinite
  <2> HIDE DEF S, n
  <2>2. /\ IsFiniteSet(S \cup {n})
        /\ Cardinality(S \cup {n}) = Cardinality(S)
           \/ Cardinality(S \cup {n}) = Cardinality(S) + 1
    BY <2>1, FS_AddElement, Zenon
  <2>3. Cardinality(S) \in Nat BY <2>1, FS_CardinalityType
  <2>4. Cardinality(S \cup {n}) <= Cardinality(S) + 1 BY <2>2, <2>3
  <2> QED BY <1>2, <2>2, <2>4 DEF S, n
<1>5. ASSUME NEW s \in DOMAIN Held(m)
      PROVE  /\ s \in Nat \ {0} /\ s >= expected + 1
             /\ Held(m)[s] \in InboxIds /\ SequenceOf[Held(m)[s]] = s
  <2>1. CASE s = SequenceOf[m]
    <3>1. Held(m)[s] = m BY <1>2, <2>1 DEF Held
    <3>2. expected \in Nat BY DEF InboxInv, InboxTypeOK
    <3> QED BY <1>1, <2>1, <3>1, <3>2
  <2>2. CASE s # SequenceOf[m]
    <3>1. s \in DOMAIN buffer /\ Held(m)[s] = buffer[s] BY <1>2, <2>2 DEF Held
    <3> QED BY <3>1 DEF InboxInv, InboxTypeOK, BufferAhead
  <2> QED BY <2>1, <2>2
<1> QED BY <1>2, <1>4, <1>5, Zenon DEF From, Held

\* A step that delivers from an admissible state re-establishes the invariant.
LEMMA DeliverKeeps ==
    ASSUME InboxInv, NEW e \in Nat \ {0}, NEW d, Below(d, e), NEW b, From(b, e),
           Len(delivered) <= Len(d), Deliver(d, b, e),
           \/ Cardinality(DOMAIN b) <= MaxReorderBuffer
           \/ e \in DOMAIN b /\ Cardinality(DOMAIN b) <= MaxReorderBuffer + 1,
           seen' \in Seq(InboxIds), Len(seen') <= MaxSeenIds,
           verdict' \in Verdicts \cup {"none"}, highestRead' = highestRead
    PROVE  InboxInv'
<1>1. /\ expected' \in Nat \ {0}
      /\ unread' \in Nat
      /\ Below(delivered', expected')
      /\ From(buffer', expected' + 1)
      /\ buffer' \in [DOMAIN buffer' -> InboxIds]
      /\ Cardinality(DOMAIN buffer') <= Cardinality(DOMAIN b)
      /\ e \in DOMAIN b => Cardinality(DOMAIN buffer') < Cardinality(DOMAIN b)
  <2>1. unread \in Nat /\ delivered \in Seq(InboxIds) BY DEF InboxInv, InboxTypeOK
  <2> QED BY <2>1, DeliverEffect
<1>2. Cardinality(DOMAIN buffer') <= MaxReorderBuffer
  <2>1. Cardinality(DOMAIN b) \in Nat /\ Cardinality(DOMAIN buffer') \in Nat
    BY <1>1, FS_CardinalityType DEF From
  <2>2. MaxReorderBuffer \in Nat BY InboxConstants
  <2> QED BY <1>1, <2>1, <2>2
<1>3. InboxTypeOK'
  BY <1>1, Zenon DEF InboxInv, InboxTypeOK, Below, From
<1>4. \A s \in DOMAIN buffer' : s > expected' /\ SequenceOf[buffer'[s]] = s
  BY <1>1 DEF From
<1> QED BY <1>1, <1>2, <1>3, <1>4
        DEF InboxInv, StrictlyOrdered, BufferAhead, BufferFinite, Below, From

\* Every operation of the inbox preserves it.
LEMMA InboxInvStep ==
    ASSUME InboxInv, [InboxNext]_inboxVars
    PROVE  InboxInv'
<1>0. /\ expected \in Nat \ {0} /\ delivered \in Seq(InboxIds) /\ Len(delivered) \in Nat
      /\ MaxReorderBuffer \in Nat /\ Cardinality(DOMAIN buffer) \in Nat
      /\ Cardinality(DOMAIN buffer) <= MaxReorderBuffer
      /\ seen \in Seq(InboxIds) /\ Len(seen) <= MaxSeenIds
      /\ verdict \in Verdicts \cup {"none"}
  BY InboxConstants, FS_CardinalityType DEF InboxInv, InboxTypeOK, BufferAhead, BufferFinite
<1>a. Below(delivered, expected) /\ From(buffer, expected + 1)
  BY <1>0 DEF InboxInv, InboxTypeOK, StrictlyOrdered, BufferAhead, BufferFinite, Below, From
<1>1. ASSUME NEW m \in InboxIds, AcceptKnown(m) PROVE InboxInv'
  BY <1>1 DEF AcceptKnown, InboxInv, InboxTypeOK, Verdicts, StrictlyOrdered, BufferAhead, BufferFinite
<1>2. ASSUME NEW m \in InboxIds, AcceptPassed(m) PROVE InboxInv'
  <2>1. seen' \in Seq(InboxIds) /\ Len(seen') <= MaxSeenIds
    BY <1>2, RememberEffect DEF AcceptPassed, InboxInv
  <2> QED
    BY <1>2, <2>1 DEF AcceptPassed, InboxInv, InboxTypeOK, Verdicts, StrictlyOrdered,
                      BufferAhead, BufferFinite
<1>3. ASSUME NEW m \in InboxIds, AcceptInOrder(m) PROVE InboxInv'
  <2> DEFINE d == Append(delivered, m)
  <2>1. seen' \in Seq(InboxIds) /\ Len(seen') <= MaxSeenIds
    BY <1>3, RememberEffect DEF AcceptInOrder, InboxInv
  <2>2. Below(d, expected + 1)
    <3>1. /\ d = delivered \o <<m>> /\ <<m>> \in Seq(InboxIds) /\ Len(<<m>>) = 1
          /\ <<m>>[1] = m
      BY <1>0
    <3>2. SequenceOf[m] = expected BY <1>3 DEF AcceptInOrder
    <3>3. expected + 1 \in Nat /\ expected + 1 >= expected /\ (expected + 1) - expected = 1
      BY <1>0
    <3>4. \A i \in 1..1 : SequenceOf[<<m>>[i]] = expected + i - 1
      BY <1>0, <3>1, <3>2
    <3> HIDE DEF d
    <3> QED BY <1>0, <1>a, <3>1, <3>3, <3>4, ExtendByRun, Zenon
  <2>3. Len(delivered) <= Len(d) BY <1>0
  <2>4. /\ Deliver(d, buffer, expected + 1)
        /\ verdict' \in Verdicts \cup {"none"} /\ highestRead' = highestRead
    BY <1>3 DEF AcceptInOrder, Verdicts
  <2>5. expected + 1 \in Nat \ {0} BY <1>0
  <2> HIDE DEF d
  <2> QED BY <1>0, <1>a, <2>1, <2>2, <2>3, <2>4, <2>5, DeliverKeeps
<1>4. ASSUME NEW m \in InboxIds, AcceptBuffered(m) PROVE InboxInv'
  <2>1. seen' \in Seq(InboxIds) /\ Len(seen') <= MaxSeenIds
    BY <1>4, RememberEffect DEF AcceptBuffered, InboxInv
  <2>2. /\ buffer' = Held(m) /\ SequenceOf[m] > expected
        /\ Cardinality(DOMAIN buffer) < MaxReorderBuffer
        /\ UNCHANGED <<expected, delivered, unread, highestRead>>
        /\ verdict' \in Verdicts
    BY <1>4 DEF AcceptBuffered, Verdicts
  <2>3. /\ From(buffer', expected + 1) /\ buffer' \in [DOMAIN buffer' -> InboxIds]
        /\ Cardinality(DOMAIN buffer') <= Cardinality(DOMAIN buffer) + 1
    BY <2>2, HeldEffect, Zenon
  <2>4. Cardinality(DOMAIN buffer') <= MaxReorderBuffer
    <3>1. Cardinality(DOMAIN buffer') \in Nat BY <2>3, FS_CardinalityType DEF From
    <3> QED BY <1>0, <2>2, <2>3, <3>1
  <2>5. InboxTypeOK'
    BY <2>1, <2>2, <2>3 DEF InboxInv, InboxTypeOK, From
  <2>6. \A s \in DOMAIN buffer' : s > expected' /\ SequenceOf[buffer'[s]] = s
    BY <1>0, <2>2, <2>3 DEF From
  <2> QED BY <2>2, <2>3, <2>4, <2>5, <2>6
          DEF InboxInv, StrictlyOrdered, BufferAhead, BufferFinite, From
<1>5. ASSUME NEW m \in InboxIds, ForceProgress(m) PROVE InboxInv'
  <2>1. seen' \in Seq(InboxIds) /\ Len(seen') <= MaxSeenIds
    BY <1>5, RememberEffect DEF ForceProgress, InboxInv
  <2>2. PICK e \in DOMAIN Held(m) :
            IsOldest(e, Held(m)) /\ Deliver(delivered, Held(m), e)
    BY <1>5 DEF ForceProgress
  <2>3. /\ From(Held(m), expected + 1)
        /\ Cardinality(DOMAIN Held(m)) <= Cardinality(DOMAIN buffer) + 1
    BY <1>5, HeldEffect, Zenon DEF ForceProgress
  <2>4. e \in Nat \ {0} /\ e >= expected + 1 BY <2>3 DEF From
  <2>5. From(Held(m), e) BY <2>2, <2>3 DEF From, IsOldest
  <2>6. Below(delivered, e)
    <3>1. \A i \in DOMAIN delivered : SequenceOf[delivered[i]] \in Nat
      BY <1>0, InboxConstants
    <3> QED BY <1>0, <1>a, <2>4, <3>1 DEF Below
  <2>7. Cardinality(DOMAIN Held(m)) <= MaxReorderBuffer + 1
    <3>1. Cardinality(DOMAIN Held(m)) \in Nat BY <2>3, FS_CardinalityType DEF From
    <3> QED BY <1>0, <2>3, <3>1
  <2>8. verdict' \in Verdicts \cup {"none"} /\ highestRead' = highestRead
    BY <1>5 DEF ForceProgress, Verdicts
  <2> QED BY <1>0, <2>1, <2>2, <2>4, <2>5, <2>6, <2>7, <2>8, DeliverKeeps
<1>6. CASE CheckStarvation
  <2>1. PICK e \in DOMAIN buffer :
            /\ IsOldest(e, buffer)
            /\ Deliver(delivered, buffer, IF e > expected THEN e ELSE expected)
    BY <1>6 DEF CheckStarvation
  <2>2. e \in Nat \ {0} /\ e > expected BY <1>0, <1>a DEF From
  <2>3. Deliver(delivered, buffer, e) BY <2>1, <2>2
  <2>4. From(buffer, e) BY <1>a, <2>1 DEF From, IsOldest
  <2>5. Below(delivered, e)
    <3>1. \A i \in DOMAIN delivered : SequenceOf[delivered[i]] \in Nat
      BY <1>0, InboxConstants
    <3> QED BY <1>0, <1>a, <2>2, <3>1 DEF Below
  <2>6. UNCHANGED <<seen, highestRead, verdict>> BY <1>6 DEF CheckStarvation
  <2> QED BY <1>0, <2>2, <2>3, <2>4, <2>5, <2>6, DeliverKeeps
<1>7. CASE MarkAllRead
  <2>1. highestRead' \in Nat
    <3>1. PICK h \in {expected - 1} \cup DOMAIN buffer :
              highestRead' = IF h > highestRead THEN h ELSE highestRead
      BY <1>7 DEF MarkAllRead
    <3>2. h \in Nat BY <1>0, <1>a DEF From
    <3> QED BY <3>1, <3>2 DEF InboxInv, InboxTypeOK
  <2> QED
    BY <1>7, <2>1 DEF MarkAllRead, InboxInv, InboxTypeOK, StrictlyOrdered, BufferAhead, BufferFinite
<1>8. CASE ClearInbox
  <2>1. DOMAIN buffer' = {} BY <1>8 DEF ClearInbox
  <2>2. IsFiniteSet({}) /\ Cardinality({}) = 0 BY FS_EmptySet
  <2>3. InboxTypeOK' BY <1>8, <2>1, InboxConstants DEF ClearInbox, InboxInv, InboxTypeOK
  <2> QED
    BY <1>8, <2>1, <2>2, <2>3, <1>0
       DEF ClearInbox, InboxInv, StrictlyOrdered, BufferAhead, BufferFinite
<1>9. CASE UNCHANGED inboxVars
  BY <1>9 DEF inboxVars, InboxInv, InboxTypeOK, StrictlyOrdered, BufferAhead, BufferFinite
<1> QED BY <1>1, <1>2, <1>3, <1>4, <1>5, <1>6, <1>7, <1>8, <1>9 DEF InboxNext

-----------------------------------------------------------------------------
\* The inductive invariant holds in every reachable state of the inbox.
THEOREM InboxInvariant == InboxSpec => []InboxInv
<1>1. InboxInv /\ [InboxNext]_inboxVars => InboxInv'
  BY InboxInvStep
<1> QED BY <1>1, InboxInvInit, PTL DEF InboxSpec

\* Whatever is lost, resent, reordered or skipped, the stream the inbox
\* delivers ascends strictly: no message twice, none out of order.
THEOREM InboxStrictlyOrdered == InboxSpec => []StrictlyOrdered
<1>1. InboxInv => StrictlyOrdered BY DEF InboxInv
<1> QED BY <1>1, InboxInvariant, PTL

\* The reorder buffer stays within its cap and holds only what is ahead.
THEOREM InboxBufferAhead == InboxSpec => []BufferAhead
<1>1. InboxInv => BufferAhead BY DEF InboxInv
<1> QED BY <1>1, InboxInvariant, PTL

\* Together, with the bounded memory of identifiers (_remember).
THEOREM InboxSafety == InboxSpec => []InboxSafe
<1>1. InboxInv => InboxSafe BY DEF InboxInv, InboxSafe
<1> QED BY <1>1, InboxInvariant, PTL

-----------------------------------------------------------------------------
\* Fewer messages were delivered than numbers passed.
DeliveredPassed == Len(delivered) < expected

\* A drain advances the cursor by exactly the messages it delivers.
LEMMA DeliverCounts ==
    ASSUME NEW e \in Nat \ {0}, NEW d \in Seq(InboxIds), NEW b, From(b, e), Deliver(d, b, e)
    PROVE  /\ expected' \in Nat /\ expected' >= e
           /\ Len(delivered') = Len(d) + (expected' - e)
<1>1. Cardinality(DOMAIN b) \in Nat
  BY FS_CardinalityType DEF From
<1>2. PICK k \in e..(e + Cardinality(DOMAIN b)) :
        /\ e..(k - 1) \subseteq DOMAIN b
        /\ expected' = k
        /\ delivered' = d \o [i \in 1..(k - e) |-> b[e + i - 1]]
  BY DEF Deliver
<1> DEFINE r == [i \in 1..(k - e) |-> b[e + i - 1]]
<1>3. k \in Nat /\ k >= e /\ k - e \in Nat
  <2>1. e \in Nat /\ k \in e..(e + Cardinality(DOMAIN b)) OBVIOUS
  <2> QED BY <1>1, <2>1
<1>4. ASSUME NEW i \in 1..(k - e) PROVE r[i] \in InboxIds
  <2>1. e + i - 1 \in e..(k - 1) BY <1>3
  <2> QED BY <1>2, <2>1 DEF From
<1>5. r \in Seq(InboxIds) /\ Len(r) = k - e
  <2>1. r \in [1..(k - e) -> InboxIds] BY <1>4, Zenon
  <2> HIDE DEF r
  <2>2. r \in Seq(InboxIds) BY <1>3, <2>1
  <2>3. DOMAIN r = 1..(k - e) BY <2>1
  <2> QED BY <1>3, <2>2, <2>3
<1>6. Len(d \o r) = Len(d) + Len(r)
  BY <1>5, ConcatSeq
<1> QED BY <1>2, <1>3, <1>5, <1>6

\* Every step keeps DeliveredPassed and skips only as SkipStep allows: an
\* accepted message moves the cursor by what it delivers, a jump needs a full
\* buffer or the watchdog, and clearing starts both counts again.
LEMMA SkipsAreLogged ==
    ASSUME InboxInv, DeliveredPassed, [InboxNext]_inboxVars
    PROVE  DeliveredPassed' /\ SkipStep
<1>0. /\ expected \in Nat \ {0} /\ delivered \in Seq(InboxIds) /\ Len(delivered) \in Nat
      /\ MaxReorderBuffer \in Nat /\ Cardinality(DOMAIN buffer) \in Nat
      /\ Cardinality(DOMAIN buffer) <= MaxReorderBuffer
      /\ From(buffer, expected + 1)
  BY InboxConstants, FS_CardinalityType DEF InboxInv, InboxTypeOK, BufferAhead, BufferFinite, From
<1>1. CASE UNCHANGED <<expected, delivered>>
  BY <1>0, <1>1 DEF DeliveredPassed, SkipStep
<1>2. ASSUME NEW m \in InboxIds, AcceptInOrder(m) PROVE DeliveredPassed' /\ SkipStep
  <2>1. /\ Append(delivered, m) \in Seq(InboxIds) /\ Len(Append(delivered, m)) = Len(delivered) + 1
        /\ expected + 1 \in Nat \ {0} /\ Deliver(Append(delivered, m), buffer, expected + 1)
    BY <1>0, <1>2 DEF AcceptInOrder
  <2>2. /\ expected' \in Nat /\ expected' >= expected + 1
        /\ Len(delivered') = (Len(delivered) + 1) + (expected' - (expected + 1))
    <3> DEFINE d == Append(delivered, m)
               e == expected + 1
    <3>1. d \in Seq(InboxIds) /\ e \in Nat \ {0} /\ From(buffer, e) /\ Deliver(d, buffer, e)
      BY <1>0, <2>1
    <3>2. Len(d) = Len(delivered) + 1
      BY <2>1
    <3> HIDE DEF d, e
    <3>3. expected' \in Nat /\ expected' >= e /\ Len(delivered') = Len(d) + (expected' - e)
      BY <3>1, DeliverCounts
    <3> QED BY <3>2, <3>3 DEF e
  <2> QED BY <1>0, <2>2 DEF DeliveredPassed, SkipStep
<1>3. ASSUME NEW m \in InboxIds, ForceProgress(m) PROVE DeliveredPassed' /\ SkipStep
  <2>1. PICK e \in DOMAIN Held(m) : IsOldest(e, Held(m)) /\ Deliver(delivered, Held(m), e)
    BY <1>3 DEF ForceProgress
  <2>2. From(Held(m), expected + 1) /\ Cardinality(DOMAIN buffer) = MaxReorderBuffer
    <3>1. SequenceOf[m] > expected /\ Cardinality(DOMAIN buffer) >= MaxReorderBuffer
      BY <1>3 DEF ForceProgress
    <3>2. From(Held(m), expected + 1)
      BY <3>1, HeldEffect, Zenon
    <3>3. Cardinality(DOMAIN buffer) = MaxReorderBuffer
      BY <1>0, <3>1
    <3> QED BY <3>2, <3>3
  <2>3. e \in Nat \ {0} /\ e >= expected + 1 /\ From(Held(m), e)
    BY <2>1, <2>2 DEF From, IsOldest
  <2>4. /\ expected' \in Nat /\ expected' >= e
        /\ Len(delivered') = Len(delivered) + (expected' - e)
    BY <1>0, <2>1, <2>3, DeliverCounts
  <2> QED BY <1>0, <2>2, <2>3, <2>4 DEF DeliveredPassed, SkipStep
<1>4. CASE CheckStarvation
  <2>1. PICK e \in DOMAIN buffer :
            /\ IsOldest(e, buffer)
            /\ Deliver(delivered, buffer, IF e > expected THEN e ELSE expected)
    BY <1>4 DEF CheckStarvation
  <2>2. e \in Nat \ {0} /\ e >= expected + 1 /\ e > expected /\ From(buffer, e)
    BY <1>0, <2>1 DEF From, IsOldest
  <2>3. Deliver(delivered, buffer, e)
    BY <2>1, <2>2
  <2>4. /\ expected' \in Nat /\ expected' >= e
        /\ Len(delivered') = Len(delivered) + (expected' - e)
    BY <1>0, <2>2, <2>3, DeliverCounts
  <2>5. seen' = seen
    BY <1>4 DEF CheckStarvation
  <2> QED BY <1>0, <2>2, <2>4, <2>5 DEF DeliveredPassed, SkipStep
<1>5. CASE ClearInbox
  <2>1. expected' = 1 /\ Len(delivered') = 0
    BY <1>5 DEF ClearInbox
  <2> QED BY <1>0, <2>1 DEF DeliveredPassed, SkipStep
<1> QED
  BY <1>1, <1>2, <1>3, <1>4, <1>5
     DEF InboxNext, AcceptKnown, AcceptPassed, AcceptBuffered, MarkAllRead, inboxVars

\* A number is given up on only with a full buffer or by the watchdog, the two
\* jumps the code logs (accept, _force_progress, check_starvation).
THEOREM InboxNeverSkipsSilently == InboxSpec => NoSilentSkip
<1>1. InboxInit => DeliveredPassed
  BY DEF InboxInit, DeliveredPassed
<1>2. InboxInv /\ DeliveredPassed /\ [InboxNext]_inboxVars => DeliveredPassed' /\ [SkipStep]_inboxVars
  BY SkipsAreLogged
<1> QED BY <1>1, <1>2, InboxInvariant, PTL DEF InboxSpec, NoSilentSkip

-----------------------------------------------------------------------------

=============================================================================
