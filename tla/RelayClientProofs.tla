-------------------------- MODULE RelayClientProofs --------------------------
(***************************************************************************)
(* The client's side of a relay connection, for every value of its         *)
(* constants: the requests it has pending and the heartbeat. Each part has *)
(* its inductive invariant, one lemma per group of actions, and its        *)
(* theorem; the last theorem is about the two together.                    *)
(***************************************************************************)
EXTENDS RelayClient, Integers, Sequences, FiniteSetTheorems, TLAPS


-----------------------------------------------------------------------------
(* The heartbeat: how long a silent peer goes unnoticed. *)

\* The number of ticks after which a ping has expired.
Overdue == Timeout \div Interval + 1

\* A ping that awaits its pong.
AwaitedPings == [nonce : Nat, age : 0 .. Timeout + 1, link : Nat]

\* The types of the heartbeat.
HbTypes ==
    /\ hbRunning \in BOOLEAN /\ hbTick \in {"wait", "ping"} /\ hbSince \in 0 .. Interval
    /\ hbPending \subseteq AwaitedPings /\ IsFiniteSet(hbPending)
    /\ hbStreak \in 0 .. MissedLimit - 1 /\ hbMissed \in 0 .. MissedLimit
    /\ hbStreak <= hbMissed /\ hbAlarm \in BOOLEAN
    /\ hbLink \in Nat /\ hbDialled \in 0 .. MaxLinks /\ hbSilent \in Nat
    /\ hbPings \subseteq Nat \X Nat /\ IsFiniteSet(hbPings)
    /\ hbPongs \subseteq Nat \X Nat /\ IsFiniteSet(hbPongs)

\* A connection in use has a running loop, and only a silent one is silent.
LoopLives ==
    /\ hbLink # 0 => hbRunning
    /\ hbLink = 0 => hbSilent = 0
    /\ hbTick = "ping" => hbRunning /\ hbSince = 0
    /\ ~hbRunning => hbDialled = MaxLinks \/ hbPending = {}

\* The pings awaited are an interval apart; at most one has expired, and then
\* the others will not before the next tick.
Apart(p, q) ==
    /\ p.age <= Timeout /\ q.age <= Timeout =>
          p.age + Interval <= q.age \/ q.age + Interval <= p.age
    /\ p.age > Timeout => q.age + Interval <= Timeout + hbSince

\* A ping is no younger than the last tick.
NotNewer(p) ==
    IF hbTick = "ping" THEN Interval <= p.age /\ p.age <= Timeout
    ELSE hbSince <= p.age \/ p.age > Timeout

\* While the loop runs its pings are apart.
Spaced ==
    hbRunning => /\ \A p, q \in hbPending : p # q => Apart(p, q)
                 /\ \A p \in hbPending : NotNewer(p)

\* So that only few of them wait.
FewPending == Cardinality(hbPending) * Interval <= Timeout + 2 * Interval

\* An age, as far as it is counted.
Capped(n) == IF n > Timeout THEN Timeout + 1 ELSE n
\* No pong for this ping is under way.
Unanswerable(p) == \A m \in hbPongs : m[1] # p.nonce

\* How long the peer has been silent.
Silence == hbSilent - 1

\* Every further interval of silence is in the streak, apart from the Overdue
\* ticks the first unanswered ping takes to expire.
StreakCounts ==
    IF hbAlarm THEN Silence <= Interval * (Overdue + MissedLimit)
    ELSE Silence <= hbSince + Interval * (Overdue + hbStreak)

\* A ping that may still be answered was sent before the silence.
AnswersAreOld ==
    \A p \in hbPending : ~Unanswerable(p) =>
        Silence <= Timeout + hbSince /\ (p.age <= Timeout => Silence <= p.age)

\* Each tick of the silence has left a ping that will expire unanswered.
TicksLeavePings ==
    \A j \in 0 .. Timeout \div Interval :
        hbSince + j * Interval < Silence /\ (hbTick = "ping" => j # 0) =>
            \E p \in hbPending : p.age = Capped(hbSince + j * Interval) /\ Unanswerable(p)

\* What the monitor knows of a silent peer.
SilentInv == hbSilent # 0 => StreakCounts /\ AnswersAreOld /\ TicksLeavePings

\* The inductive invariant of the heartbeat.
HbInv == HbTypes /\ LoopLives /\ Spaced /\ FewPending /\ SilentInv

\* Division, by its remainder.
LEMMA DivBounds ==
    ASSUME NEW n \in Nat, NEW i \in Nat \ {0}
    PROVE  /\ n \div i \in Nat
           /\ i * (n \div i) <= n /\ n < i * (n \div i) + i
OBVIOUS

\* Numbers a divisor apart have different quotients.
LEMMA DivApart ==
    ASSUME NEW m \in Nat, NEW n \in Nat, NEW i \in Nat \ {0}, m + i <= n
    PROVE  m \div i # n \div i
<1>1. m < i * (m \div i) + i /\ i * (n \div i) <= n /\ m \div i \in Nat /\ n \div i \in Nat
  BY DivBounds
<1>2. i * (m \div i) \in Nat
  BY <1>1
<1> QED BY <1>1, <1>2, DivBounds

\* Division is monotone.
LEMMA DivMono ==
    ASSUME NEW m \in Nat, NEW n \in Nat, NEW i \in Nat \ {0}, m <= n
    PROVE  m \div i <= n \div i
<1> DEFINE a == m \div i
           b == n \div i
<1>1. a \in Nat /\ b \in Nat /\ i * a <= m /\ n < i * b + i
  BY DivBounds
<1> HIDE DEF a, b
<1>2. ASSUME a > b PROVE FALSE
  <2>1. a >= b + 1 BY <1>1, <1>2
  <2>2. i * a >= i * (b + 1) BY <1>1, <2>1
  <2>3. i * (b + 1) = i * b + i BY <1>1
  <2> QED BY <1>1, <2>2, <2>3
<1> QED BY <1>1, <1>2 DEF a, b

\* One more miss is one more interval.
LEMMA StepBound ==
    ASSUME NEW r \in Nat
    PROVE  /\ Interval * (Overdue + (r + 1)) = Interval * (Overdue + r) + Interval
           /\ Timeout < Interval * (Overdue + r) 
           /\ Interval * (Overdue + r) \in Nat
           /\ \A q \in Nat : q <= r => Interval * (Overdue + q) <= Interval * (Overdue + r)
           /\ Interval * (Timeout \div Interval) <= Timeout
<1> DEFINE D == Timeout \div Interval
<1>1. /\ D \in Nat /\ Interval \in Nat \ {0} /\ Timeout \in Nat
      /\ Interval * D <= Timeout /\ Timeout < Interval * D + Interval
  BY HeartbeatConstants, DivBounds
<1>2. Overdue = D + 1
  BY DEF Overdue
<1> HIDE DEF D
<1>3. \A q \in Nat : Interval * (D + 1 + q) = Interval * D + Interval + Interval * q /\ Interval * q \in Nat
  BY <1>1
<1>4. \A q \in Nat : q <= r => Interval * q <= Interval * r
  BY <1>1
<1>5. Interval * (r + 1) = Interval * r + Interval
  BY <1>1
<1>6. Interval * D \in Nat 
  BY <1>1
<1>8. Interval * (Overdue + (r + 1)) = Interval * (Overdue + r) + Interval
  BY <1>1, <1>2, <1>3, <1>5
<1>9. Timeout < Interval * (Overdue + r) /\ Interval * (Overdue + r) \in Nat
  BY <1>1, <1>2, <1>3, <1>6
<1>10. ASSUME NEW q \in Nat, q <= r PROVE Interval * (Overdue + q) <= Interval * (Overdue + r)
  BY <1>10, <1>1, <1>2, <1>3, <1>4, <1>6
<1> QED BY <1>1, <1>8, <1>9, <1>10 DEF D

\* A ping that grows older.
Aged(p) == [p EXCEPT !.age = IF @ > Timeout THEN @ ELSE @ + 1]

\* What ageing leaves alone.
LEMMA AgedPing ==
    ASSUME NEW p \in AwaitedPings
    PROVE  /\ Aged(p) \in AwaitedPings /\ Aged(p).nonce = p.nonce
           /\ Aged(p).age = IF p.age > Timeout THEN p.age ELSE p.age + 1
           /\ p.age \in 0 .. Timeout + 1
BY HeartbeatConstants DEF AwaitedPings, Aged

\* Ageing makes no pings.
LEMMA AgedSet ==
    ASSUME NEW S, IsFiniteSet(S)
    PROVE  /\ IsFiniteSet({Aged(p) : p \in S})
           /\ Cardinality({Aged(p) : p \in S}) <= Cardinality(S)
<1> DEFINE f == [p \in S |-> Aged(p)]
<1>1. f \in Surjection(S, {Aged(p) : p \in S})
  BY DEF Surjection
<1> QED BY <1>1, FS_Surjection

\* The nonces in use are finitely many, so that a free one exists.
LEMMA FreshNonce ==
    ASSUME HbTypes
    PROVE  /\ FreeNonce \in Nat
           /\ \A p \in hbPending : p.nonce # FreeNonce
           /\ \A m \in hbPings \cup hbPongs : m[1] # FreeNonce
<1> DEFINE N1 == {p.nonce : p \in hbPending}
           N2 == {m[1] : m \in hbPings}
           N3 == {m[1] : m \in hbPongs}
           a == Cardinality(hbPending)
           b == Cardinality(hbPings)
           c == Cardinality(hbPongs)
           top == 2 + a + b + c
<1>1. a \in Nat /\ b \in Nat /\ c \in Nat
  BY FS_CardinalityType DEF HbTypes
<1>2. IsFiniteSet(N1) /\ Cardinality(N1) <= a
  <2> DEFINE f == [p \in hbPending |-> p.nonce]
  <2>1. f \in Surjection(hbPending, N1)
    BY DEF Surjection
  <2> QED BY <2>1, FS_Surjection DEF HbTypes
<1>3. IsFiniteSet(N2) /\ Cardinality(N2) <= b
  <2> DEFINE f == [m \in hbPings |-> m[1]]
  <2>1. f \in Surjection(hbPings, N2)
    BY DEF Surjection
  <2> QED BY <2>1, FS_Surjection DEF HbTypes
<1>4. IsFiniteSet(N3) /\ Cardinality(N3) <= c
  <2> DEFINE f == [m \in hbPongs |-> m[1]]
  <2>1. f \in Surjection(hbPongs, N3)
    BY DEF Surjection
  <2> QED BY <2>1, FS_Surjection DEF HbTypes
<1>5. IsFiniteSet(N1 \cup N2 \cup N3) /\ Cardinality(N1 \cup N2 \cup N3) <= a + b + c
  <2> HIDE DEF N1, N2, N3, a, b, c
  <2>1. IsFiniteSet(N1 \cup N2) /\ Cardinality(N1 \cup N2) <= a + b /\ Cardinality(N1 \cup N2) \in Nat
    <3>1. Cardinality(N1 \cap N2) \in Nat
      BY <1>2, FS_Subset, FS_CardinalityType
    <3>2. /\ IsFiniteSet(N1 \cup N2)
          /\ Cardinality(N1 \cup N2) = Cardinality(N1) + Cardinality(N2) - Cardinality(N1 \cap N2)
      BY <1>2, <1>3, FS_Union
    <3>3. Cardinality(N1) \in Nat /\ Cardinality(N2) \in Nat /\ Cardinality(N1 \cup N2) \in Nat
      BY <1>2, <1>3, <3>2, FS_CardinalityType
    <3> QED BY <1>1, <1>2, <1>3, <3>1, <3>2, <3>3
  <2> DEFINE N == N1 \cup N2
  <2> HIDE DEF N
  <2>2. Cardinality(N \cap N3) \in Nat /\ Cardinality(N3) \in Nat /\ IsFiniteSet(N)
    BY <1>4, <2>1, FS_Subset, FS_CardinalityType DEF N
  <2>3. /\ IsFiniteSet(N \cup N3)
        /\ Cardinality(N \cup N3) = Cardinality(N) + Cardinality(N3) - Cardinality(N \cap N3)
    BY <1>4, <2>2, FS_Union
  <2>4. Cardinality(N) \in Nat /\ Cardinality(N) <= a + b
    BY <2>1 DEF N
  <2> QED BY <1>1, <1>4, <2>2, <2>3, <2>4 DEF N
<1>6. \E n \in 1 .. top : n \notin N1 \cup N2 \cup N3
  <2> SUFFICES ASSUME 1 .. top \subseteq N1 \cup N2 \cup N3 PROVE FALSE
    OBVIOUS
  <2> HIDE DEF N1, N2, N3, a, b, c
  <2>1. Cardinality(1 .. top) = top
    BY <1>1, FS_Interval
  <2>2. Cardinality(1 .. top) <= Cardinality(N1 \cup N2 \cup N3)
    BY <1>5, FS_Subset, Zenon
  <2>3. Cardinality(N1 \cup N2 \cup N3) \in Nat
    BY <1>5, FS_CardinalityType
  <2> QED BY <1>1, <1>5, <2>1, <2>2, <2>3
<1>7. \E n \in 1 .. top : /\ \A p \in hbPending : p.nonce # n
                          /\ \A m \in hbPings \cup hbPongs : m[1] # n
  <2>1. PICK n \in 1 .. top : n \notin N1 \cup N2 \cup N3
    BY <1>6
  <2>2. (\A p \in hbPending : p.nonce # n) /\ (\A m \in hbPings \cup hbPongs : m[1] # n)
    BY <2>1
  <2> QED BY <2>1, <2>2
<1>8. /\ FreeNonce \in 1 .. top
      /\ \A p \in hbPending : p.nonce # FreeNonce
      /\ \A m \in hbPings \cup hbPongs : m[1] # FreeNonce
  BY <1>7 DEF FreeNonce
<1> QED BY <1>1, <1>8

\* As many pings an interval apart as fit into the timeout, and an expired one.
LEMMA SpacedAreFew ==
    ASSUME HbTypes, Spaced, hbRunning
    PROVE  FewPending
<1> DEFINE live == {p \in hbPending : p.age <= Timeout}
           late == {p \in hbPending : p.age > Timeout}
           k == Timeout \div Interval
<1>0. Interval \in Nat \ {0} /\ Timeout \in Nat
  BY HeartbeatConstants
<1>1. k \in Nat /\ Interval * k <= Timeout
  BY <1>0, DivBounds
<1>2. \A p \in hbPending : p.age \in Nat
  BY <1>0 DEF HbTypes, AwaitedPings
<1>3. Cardinality(live) <= k + 1 /\ Cardinality(live) \in Nat
  <2> DEFINE f == [p \in live |-> p.age \div Interval]
  <2>1. f \in [live -> 0 .. k]
    BY <1>0, <1>1, <1>2, DivMono, DivBounds
  <2>2. ASSUME NEW p \in live, NEW q \in live, p # q PROVE f[p] # f[q]
    <3>1. p.age + Interval <= q.age \/ q.age + Interval <= p.age
      BY <2>2 DEF Spaced, Apart
    <3>2. p.age \div Interval # q.age \div Interval
      BY <1>0, <1>2, <3>1, DivApart
    <3> QED BY <3>2
  <2>3. f \in Injection(live, 0 .. k)
    <3>1. \A p, q \in live : f[p] = f[q] => p = q
      BY <2>2
    <3> HIDE DEF f, live, k
    <3>2. DOMAIN f = live
      BY <2>1
    <3>3. IsInjective(f)
      BY <3>1, <3>2 DEF IsInjective
    <3> QED BY <2>1, <3>3 DEF Injection
  <2>4. IsFiniteSet(0 .. k) /\ Cardinality(0 .. k) = k + 1
    BY <1>1, FS_Interval
  <2>5. IsFiniteSet(live) /\ Cardinality(live) <= Cardinality(0 .. k)
    BY <2>3, <2>4, FS_Injection
  <2> QED BY <2>4, <2>5, FS_CardinalityType
<1>4. Cardinality(late) <= 1 /\ Cardinality(late) \in Nat
  <2>1. ASSUME NEW p \in late, NEW q \in late PROVE p = q
    <3> SUFFICES ASSUME p # q PROVE FALSE
      OBVIOUS
    <3>1. q.age + Interval <= Timeout + hbSince /\ q.age > Timeout
      BY DEF Spaced, Apart
    <3> QED BY <1>0, <1>2, <3>1 DEF HbTypes
  <2>2. CASE late = {}
    BY <2>2, FS_EmptySet
  <2>3. CASE late # {}
    <3>1. PICK p \in late : late = {p}
      BY <2>1, <2>3
    <3> HIDE DEF late
    <3>2. Cardinality({p}) = 1
      BY FS_Singleton
    <3> QED BY <3>1, <3>2
  <2> QED BY <2>2, <2>3
<1>5. Cardinality(hbPending) <= k + 2 /\ Cardinality(hbPending) \in Nat
  <2>1. hbPending = live \cup late /\ live \cap late = {}
    BY <1>0, <1>2
  <2>2. IsFiniteSet(live) /\ IsFiniteSet(late)
    BY FS_Subset DEF HbTypes
  <2> HIDE DEF live, late
  <2>3. Cardinality(hbPending) = Cardinality(live) + Cardinality(late) - 0
    BY <2>1, <2>2, FS_Union, FS_EmptySet
  <2> HIDE DEF k
  <2> QED BY <1>1, <1>3, <1>4, <2>3
<1> HIDE DEF k
<1>6. Cardinality(hbPending) * Interval <= (k + 2) * Interval
  BY <1>0, <1>1, <1>5
<1>7. (k + 2) * Interval = Interval * k + 2 * Interval /\ Interval * k \in Nat
  BY <1>0, <1>1
<1> QED BY <1>0, <1>1, <1>5, <1>6, <1>7 DEF FewPending

-----------------------------------------------------------------------------
\* No connection yet.
LEMMA HbInvInit == HeartbeatInit => HbInv
<1> SUFFICES ASSUME HeartbeatInit PROVE HbInv
  OBVIOUS
<1>1. IsFiniteSet({}) /\ Cardinality({}) = 0
  BY FS_EmptySet
<1>2. HbTypes
  <2>1. Interval \in Nat \ {0} /\ MissedLimit \in Nat \ {0} /\ MaxLinks \in Nat \ {0}
    BY HeartbeatConstants
  <2>2. /\ 0 \in 0 .. MissedLimit - 1 /\ 0 \in 0 .. MissedLimit /\ 0 \in 0 .. MaxLinks
        /\ Interval \in 0 .. Interval /\ 0 \in Nat /\ 0 <= 0
    BY <2>1
  <2>3. hbRunning = FALSE /\ hbAlarm = FALSE /\ hbTick = "wait"
    BY DEF HeartbeatInit
  <2> QED BY <1>1, <2>2, <2>3, Zenon DEF HeartbeatInit, HbTypes
<1>3. LoopLives /\ Spaced /\ FewPending /\ SilentInv
  BY <1>1, HeartbeatConstants DEF HeartbeatInit, LoopLives, Spaced, FewPending, SilentInv
<1> QED BY <1>2, <1>3 DEF HbInv

\* A silence that is not there needs no account.
LEMMA Unnoticed == ASSUME hbSilent' = 0 PROVE SilentInv'
BY DEF SilentInv

\* A new connection starts the monitor, or leaves the running one.
LEMMA ConnectKeeps ==
    ASSUME HbInv, Connect
    PROVE  HbInv'
<1>1. HbTypes'
  BY HeartbeatConstants DEF HbInv, HbTypes, Connect
<1>2. LoopLives'
  BY HeartbeatConstants DEF HbInv, HbTypes, LoopLives, Connect
<1>3. Spaced'
  <2>1. CASE hbRunning
    BY <2>1 DEF HbInv, Spaced, Apart, NotNewer, Connect
  <2>2. CASE ~hbRunning
    <3>1. hbPending' = {}
      BY <2>2, HeartbeatConstants DEF HbInv, HbTypes, LoopLives, Connect
    <3> QED BY <3>1 DEF Spaced
  <2> QED BY <2>1, <2>2
<1>4. FewPending'
  BY DEF HbInv, FewPending, Connect
<1>5. SilentInv'
  BY Unnoticed DEF Connect
<1> QED BY <1>1, <1>2, <1>3, <1>4, <1>5 DEF HbInv

\* The connection ends, for any reason.
LEMMA DropsKeeps ==
    ASSUME HbInv, ConnectionFails \/ CloseTransportForRecovery \/ StopMonitor
    PROVE  HbInv'
<1>0. IsFiniteSet({})
  BY FS_EmptySet
<1>1. /\ UNCHANGED <<hbPending, hbStreak, hbMissed, hbDialled>> /\ hbAlarm' \in BOOLEAN
      /\ hbLink' = 0 /\ hbSilent' = 0
      /\ hbPings' \in SUBSET hbPings /\ hbPongs' \in SUBSET hbPongs
  BY Zenon DEF ConnectionFails, CloseTransportForRecovery, StopMonitor, Drops, wirevars, HbInv,
         HbTypes, LoopLives
<1>2. \/ UNCHANGED <<hbRunning, hbTick, hbSince>>
      \/ hbRunning' = FALSE /\ hbTick' = "wait" /\ hbSince' = Interval /\ hbDialled = MaxLinks
  BY DEF ConnectionFails, CloseTransportForRecovery, StopMonitor
<1>3. IsFiniteSet(hbPings') /\ IsFiniteSet(hbPongs')
  BY <1>1, FS_Subset DEF HbInv, HbTypes
<1>4. HbTypes'
  <2>1. /\ hbRunning' \in BOOLEAN /\ hbTick' \in {"wait", "ping"} /\ hbSince' \in 0 .. Interval
        /\ hbLink' \in Nat /\ hbSilent' \in Nat
    <3>0. Interval \in 0 .. Interval
      BY HeartbeatConstants
    <3>1. CASE UNCHANGED <<hbRunning, hbTick, hbSince>>
      BY <1>1, <3>1 DEF HbInv, HbTypes
    <3>2. CASE hbRunning' = FALSE /\ hbTick' = "wait" /\ hbSince' = Interval
      BY <1>1, <3>0, <3>2, Zenon
    <3> QED BY <1>2, <3>1, <3>2, Zenon
  <2> QED BY <1>1, <1>3, <2>1 DEF HbInv, HbTypes
<1>5. LoopLives'
  BY <1>1, <1>2 DEF HbInv, LoopLives
<1>6. Spaced'
  BY <1>1, <1>2, Zenon DEF HbInv, Spaced, Apart, NotNewer
<1>7. FewPending'
  BY <1>1 DEF HbInv, FewPending
<1>8. SilentInv'
  BY <1>1, Unnoticed
<1> QED BY <1>4, <1>5, <1>6, <1>7, <1>8 DEF HbInv

\* The peer stops answering.
LEMMA SilenceKeeps ==
    ASSUME HbInv, PeerFallsSilent
    PROVE  HbInv'
<1>1. HbTypes' /\ LoopLives' /\ Spaced' /\ FewPending'
  BY DEF HbInv, HbTypes, LoopLives, Spaced, Apart, NotNewer, FewPending, PeerFallsSilent
<1>2. SilentInv'
  <2>1. /\ Silence' = 0 /\ hbSince' = hbSince /\ hbSince \in Nat /\ hbStreak' = hbStreak
        /\ hbStreak \in Nat /\ hbPending' = hbPending /\ MissedLimit \in Nat
        /\ Timeout \in Nat /\ Interval \in Nat \ {0}
    BY HeartbeatConstants DEF HbInv, HbTypes, PeerFallsSilent, Silence
  <2>2. StreakCounts'
    <3>1. Interval * (Overdue + MissedLimit) \in Nat /\ Interval * (Overdue + hbStreak) \in Nat
      BY <2>1, StepBound
    <3> QED BY <2>1, <3>1 DEF StreakCounts
  <2>3. AnswersAreOld'
    <3>1. \A p \in hbPending : p.age \in Nat
      BY <2>1 DEF HbInv, HbTypes, AwaitedPings
    <3> QED BY <2>1, <3>1 DEF AnswersAreOld
  <2>4. TicksLeavePings'
    <3>1. ASSUME NEW j \in 0 .. Timeout \div Interval PROVE ~(hbSince + j * Interval < 0)
      <4>1. j \in Nat
        BY <2>1, DivBounds
      <4> QED BY <2>1, <4>1
    <3> QED BY <2>1, <3>1 DEF TicksLeavePings
  <2> QED BY <2>2, <2>3, <2>4 DEF SilentInv
<1> QED BY <1>1, <1>2 DEF HbInv

\* The peer answers a ping.
LEMMA ReceivesKeeps ==
    ASSUME HbInv, PeerReceives
    PROVE  HbInv'
<1>1. PICK m \in hbPings :
        /\ hbPings' = hbPings \ {m}
        /\ hbPongs' = IF hbSilent = 0 THEN hbPongs \cup {m} ELSE hbPongs
  BY DEF PeerReceives
<1>2. UNCHANGED <<hbRunning, hbTick, hbSince, hbPending, hbStreak, hbAlarm, hbLink,
                  hbDialled, hbSilent, hbMissed>>
  BY DEF PeerReceives
<1>3. IsFiniteSet(hbPings') /\ IsFiniteSet(hbPongs')
  BY <1>1, FS_RemoveElement, FS_AddElement, FS_Subset, Zenon DEF HbInv, HbTypes
<1>4. HbTypes' /\ LoopLives' /\ Spaced' /\ FewPending'
  BY <1>1, <1>2, <1>3 DEF HbInv, HbTypes, LoopLives, Spaced, Apart, NotNewer, FewPending
<1>5. SilentInv'
  <2>1. CASE hbSilent = 0
    BY <1>2, <2>1, Unnoticed
  <2>2. CASE hbSilent # 0
    <3>1. hbPongs' = hbPongs
      BY <1>1, <2>2
    <3> QED BY <1>2, <3>1 DEF HbInv, SilentInv, StreakCounts, AnswersAreOld, TicksLeavePings,
                              Unanswerable, Silence
  <2> QED BY <2>1, <2>2
<1> QED BY <1>4, <1>5 DEF HbInv

\* handle_pong: a pong in time ends the streak.
LEMMA HandlePongKeeps ==
    ASSUME HbInv, HandlePong
    PROVE  HbInv'
<1>1. PICK m \in hbPongs : hbPongs' = hbPongs \ {m} /\ AckPong(m)
  BY DEF HandlePong
<1>2. UNCHANGED <<hbRunning, hbTick, hbSince, hbAlarm, hbLink, hbDialled, hbSilent, hbPings>>
  BY DEF HandlePong
<1>3. /\ hbPending' \in SUBSET hbPending /\ hbPending' = {p \in hbPending : p.nonce # m[1]}
      /\ \/ hbStreak' = 0 /\ hbMissed' = 0 /\ \E p \in hbPending : p.nonce = m[1]
         \/ UNCHANGED <<hbStreak, hbMissed>>
  BY <1>1 DEF AckPong
<1>4. /\ IsFiniteSet(hbPending') /\ IsFiniteSet(hbPongs')
      /\ Cardinality(hbPending') <= Cardinality(hbPending)
      /\ Cardinality(hbPending) \in Nat /\ Cardinality(hbPending') \in Nat
  BY <1>1, <1>3, FS_Subset, FS_CardinalityType DEF HbInv, HbTypes
<1>5. HbTypes'
  BY <1>1, <1>2, <1>3, <1>4, HeartbeatConstants DEF HbInv, HbTypes
<1>6. LoopLives' /\ Spaced'
  BY <1>2, <1>3 DEF HbInv, LoopLives, Spaced, Apart, NotNewer
<1>7. FewPending'
  <2>1. Cardinality(hbPending') * Interval <= Cardinality(hbPending) * Interval
    BY <1>4, HeartbeatConstants
  <2>2. Cardinality(hbPending') * Interval \in Nat /\ Cardinality(hbPending) * Interval \in Nat
    BY <1>4, HeartbeatConstants
  <2> QED BY <2>1, <2>2, HeartbeatConstants DEF HbInv, FewPending
<1>8. SilentInv'
  <2> SUFFICES ASSUME hbSilent # 0 PROVE (StreakCounts /\ AnswersAreOld /\ TicksLeavePings)'
    BY <1>2 DEF SilentInv
  <2>0. StreakCounts /\ AnswersAreOld /\ TicksLeavePings
    BY DEF HbInv, SilentInv
  <2>1. StreakCounts'
    <3>1. CASE UNCHANGED hbStreak
      BY <1>2, <2>0, <3>1, Zenon DEF StreakCounts, Silence
    <3>2. CASE hbStreak' = 0 /\ \E p \in hbPending : p.nonce = m[1]
      <4>1. PICK p \in hbPending : p.nonce = m[1]
        BY <3>2
      <4>2. ~Unanswerable(p)
        BY <1>1, <4>1 DEF Unanswerable
      <4>3. Silence <= Timeout + hbSince
        BY <2>0, <4>2 DEF AnswersAreOld
      <4>4. Timeout < Interval * (Overdue + 0) /\ Interval * (Overdue + 0) \in Nat
        BY StepBound
      <4>5. Silence \in Int /\ Timeout \in Nat /\ hbSince \in Nat /\ Silence' = Silence
        BY <1>2, HeartbeatConstants DEF HbInv, HbTypes, Silence
      <4>6. Silence <= hbSince + Interval * (Overdue + 0)
        BY <4>3, <4>4, <4>5
      <4> QED BY <1>2, <2>0, <3>2, <4>5, <4>6 DEF StreakCounts
    <3> QED BY <1>3, <3>1, <3>2
  <2>2. AnswersAreOld'
    BY <1>1, <1>2, <1>3, <2>0 DEF AnswersAreOld, Unanswerable, Silence
  <2>3. TicksLeavePings'
    <3>1. \A p \in hbPending : Unanswerable(p) => p \in hbPending' /\ Unanswerable(p)'
      BY <1>1, <1>3 DEF Unanswerable
    <3> QED BY <1>2, <2>0, <3>1 DEF TicksLeavePings, Silence
  <2> QED BY <2>1, <2>2, <2>3
<1> QED BY <1>5, <1>6, <1>7, <1>8 DEF HbInv

\* Time passes, up to the next tick.
LEMMA TimeKeeps ==
    ASSUME HbInv, TimePasses
    PROVE  HbInv'
<1>0. Interval \in Nat \ {0} /\ Timeout \in Nat /\ MissedLimit \in Nat \ {0}
  BY HeartbeatConstants
<1>1. /\ hbPending' = {Aged(p) : p \in hbPending}
      /\ hbSince' = IF hbSince < Interval THEN hbSince + 1 ELSE hbSince
      /\ hbSilent' = IF hbSilent \in 1 .. NoticeBound THEN hbSilent + 1 ELSE hbSilent
      /\ ~hbAlarm /\ (hbRunning => hbTick = "wait" /\ hbSince < Interval)
      /\ UNCHANGED <<hbRunning, hbTick, hbStreak, hbAlarm, hbLink, hbDialled, hbPings,
                     hbPongs, hbMissed>>
  BY DEF TimePasses, Aged
<1>2. /\ hbSince \in 0 .. Interval /\ hbPending \subseteq AwaitedPings /\ IsFiniteSet(hbPending)
      /\ hbSilent \in Nat
  BY DEF HbInv, HbTypes
<1>3. /\ IsFiniteSet(hbPending') /\ Cardinality(hbPending') <= Cardinality(hbPending)
      /\ Cardinality(hbPending) \in Nat /\ Cardinality(hbPending') \in Nat
  BY <1>1, <1>2, AgedSet, FS_CardinalityType
<1>4. HbTypes'
  <2>1. hbPending' \subseteq AwaitedPings
    BY <1>1, <1>2, AgedPing
  <2>2. hbSince' \in 0 .. Interval
    BY <1>0, <1>1, <1>2
  <2>3. hbSilent' \in Nat
    BY <1>1, <1>2
  <2> QED BY <1>1, <1>3, <2>1, <2>2, <2>3 DEF HbInv, HbTypes
<1>5. LoopLives'
  BY <1>0, <1>1, <1>2 DEF HbInv, LoopLives
<1>6. Spaced'
  <2> SUFFICES ASSUME hbRunning
               PROVE  /\ \A p, q \in hbPending' : p # q => Apart(p, q)'
                      /\ \A p \in hbPending' : NotNewer(p)'
    BY <1>1 DEF Spaced
  <2>0. hbSince' = hbSince + 1 /\ hbSince + 1 <= Interval /\ hbSince \in Nat /\ hbTick = "wait"
    BY <1>0, <1>1, <1>2
  <2>1. ASSUME NEW x \in hbPending', NEW y \in hbPending', x # y PROVE Apart(x, y)'
    <3>1. PICK p \in hbPending, q \in hbPending : x = Aged(p) /\ y = Aged(q)
      BY <1>1
    <3>2. /\ p # q /\ p.age \in Nat /\ q.age \in Nat
          /\ x.age = IF p.age > Timeout THEN p.age ELSE p.age + 1
          /\ y.age = IF q.age > Timeout THEN q.age ELSE q.age + 1
      BY <1>0, <1>2, <2>1, <3>1, AgedPing
    <3>3. Apart(p, q) /\ Apart(q, p)
      BY <3>2 DEF HbInv, Spaced
    <3> QED BY <1>0, <2>0, <3>2, <3>3 DEF Apart
  <2>2. ASSUME NEW x \in hbPending' PROVE NotNewer(x)'
    <3>1. PICK p \in hbPending : x = Aged(p)
      BY <1>1
    <3>2. /\ p.age \in Nat
          /\ x.age = IF p.age > Timeout THEN p.age ELSE p.age + 1
      BY <1>0, <1>2, <3>1, AgedPing
    <3> QED BY <1>0, <1>1, <2>0, <3>2 DEF HbInv, Spaced, NotNewer
  <2> QED BY <2>1, <2>2
<1>7. FewPending'
  <2>1. Cardinality(hbPending') * Interval <= Cardinality(hbPending) * Interval
    BY <1>0, <1>3
  <2>2. Cardinality(hbPending') * Interval \in Nat /\ Cardinality(hbPending) * Interval \in Nat
    BY <1>0, <1>3
  <2> QED BY <1>0, <2>1, <2>2 DEF HbInv, FewPending
<1>8. SilentInv'
  <2> SUFFICES ASSUME hbSilent' # 0 PROVE (StreakCounts /\ AnswersAreOld /\ TicksLeavePings)'
    BY DEF SilentInv
  <2>0. hbSilent # 0 /\ hbRunning /\ StreakCounts /\ AnswersAreOld /\ TicksLeavePings
    BY <1>1, <1>2 DEF HbInv, LoopLives, SilentInv
  <2>1. /\ hbSince' = hbSince + 1 /\ hbSince + 1 <= Interval /\ hbSince \in Nat /\ hbTick = "wait"
        /\ Silence \in Nat
    BY <1>0, <1>1, <1>2, <2>0 DEF Silence
  <2>2. Silence' <= Silence + 1 /\ Silence' \in Int
    BY <1>1, <1>2, <2>0 DEF Silence
  <2>3. StreakCounts'
    <3>0. hbStreak \in Nat
      BY <1>0 DEF HbInv, HbTypes
    <3>1. Interval * (Overdue + hbStreak) \in Nat
      BY <3>0, StepBound
    <3>2. Silence <= hbSince + Interval * (Overdue + hbStreak)
      BY <1>1, <2>0 DEF StreakCounts
    <3>3. Silence' <= hbSince' + Interval * (Overdue + hbStreak)
      BY <2>1, <2>2, <3>1, <3>2
    <3> QED BY <1>1, <3>3 DEF StreakCounts
  <2>4. AnswersAreOld'
    <3> SUFFICES ASSUME NEW x \in hbPending', ~Unanswerable(x)'
                 PROVE  /\ Silence' <= Timeout + hbSince'
                        /\ x.age <= Timeout => Silence' <= x.age
      BY DEF AnswersAreOld
    <3>1. PICK p \in hbPending : x = Aged(p)
      BY <1>1
    <3>2. /\ p.age \in Nat /\ x.nonce = p.nonce
          /\ x.age = IF p.age > Timeout THEN p.age ELSE p.age + 1
      BY <1>0, <1>2, <3>1, AgedPing
    <3>3. ~Unanswerable(p)
      BY <1>1, <3>2 DEF Unanswerable
    <3>4. Silence <= Timeout + hbSince /\ (p.age <= Timeout => Silence <= p.age)
      BY <2>0, <3>3, Zenon DEF AnswersAreOld
    <3> QED BY <1>0, <2>1, <2>2, <3>2, <3>4
  <2>5. TicksLeavePings'
    <3> SUFFICES ASSUME NEW j \in 0 .. Timeout \div Interval,
                        hbSince' + j * Interval < Silence', hbTick = "ping" => j # 0
                 PROVE  \E x \in hbPending' : x.age = Capped(hbSince' + j * Interval)
                                              /\ Unanswerable(x)'
      BY <1>1 DEF TicksLeavePings
    <3>1. j \in Nat /\ j * Interval \in Nat
      BY <1>0, DivBounds
    <3>2. hbSince + j * Interval < Silence
      BY <2>1, <2>2, <3>1
    <3>3. PICK p \in hbPending : p.age = Capped(hbSince + j * Interval) /\ Unanswerable(p)
      BY <2>0, <3>2 DEF TicksLeavePings
    <3>4. /\ p.age \in Nat /\ Aged(p).nonce = p.nonce
          /\ Aged(p).age = IF p.age > Timeout THEN p.age ELSE p.age + 1
      BY <1>0, <1>2, AgedPing
    <3>5. Aged(p).age = Capped(hbSince' + j * Interval)
      BY <1>0, <2>1, <3>1, <3>3, <3>4 DEF Capped
    <3>6. Unanswerable(Aged(p))'
      BY <1>1, <3>3, <3>4, ZenonT(30) DEF Unanswerable
    <3> QED BY <1>1, <3>5, <3>6
  <2> QED BY <2>3, <2>4, <2>5
<1> QED BY <1>4, <1>5, <1>6, <1>7, <1>8 DEF HbInv

\* The tick: expired pings become misses, and the limit raises the alarm.
LEMMA ReapsKeeps ==
    ASSUME HbInv, TickReaps
    PROVE  HbInv'
<1>0. Interval \in Nat \ {0} /\ Timeout \in Nat /\ MissedLimit \in Nat \ {0}
  BY HeartbeatConstants
<1> DEFINE D == Timeout \div Interval
<1>1. /\ hbRunning /\ hbTick = "wait" /\ hbSince = Interval /\ hbTick' = "ping" /\ hbSince' = 0
      /\ hbPending' = {p \in hbPending : ~(p.age > Timeout)}
      /\ hbPings' \subseteq hbPings /\ hbPongs' \subseteq hbPongs
      /\ UNCHANGED <<hbRunning, hbLink, hbDialled, hbSilent>>
  BY DEF TickReaps, ReapExpiredPings, ExpiredPings
<1>2. /\ hbPending \subseteq AwaitedPings /\ IsFiniteSet(hbPending)
      /\ hbSilent \in Nat /\ hbStreak \in Nat /\ hbStreak <= MissedLimit - 1
      /\ hbMissed \in Nat /\ hbMissed <= MissedLimit /\ hbStreak <= hbMissed
      /\ \A p \in hbPending : p.age \in Nat
  BY <1>0 DEF HbInv, HbTypes, AwaitedPings
<1>3. \/ /\ \E p \in hbPending : p.age > Timeout
         /\ hbStreak' = 0 /\ hbAlarm' = TRUE /\ hbMissed' \in {hbMissed, hbMissed + 1}
         /\ hbMissed' <= MissedLimit /\ hbStreak + 1 >= MissedLimit
      \/ /\ \E p \in hbPending : p.age > Timeout
         /\ hbStreak' = hbStreak + 1 /\ hbStreak + 1 < MissedLimit /\ hbAlarm' = hbAlarm
         /\ hbMissed' = IF hbMissed < MissedLimit THEN hbMissed + 1 ELSE hbMissed
      \/ /\ \A p \in hbPending : p.age <= Timeout
         /\ hbStreak' = hbStreak /\ hbAlarm' = hbAlarm /\ hbMissed' = hbMissed
  <2>1. CASE ExpiredPings = {}
    <3>1. \A p \in hbPending : p.age <= Timeout
      BY <1>0, <1>2, <2>1 DEF ExpiredPings
    <3>2. hbStreak' = hbStreak /\ hbAlarm' = (hbAlarm \/ FALSE) /\ hbMissed' = hbMissed
      BY <2>1 DEF TickReaps, ReapExpiredPings
    <3> QED BY <3>1, <3>2 DEF HbInv, HbTypes
  <2>2. CASE ExpiredPings # {} /\ hbStreak + 1 >= MissedLimit
    <3>1. \E p \in hbPending : p.age > Timeout
      BY <2>2 DEF ExpiredPings
    <3>2. /\ hbStreak' = 0 /\ hbAlarm' = TRUE
          /\ hbMissed' = IF hbMissed < MissedLimit THEN hbMissed + 1 ELSE hbMissed
      BY <2>2, Zenon DEF TickReaps, ReapExpiredPings
    <3>3. hbMissed' \in {hbMissed, hbMissed + 1} /\ hbMissed' <= MissedLimit
      BY <1>0, <1>2, <3>2
    <3> QED BY <2>2, <3>1, <3>2, <3>3, Zenon
  <2>3. CASE ExpiredPings # {} /\ ~(hbStreak + 1 >= MissedLimit)
    <3>1. \E p \in hbPending : p.age > Timeout
      BY <2>3 DEF ExpiredPings
    <3>2. /\ hbStreak' = hbStreak + 1 /\ hbAlarm' = (hbAlarm \/ FALSE)
          /\ hbMissed' = IF hbMissed < MissedLimit THEN hbMissed + 1 ELSE hbMissed
      BY <2>3 DEF TickReaps, ReapExpiredPings
    <3>3. hbAlarm' = hbAlarm
      BY <3>2 DEF HbInv, HbTypes
    <3>4. hbStreak + 1 < MissedLimit
      BY <1>0, <1>2, <2>3
    <3> QED BY <3>1, <3>2, <3>3, <3>4
  <2> QED BY <2>1, <2>2, <2>3, Zenon
<1>4. HbTypes'
  <2>1. IsFiniteSet(hbPending') /\ IsFiniteSet(hbPings') /\ IsFiniteSet(hbPongs')
    <3>1. hbPending' \subseteq hbPending
      BY <1>1
    <3> QED BY <1>1, <3>1, FS_Subset DEF HbInv, HbTypes
  <2>2. /\ hbStreak' \in 0 .. MissedLimit - 1 /\ hbMissed' \in 0 .. MissedLimit
        /\ hbStreak' <= hbMissed'
    BY <1>0, <1>2, <1>3
  <2>3. hbAlarm' \in BOOLEAN
    BY <1>3, Zenon DEF HbInv, HbTypes
  <2>4. hbSince' \in 0 .. Interval
    BY <1>0, <1>1
  <2>5. hbPending' \subseteq AwaitedPings /\ hbPings' \subseteq Nat \X Nat
        /\ hbPongs' \subseteq Nat \X Nat
    BY <1>1, <1>2 DEF HbInv, HbTypes
  <2> QED BY <1>1, <2>1, <2>2, <2>3, <2>4, <2>5, Zenon DEF HbInv, HbTypes
<1>5. LoopLives'
  BY <1>1 DEF HbInv, LoopLives
<1>6. Spaced'
  BY <1>0, <1>1, <1>2 DEF HbInv, Spaced, Apart, NotNewer
<1>7. FewPending'
  <2>0. hbPending' \subseteq hbPending
    BY <1>1
  <2>1. /\ Cardinality(hbPending') <= Cardinality(hbPending)
        /\ Cardinality(hbPending) \in Nat /\ Cardinality(hbPending') \in Nat
    BY <1>2, <2>0, FS_Subset, FS_CardinalityType
  <2>2. /\ Cardinality(hbPending') * Interval <= Cardinality(hbPending) * Interval
        /\ Cardinality(hbPending') * Interval \in Nat /\ Cardinality(hbPending) * Interval \in Nat
    BY <1>0, <2>1
  <2> QED BY <1>0, <2>2 DEF HbInv, FewPending
<1>8. SilentInv'
  <2> SUFFICES ASSUME hbSilent' # 0 PROVE (StreakCounts /\ AnswersAreOld /\ TicksLeavePings)'
    BY DEF SilentInv
  <2>0. StreakCounts /\ AnswersAreOld /\ TicksLeavePings
    BY <1>1 DEF HbInv, SilentInv
  <2>1. Silence' = Silence /\ Silence \in Nat
    BY <1>1, <1>2 DEF Silence
  <2>2. D \in Nat /\ D * Interval \in Nat /\ D * Interval <= Timeout /\ Timeout < D * Interval + Interval
    BY <1>0, DivBounds
  <2>3. StreakCounts'
    <3>1. /\ Interval * (Overdue + hbStreak) \in Nat /\ Interval * (Overdue + MissedLimit) \in Nat
          /\ Interval * (Overdue + (hbStreak + 1)) = Interval * (Overdue + hbStreak) + Interval
      BY <1>0, <1>2, StepBound, Zenon
    <3>2. Interval * (Overdue + (hbStreak + 1)) <= Interval * (Overdue + MissedLimit)
      BY <1>0, <1>2, StepBound
    <3>3. CASE hbAlarm
      BY <1>3, <2>0, <2>1, <3>3, Zenon DEF StreakCounts
    <3>4. CASE ~hbAlarm
      <4>1. Silence <= Interval + Interval * (Overdue + hbStreak)
        BY <1>1, <2>0, <3>4 DEF StreakCounts
      <4>2. CASE \E p \in hbPending : p.age > Timeout
        <5>1. hbAlarm' = TRUE \/ (hbAlarm' = hbAlarm /\ hbStreak' = hbStreak + 1)
          BY <1>0, <1>2, <1>3, <4>2
        <5>2. Silence' <= Interval * (Overdue + (hbStreak + 1))
          BY <1>0, <2>1, <3>1, <4>1
        <5>3. Silence' <= Interval * (Overdue + MissedLimit)
          BY <1>0, <2>1, <3>1, <3>2, <4>1
        <5>4. hbSince' + Interval * (Overdue + (hbStreak + 1)) = Interval * (Overdue + (hbStreak + 1))
          BY <1>0, <1>1, <3>1
        <5> QED BY <3>4, <5>1, <5>2, <5>3, <5>4, Zenon DEF StreakCounts
      <4>3. CASE \A p \in hbPending : p.age <= Timeout
        <5>1. hbAlarm' = hbAlarm /\ hbStreak' = hbStreak
          BY <1>0, <1>2, <1>3, <4>3
        <5>2. ~(hbSince + D * Interval < Silence)
          <6>1. Capped(hbSince + D * Interval) = Timeout + 1
            BY <1>0, <1>1, <2>2 DEF Capped
          <6>2. \A p \in hbPending : p.age # Timeout + 1
            BY <1>0, <1>2, <4>3
          <6>3. D \in 0 .. Timeout \div Interval
            BY <2>2
          <6> QED BY <1>1, <2>0, <6>1, <6>2, <6>3 DEF TicksLeavePings
        <5>3. Interval * (Overdue + 0) = Interval + D * Interval
          <6>1. Overdue = D + 1
            BY DEF Overdue
          <6> HIDE DEF D
          <6> QED BY <1>0, <2>2, <6>1
        <5>4. Interval * (Overdue + 0) <= Interval * (Overdue + hbStreak)
          BY <1>2, StepBound
        <5>5. Silence' <= hbSince' + Interval * (Overdue + hbStreak)
          BY <1>0, <1>1, <2>1, <2>2, <3>1, <5>2, <5>3, <5>4
        <5> QED BY <3>4, <5>1, <5>5, Zenon DEF StreakCounts
      <4> QED BY <1>0, <1>2, <4>2, <4>3
    <3> QED BY <3>3, <3>4
  <2>4. AnswersAreOld'
    <3> SUFFICES ASSUME NEW p \in hbPending', ~Unanswerable(p)'
                 PROVE  Silence' <= Timeout + hbSince' /\ Silence' <= p.age
      BY DEF AnswersAreOld
    <3>1. p \in hbPending /\ p.age <= Timeout /\ p.age \in Nat
      BY <1>0, <1>1, <1>2
    <3>2. ~Unanswerable(p)
      BY <1>1 DEF Unanswerable
    <3>3. Silence <= p.age
      BY <2>0, <3>1, <3>2 DEF AnswersAreOld
    <3> QED BY <1>0, <1>1, <2>1, <3>1, <3>3
  <2>5. TicksLeavePings'
    <3> SUFFICES ASSUME NEW j \in 0 .. Timeout \div Interval, j # 0, hbSince' + j * Interval < Silence'
                 PROVE  \E p \in hbPending' : p.age = Capped(hbSince' + j * Interval)
                                              /\ Unanswerable(p)'
      BY <1>1 DEF TicksLeavePings
    <3>1. j \in Nat \ {0} /\ j - 1 \in Nat /\ j - 1 \in 0 .. Timeout \div Interval /\ j <= D
      BY <2>2
    <3> HIDE DEF D
    <3>2. j * Interval \in Nat /\ (j - 1) * Interval = j * Interval - Interval /\ j * Interval <= D * Interval
      BY <1>0, <2>2, <3>1
    <3>3. hbSince + (j - 1) * Interval = j * Interval /\ hbSince' + j * Interval = j * Interval
      BY <1>0, <1>1, <3>2
    <3>4. PICK p \in hbPending : p.age = Capped(j * Interval) /\ Unanswerable(p)
      BY <1>1, <2>0, <2>1, <3>1, <3>3 DEF TicksLeavePings
    <3>5. p.age = j * Interval /\ p.age <= Timeout
      BY <1>0, <2>2, <3>2, <3>4 DEF Capped
    <3>6. p \in hbPending'
      BY <1>0, <1>1, <3>2, <3>5
    <3>7. Unanswerable(p)'
      BY <1>1, <3>4 DEF Unanswerable
    <3> QED BY <3>3, <3>4, <3>6, <3>7
  <2> QED BY <2>3, <2>4, <2>5
<1> QED BY <1>4, <1>5, <1>6, <1>7, <1>8 DEF HbInv

\* The same as an implication.
LEMMA FewOnceSpaced == HbTypes /\ Spaced /\ hbRunning => FewPending
BY SpacedAreFew

\* The rest of the tick: one more ping.
LEMMA PingsKeeps ==
    ASSUME HbInv, TickPings
    PROVE  HbInv'
<1>0. Interval \in Nat \ {0} /\ Timeout \in Nat
  BY HeartbeatConstants
<1>p. PICK ping : ping = [nonce |-> FreeNonce, age |-> 0, link |-> hbLink]
  BY Zenon
<1>1. /\ hbTick = "ping" /\ hbTick' = "wait"
      /\ UNCHANGED <<hbRunning, hbSince, hbStreak, hbAlarm, hbLink, hbDialled, hbSilent,
                     hbPongs, hbMissed>>
      /\ \/ hbLink = 0 /\ hbPending' = hbPending /\ hbPings' = hbPings
         \/ /\ hbLink # 0 /\ hbPending' = hbPending \cup {ping}
            /\ hbPings' = hbPings \cup {<<FreeNonce, hbLink>>}
  BY <1>p DEF TickPings
<1>2. hbRunning /\ hbSince = 0 /\ (hbLink = 0 => hbSilent = 0)
  BY <1>1 DEF HbInv, LoopLives
<1>3. /\ hbPending \subseteq AwaitedPings /\ IsFiniteSet(hbPending) /\ hbLink \in Nat
      /\ IsFiniteSet(hbPings) /\ hbPings \subseteq Nat \X Nat /\ hbSilent \in Nat
  BY DEF HbInv, HbTypes
<1>4. \A p \in hbPending : p.age \in Nat /\ Interval <= p.age /\ p.age <= Timeout
  BY <1>0, <1>1, <1>2, <1>3 DEF HbInv, Spaced, NotNewer, AwaitedPings
<1>5. /\ FreeNonce \in Nat /\ \A m \in hbPongs : m[1] # FreeNonce
  BY FreshNonce DEF HbInv
<1>6. ping \in AwaitedPings /\ ping.age = 0 /\ ping.nonce = FreeNonce
  BY <1>0, <1>3, <1>5, <1>p DEF AwaitedPings
<1>7. HbTypes'
  <2>1. IsFiniteSet(hbPending \cup {ping}) /\ IsFiniteSet(hbPings \cup {<<FreeNonce, hbLink>>})
    BY <1>3, FS_AddElement
  <2>2. /\ hbPending' \subseteq AwaitedPings /\ IsFiniteSet(hbPending')
        /\ hbPings' \subseteq Nat \X Nat /\ IsFiniteSet(hbPings')
    <3>1. CASE hbLink = 0
      BY <1>1, <1>3, <3>1
    <3>2. CASE hbLink # 0
      <4>1. <<FreeNonce, hbLink>> \in Nat \X Nat
        BY <1>3, <1>5
      <4>2. hbPending' = hbPending \cup {ping} /\ hbPings' = hbPings \cup {<<FreeNonce, hbLink>>}
        BY <1>1, <3>2
      <4> QED BY <1>3, <1>6, <2>1, <4>1, <4>2
    <3> QED BY <3>1, <3>2
  <2>3. hbTick' \in {"wait", "ping"}
    BY <1>1
  <2> QED BY <1>1, <2>2, <2>3 DEF HbInv, HbTypes
<1>8. LoopLives'
  BY <1>1, <1>2 DEF HbInv, LoopLives
<1>9. Spaced'
  <2>1. ASSUME NEW p \in hbPending', NEW q \in hbPending', p # q PROVE Apart(p, q)'
    <3>1. CASE p \in hbPending /\ q \in hbPending
      BY <1>0, <1>1, <1>2, <1>4, <2>1, <3>1, Zenon DEF HbInv, Spaced, Apart
    <3>2. CASE p = ping /\ q \in hbPending
      BY <1>0, <1>4, <1>6, <3>2 DEF Apart
    <3>3. CASE q = ping /\ p \in hbPending
      BY <1>0, <1>4, <1>6, <3>3 DEF Apart
    <3> QED BY <1>1, <2>1, <3>1, <3>2, <3>3
  <2>2. ASSUME NEW p \in hbPending' PROVE NotNewer(p)'
    <3>1. hbTick' # "ping" /\ hbSince' = 0
      BY <1>1, <1>2
    <3>2. p.age \in Nat
      BY <1>1, <1>4, <1>6
    <3> QED BY <3>1, <3>2 DEF NotNewer
  <2> QED BY <2>1, <2>2 DEF Spaced
<1>10. FewPending'
  <2>1. hbRunning'
    BY <1>1, <1>2, Zenon
  <2> QED BY <1>7, <1>9, <2>1, FewOnceSpaced, PTL
<1>11. SilentInv'
  <2> SUFFICES ASSUME hbSilent' # 0 PROVE (StreakCounts /\ AnswersAreOld /\ TicksLeavePings)'
    BY DEF SilentInv
  <2>0. /\ StreakCounts /\ AnswersAreOld /\ TicksLeavePings /\ hbPending' = hbPending \cup {ping}
        /\ Silence' = Silence
    BY <1>1, <1>2 DEF HbInv, SilentInv, Silence
  <2>1. StreakCounts'
    BY <1>1, <2>0 DEF StreakCounts
  <2>2. Unanswerable(ping)'
    BY <1>1, <1>5, <1>6 DEF Unanswerable
  <2>3. AnswersAreOld'
    BY <1>1, <2>0, <2>2 DEF AnswersAreOld, Unanswerable
  <2>4. TicksLeavePings'
    <3> SUFFICES ASSUME NEW j \in 0 .. Timeout \div Interval, hbSince' + j * Interval < Silence'
                 PROVE  \E p \in hbPending' : p.age = Capped(hbSince' + j * Interval)
                                              /\ Unanswerable(p)'
      BY DEF TicksLeavePings
    <3>1. CASE j = 0
      <4>1. hbSince' + j * Interval = 0
        BY <1>0, <1>1, <1>2, <3>1
      <4>2. ping.age = Capped(0)
        BY <1>0, <1>6 DEF Capped
      <4> QED BY <2>0, <2>2, <4>1, <4>2
    <3>2. CASE j # 0
      <4>1. PICK p \in hbPending : p.age = Capped(hbSince + j * Interval) /\ Unanswerable(p)
        BY <1>1, <2>0, <3>2 DEF TicksLeavePings
      <4> QED BY <1>1, <2>0, <4>1 DEF Unanswerable
    <3> QED BY <3>1, <3>2
  <2> QED BY <2>1, <2>3, <2>4
<1> QED BY <1>7, <1>8, <1>9, <1>10, <1>11 DEF HbInv

\* Every step keeps the invariant.
LEMMA HbInvStep == HbInv /\ [HeartbeatNext]_hbvars => HbInv'
<1> SUFFICES ASSUME HbInv, [HeartbeatNext]_hbvars PROVE HbInv'
  OBVIOUS
<1>1. CASE Connect BY <1>1, ConnectKeeps
<1>2. CASE ConnectionFails \/ CloseTransportForRecovery \/ StopMonitor BY <1>2, DropsKeeps
<1>3. CASE PeerFallsSilent BY <1>3, SilenceKeeps
<1>4. CASE TimePasses BY <1>4, TimeKeeps
<1>5. CASE TickReaps BY <1>5, ReapsKeeps
<1>6. CASE TickPings BY <1>6, PingsKeeps
<1>7. CASE PeerReceives BY <1>7, ReceivesKeeps
<1>8. CASE HandlePong BY <1>8, HandlePongKeeps
<1>9. CASE UNCHANGED hbvars
  <2>1. HbTypes' /\ LoopLives'
    BY <1>9, Zenon DEF hbvars, HbInv, HbTypes, LoopLives
  <2>3. Spaced' /\ FewPending'
    BY <1>9 DEF hbvars, HbInv, Spaced, Apart, NotNewer, FewPending
  <2>2. SilentInv'
    BY <1>9 DEF hbvars, HbInv, SilentInv, StreakCounts, AnswersAreOld, TicksLeavePings,
                Silence, Unanswerable
  <2> QED BY <2>1, <2>2, <2>3, Zenon DEF HbInv
<1> QED BY <1>1, <1>2, <1>3, <1>4, <1>5, <1>6, <1>7, <1>8, <1>9 DEF HeartbeatNext

\* The invariant gives the property the run checks.
LEMMA HbInvSafe == HbInv => HeartbeatSafe
<1> SUFFICES ASSUME HbInv PROVE HeartbeatSafe
  OBVIOUS
<1>0. Interval \in Nat \ {0} /\ Timeout \in Nat /\ MissedLimit \in Nat \ {0} /\ MissedLimit \in Nat
  BY HeartbeatConstants
<1>1. ASSUME hbSilent # 0 PROVE hbSilent <= NoticeBound
  <2>0. hbSilent \in Nat /\ hbStreak \in Nat /\ hbStreak + 1 <= MissedLimit /\ hbSince <= Interval
        /\ hbSince \in Nat
    BY <1>0 DEF HbInv, HbTypes
  <2>1. StreakCounts
    BY <1>1 DEF HbInv, SilentInv
  <2>2. /\ Interval * (Overdue + (hbStreak + 1)) = Interval * (Overdue + hbStreak) + Interval
        /\ Interval * (Overdue + hbStreak) \in Nat
    BY <2>0, StepBound, Zenon
  <2>3. /\ Interval * (Overdue + (hbStreak + 1)) <= Interval * (Overdue + MissedLimit)
        /\ Interval * (Overdue + MissedLimit) \in Nat
    BY <1>0, <2>0, StepBound
  <2>4. Silence <= Interval * (Overdue + MissedLimit)
    BY <1>0, <1>1, <2>0, <2>1, <2>2, <2>3 DEF StreakCounts, Silence
  <2>5. NoticeBound = 1 + Interval * (Overdue + MissedLimit)
    <3> DEFINE D == Timeout \div Interval
    <3>1. D \in Nat
      BY <1>0, DivBounds
    <3>2. NoticeBound = 1 + Interval * (MissedLimit + D + 1) /\ Overdue = D + 1
      BY DEF NoticeBound, Overdue
    <3> HIDE DEF D
    <3>3. MissedLimit + D + 1 = Overdue + MissedLimit
      BY <1>0, <3>1, <3>2
    <3> QED BY <3>2, <3>3
  <2> QED BY <1>0, <2>0, <2>3, <2>4, <2>5 DEF Silence
<1>2. hbSilent = 0 => hbSilent <= NoticeBound
  <2>1. Interval * (Overdue + MissedLimit) \in Nat
    BY <1>0, StepBound
  <2> DEFINE D == Timeout \div Interval
  <2>2. D \in Nat /\ NoticeBound = 1 + Interval * (MissedLimit + D + 1)
    BY <1>0, DivBounds DEF NoticeBound
  <2> HIDE DEF D
  <2>3. Interval * (MissedLimit + D + 1) \in Nat
    BY <1>0, <2>2
  <2> QED BY <2>2, <2>3
<1> QED BY <1>1, <1>2 DEF HeartbeatSafe, HbInv, HbTypes, FewPending

\* A peer that falls silent is noticed within the interval times the misses
\* allowed and the timeout, and the misses counted are those since the last
\* pong (heartbeat.py), for any interval, timeout and limit.
THEOREM SilenceNoticed == HeartbeatSpec => []HeartbeatSafe
<1>1. HeartbeatSpec => []HbInv
  BY HbInvInit, HbInvStep, PTL DEF HeartbeatSpec
<1> QED BY <1>1, HbInvSafe, PTL

-----------------------------------------------------------------------------
(* The requests a client has pending. *)

\* The first of a sequence and the rest.
LEMMA HeadAndTail ==
    ASSUME NEW S, NEW s \in Seq(S), s # <<>>
    PROVE  /\ Head(s) \in S /\ Head(s) = s[1]
           /\ Tail(s) \in Seq(S) /\ Len(Tail(s)) = Len(s) - 1 /\ Len(s) > 0
           /\ \A i \in 1..Len(Tail(s)) : Tail(s)[i] = s[i + 1]
OBVIOUS

\* The number of a request, or 0.
RequestIds == Calls \cup {0}

\* The types of the client.
ClientTypeOK ==
    /\ plan \in [Calls -> Operations]
    /\ pcall \in [Calls -> {"idle", "returned"} \cup Running]
    /\ table \in [Keys -> RequestIds]
    /\ answer \in [Calls -> RequestIds]
    /\ toRelay \in Seq(RequestIds)
    /\ fromRelay \in Seq([req : RequestIds, ok : BOOLEAN])
    /\ usable \in BOOLEAN /\ gone \in BOOLEAN

\* A future sits under the key of its call, which is still there.
UnderItsKey ==
    \A k \in Keys : table[k] # 0 => Key(table[k]) = k /\ pcall[table[k]] \in Running

\* A call that waits has its future in the table, or another call of the same
\* key was made.
InTableOrMet ==
    \A c \in Calls : pcall[c] = "waiting" =>
        \/ table[Key(c)] = c
        \/ \E d \in Calls \ {c} : Key(d) = Key(c) /\ pcall[d] # "idle"

\* The inductive invariant of the request tables.
ClientInv ==
    /\ ClientTypeOK /\ UnderItsKey /\ InTableOrMet /\ AnswerFits /\ DisconnectCancels
    /\ gone => ~usable

\* The key says what was asked, as far as the tables tell operations apart.
LEMMA KeyFacts ==
    ASSUME NEW op \in Operations, NEW c \in Calls
    PROVE  /\ KeyOf(op, c) \in Keys
           /\ KeyOf(op, c) = <<"channel", 0>> <=> op = "attach"
           /\ KeyOf(op, c) = <<"create", 0>> <=> op = "group_create"
           /\ KeyOf(op, c) = <<"ATTEST:group", 0>> <=> op = "group_attest"
           /\ KeyOf(op, c) = <<"STATE:group", 0>> <=> op = "group_state"
BY Zenon DEF KeyOf, Operations, InviteOps, Keys, Nonces

\* The same of the call c.
LEMMA CallKeys ==
    ASSUME ClientTypeOK, NEW c \in Calls
    PROVE  /\ Key(c) \in Keys
           /\ Key(c) = <<"channel", 0>> <=> plan[c] = "attach"
           /\ Key(c) = <<"create", 0>> <=> plan[c] = "group_create"
           /\ Key(c) = <<"ATTEST:group", 0>> <=> plan[c] = "group_attest"
           /\ Key(c) = <<"STATE:group", 0>> <=> plan[c] = "group_state"
BY KeyFacts DEF Key, ClientTypeOK

\* The keys are fixed by the plan.
LEMMA SameKeys == ASSUME plan' = plan PROVE \A c : Key(c)' = Key(c)
BY DEF Key

\* A client that has asked nothing.
LEMMA ClientInvInit == RelayClientInit => ClientInv
<1> SUFFICES ASSUME RelayClientInit PROVE ClientInv
  OBVIOUS
<1>1. plan \in [Calls -> Operations]
  BY RelayClientConstants DEF RelayClientInit
<1>2. <<>> \in Seq(RequestIds) /\ <<>> \in Seq([req : RequestIds, ok : BOOLEAN])
  OBVIOUS
<1>3. ClientTypeOK
  BY <1>1, <1>2, Zenon DEF RelayClientInit, ClientTypeOK, RequestIds, Running
<1>4. UnderItsKey /\ InTableOrMet /\ AnswerFits /\ DisconnectCancels
  BY DEF RelayClientInit, UnderItsKey, InTableOrMet, AnswerFits, DisconnectCancels
<1> QED BY <1>3, <1>4 DEF ClientInv, RelayClientInit

\* A future is registered.
LEMMA RegistrationKeeps ==
    ASSUME ClientInv, NEW c \in Calls, pcall[c] = "idle",
           pcall' = [pcall EXCEPT ![c] = "waiting"],
           table' = [table EXCEPT ![Key(c)] = c],
           toRelay' \in Seq(RequestIds),
           usable \/ plan[c] = "group_leave",
           UNCHANGED <<plan, answer, fromRelay, attached, usable, gone, lost>>
    PROVE  ClientInv'
<1>1. ClientTypeOK'
  BY CallKeys DEF ClientInv, ClientTypeOK, RequestIds, Running
<1>2. \A d : Key(d)' = Key(d)
  BY SameKeys
<1>3. UnderItsKey'
  BY <1>2, RelayClientConstants DEF ClientInv, ClientTypeOK, UnderItsKey, Running, RequestIds
<1>4. InTableOrMet'
  BY <1>2, CallKeys DEF ClientInv, ClientTypeOK, InTableOrMet
<1>5. AnswerFits'
  BY <1>2 DEF ClientInv, AnswerFits
<1>6. DisconnectCancels'
  BY <1>2 DEF ClientInv, ClientTypeOK, DisconnectCancels
<1> QED BY <1>1, <1>3, <1>4, <1>5, <1>6 DEF ClientInv

\* A call fails before it has registered anything.
LEMMA RefusedKeeps ==
    ASSUME ClientInv, NEW c \in Calls, pcall[c] = "idle",
           pcall' = [pcall EXCEPT ![c] = "returned"],
           UNCHANGED <<plan, table, answer, toRelay, fromRelay, attached, usable, gone, lost>>
    PROVE  ClientInv'
<1>1. \A d : Key(d)' = Key(d)
  BY SameKeys
<1>2. ClientTypeOK'
  BY DEF ClientInv, ClientTypeOK
<1>3. UnderItsKey'
  BY <1>1 DEF ClientInv, ClientTypeOK, UnderItsKey, Running, RequestIds
<1>4. InTableOrMet' /\ AnswerFits' /\ DisconnectCancels'
  BY <1>1 DEF ClientInv, ClientTypeOK, InTableOrMet, AnswerFits, DisconnectCancels
<1> QED BY <1>2, <1>3, <1>4 DEF ClientInv

\* A call, sent or refused at once.
LEMMA CallKeeps ==
    ASSUME ClientInv, NEW c \in Calls, Call(c)
    PROVE  ClientInv'
<1>0. /\ pcall[c] = "idle" /\ toRelay \in Seq(RequestIds)
      /\ Append(toRelay, c) \in Seq(RequestIds)
      /\ UNCHANGED <<plan, answer, fromRelay, attached, usable, gone, lost>>
  BY DEF Call, ClientInv, ClientTypeOK, RequestIds
<1>1. CASE Registers(c) /\ usable
  <2>1. /\ pcall' = [pcall EXCEPT ![c] = "waiting"]
        /\ table' = [table EXCEPT ![Key(c)] = c] /\ toRelay' = Append(toRelay, c)
    BY <1>1 DEF Registers
  <2> QED BY <1>0, <1>1, <2>1, RegistrationKeeps, Zenon
<1>2. CASE Registers(c) /\ ~usable
  <2>1. pcall' = [pcall EXCEPT ![c] = "returned"] /\ table' = table /\ toRelay' = toRelay
    BY <1>2 DEF Registers
  <2> QED BY <1>0, <2>1, RefusedKeeps, Zenon
<1>3. CASE GroupCreate(c)
  BY <1>0, <1>1, <1>2, <1>3, RefusedKeeps DEF GroupCreate
<1>4. CASE GroupLeave(c)
  <2>1. toRelay' \in Seq(RequestIds)
    BY <1>0, <1>4 DEF GroupLeave
  <2> QED BY <1>0, <1>4, <2>1, RegistrationKeeps, Zenon DEF GroupLeave
<1> QED
  BY <1>1, <1>2, <1>3, <1>4, Zenon DEF Call, Attach_, InviteRoundtrip, GroupRoundtrip, Ping

\* wait_for gives up: the finally clause takes the future away.
LEMMA TimesOutKeeps ==
    ASSUME ClientInv, NEW c \in Calls, TimesOut(c)
    PROVE  ClientInv'
<1>1. \A d : Key(d)' = Key(d)
  BY SameKeys DEF TimesOut
<1>2. ClientTypeOK'
  BY DEF ClientInv, ClientTypeOK, TimesOut, Running
<1>3. UnderItsKey'
  BY <1>1 DEF ClientInv, ClientTypeOK, UnderItsKey, Running, RequestIds, TimesOut
<1>4. InTableOrMet' /\ AnswerFits' /\ DisconnectCancels'
  BY <1>1 DEF ClientInv, ClientTypeOK, InTableOrMet, AnswerFits, DisconnectCancels, TimesOut
<1> QED BY <1>2, <1>3, <1>4 DEF ClientInv, TimesOut

\* The finally clauses: whatever is taken out, the call leaves no future of its
\* own behind.
LEMMA ReturnsKeeps ==
    ASSUME ClientInv, NEW c \in Calls, Returns(c)
    PROVE  ClientInv'
<1>1. \A d : Key(d)' = Key(d)
  BY SameKeys DEF Returns
<1>2. /\ pcall[c] \in Running \ {"waiting"} /\ pcall' = [pcall EXCEPT ![c] = "returned"]
      /\ UNCHANGED <<plan, answer, toRelay, fromRelay, usable, gone>>
  BY DEF Returns
<1>3. table' = table \/ table' = [table EXCEPT ![Key(c)] = 0]
  BY DEF Returns
<1>4. \A k \in Keys : table'[k] = table[k] \/ (table'[k] = 0 /\ k = Key(c))
  BY <1>3, CallKeys DEF ClientInv, ClientTypeOK
<1>5. \A k \in Keys : table'[k] # c
  <2> SUFFICES ASSUME NEW k \in Keys, table'[k] = c PROVE FALSE
    OBVIOUS
  <2>1. table[k] = c /\ c # 0 /\ Key(c) = k
    BY <1>4, RelayClientConstants DEF ClientInv, ClientTypeOK, UnderItsKey
  <2>2. CASE plan[c] = "group_create" /\ table[<<"create", 0>>] # c
    BY <2>1, <2>2, CallKeys DEF ClientInv
  <2>3. CASE ~(plan[c] = "group_create" /\ table[<<"create", 0>>] # c)
    <3>1. table' = [table EXCEPT ![Key(c)] = 0]
      BY <2>3 DEF Returns
    <3> QED BY <2>1, <3>1 DEF ClientInv, ClientTypeOK
  <2> QED BY <2>2, <2>3
<1>6. ClientTypeOK'
  <2>1. table' \in [Keys -> RequestIds]
    BY <1>3, CallKeys DEF ClientInv, ClientTypeOK, RequestIds
  <2> QED BY <1>2, <2>1 DEF ClientInv, ClientTypeOK
<1>7. UnderItsKey'
  BY <1>1, <1>2, <1>4, <1>5 DEF ClientInv, ClientTypeOK, UnderItsKey, RequestIds
<1>8. InTableOrMet'
  <2> SUFFICES ASSUME NEW d \in Calls, pcall'[d] = "waiting"
               PROVE  \/ table'[Key(d)] = d
                      \/ \E e \in Calls \ {d} : Key(e) = Key(d) /\ pcall'[e] # "idle"
    BY <1>1 DEF InTableOrMet
  <2>1. d # c /\ pcall[d] = "waiting" /\ Key(d) \in Keys
    BY <1>2, CallKeys DEF ClientInv, ClientTypeOK
  <2>2. CASE table[Key(d)] = d
    BY <1>2, <1>4, <2>1, <2>2 DEF ClientInv, ClientTypeOK
  <2>3. CASE table[Key(d)] # d
    BY <1>2, <2>1, <2>3 DEF ClientInv, ClientTypeOK, InTableOrMet
  <2> QED BY <2>2, <2>3
<1>9. AnswerFits' /\ DisconnectCancels'
  BY <1>1, <1>2 DEF ClientInv, ClientTypeOK, AnswerFits, DisconnectCancels
<1> QED BY <1>2, <1>6, <1>7, <1>8, <1>9 DEF ClientInv

\* An answer reaches the call whose future is under its key, if that waits.
LEMMA ResolveKeeps ==
    ASSUME ClientInv, NEW key \in Keys, NEW req \in RequestIds,
           req # 0 => Key(req) = key, Resolves(key, req),
           table' = table \/ table' = [table EXCEPT ![key] = 0],
           fromRelay' \in Seq([req : RequestIds, ok : BOOLEAN]),
           UNCHANGED <<plan, toRelay, usable, gone>>
    PROVE  ClientInv'
<1>1. \A d : Key(d)' = Key(d)
  BY SameKeys
<1>2. /\ pcall \in [Calls -> {"idle", "returned"} \cup Running]
      /\ table \in [Keys -> RequestIds] /\ answer \in [Calls -> RequestIds]
      /\ table[key] # 0 => table[key] \in Calls /\ Key(table[key]) = key
  BY DEF ClientInv, ClientTypeOK, UnderItsKey, RequestIds
<1>3. ClientTypeOK'
  BY <1>2 DEF ClientInv, ClientTypeOK, RequestIds, Running, Resolves
<1>4. \A c \in Calls : \/ pcall'[c] = pcall[c]
                       \/ pcall[c] = "waiting" /\ pcall'[c] = "answered"
  BY <1>2 DEF Resolves
<1>5. UnderItsKey'
  BY <1>1, <1>2, <1>4 DEF ClientInv, UnderItsKey, Running, RequestIds
<1>6. InTableOrMet'
  <2> SUFFICES ASSUME NEW d \in Calls, pcall'[d] = "waiting"
               PROVE  \/ table'[Key(d)] = d
                      \/ \E e \in Calls \ {d} : Key(e) = Key(d) /\ pcall'[e] # "idle"
    BY <1>1 DEF InTableOrMet
  <2>1. pcall[d] = "waiting" /\ Key(d) \in Keys /\ d # 0
    BY <1>4, CallKeys, RelayClientConstants DEF ClientInv
  <2>2. CASE table[Key(d)] = d
    <3>1. Key(d) # key
      BY <1>2, <2>1, <2>2 DEF Resolves
    <3> QED BY <1>2, <2>1, <2>2, <3>1
  <2>3. CASE table[Key(d)] # d
    BY <1>4, <2>1, <2>3 DEF ClientInv, InTableOrMet
  <2> QED BY <2>2, <2>3
<1>7. AnswerFits'
  <2> SUFFICES ASSUME NEW c \in Calls, answer'[c] # 0
               PROVE  /\ Key(answer'[c]) = Key(c)
                      /\ Key(c) \in {<<"ATTEST:group", 0>>, <<"STATE:group", 0>>}
                            => plan[answer'[c]] = plan[c]
    BY <1>1 DEF AnswerFits
  <2>1. CASE answer'[c] = answer[c]
    BY <2>1 DEF ClientInv, AnswerFits
  <2>2. CASE answer'[c] # answer[c]
    <3>1. c = table[key] /\ answer'[c] = req /\ req \in Calls
      BY <1>2, <2>2 DEF Resolves, RequestIds
    <3>2. Key(req) = Key(c)
      BY <1>2, <3>1
    <3> QED BY <3>1, <3>2, CallKeys DEF ClientInv
  <2> QED BY <2>1, <2>2
<1>8. DisconnectCancels'
  BY <1>1, <1>4 DEF ClientInv, DisconnectCancels
<1> QED BY <1>3, <1>5, <1>6, <1>7, <1>8 DEF ClientInv

\* The futures under some keys end at once, by an error or by disconnect.
LEMMA CutKeeps ==
    ASSUME ClientInv, NEW cut \in SUBSET Keys, NEW how \in {"refused", "cancelled"},
           pcall' = [c \in Calls |->
                       IF c \in {table[k] : k \in cut} /\ pcall[c] = "waiting" THEN how
                       ELSE pcall[c]],
           table' \in [Keys -> RequestIds],
           \A k \in Keys : table'[k] = table[k] \/ (table'[k] = 0 /\ k \in cut),
           UNCHANGED <<plan, answer>>,
           toRelay' \in Seq(RequestIds),
           fromRelay' \in Seq([req : RequestIds, ok : BOOLEAN]),
           usable' \in BOOLEAN, gone' \in BOOLEAN, gone' => ~usable',
           DisconnectCancels'
    PROVE  ClientInv'
<1>1. \A d : Key(d)' = Key(d)
  BY SameKeys
<1>2. ClientTypeOK'
  BY DEF ClientInv, ClientTypeOK, Running
<1>3. \A c \in Calls : \/ pcall'[c] = pcall[c]
                       \/ pcall[c] = "waiting" /\ pcall'[c] = how
  OBVIOUS
<1>4. UnderItsKey'
  BY <1>1, <1>3 DEF ClientInv, ClientTypeOK, UnderItsKey, Running, RequestIds
<1>5. InTableOrMet'
  <2> SUFFICES ASSUME NEW d \in Calls, pcall'[d] = "waiting"
               PROVE  \/ table'[Key(d)] = d
                      \/ \E e \in Calls \ {d} : Key(e) = Key(d) /\ pcall'[e] # "idle"
    BY <1>1 DEF InTableOrMet
  <2>1. pcall[d] = "waiting" /\ Key(d) \in Keys /\ d \notin {table[k] : k \in cut}
    BY <1>3, CallKeys DEF ClientInv
  <2>2. CASE table[Key(d)] = d
    BY <2>1, <2>2
  <2>3. CASE table[Key(d)] # d
    BY <1>3, <2>1, <2>3 DEF ClientInv, InTableOrMet
  <2> QED BY <2>2, <2>3
<1>6. AnswerFits'
  BY <1>1 DEF ClientInv, AnswerFits
<1> QED BY <1>2, <1>4, <1>5, <1>6 DEF ClientInv

\* A frame is handled: an answer, an error, or one nobody waits for.
LEMMA HandleBytesKeeps ==
    ASSUME ClientInv, HandleBytes
    PROVE  ClientInv'
<1> DEFINE a == Head(fromRelay)
           key == AnswerKey(a.req)
<1>1. a \in [req : RequestIds, ok : BOOLEAN]
  <2>1. fromRelay \in Seq([req : RequestIds, ok : BOOLEAN]) /\ fromRelay # <<>>
    BY DEF HandleBytes, ClientInv, ClientTypeOK
  <2> QED BY <2>1, HeadAndTail, Zenon
<1>2. fromRelay' \in Seq([req : RequestIds, ok : BOOLEAN])
  <2>1. fromRelay \in Seq([req : RequestIds, ok : BOOLEAN]) /\ fromRelay # <<>>
        /\ fromRelay' = Tail(fromRelay)
    BY DEF HandleBytes, ClientInv, ClientTypeOK
  <2> QED BY <2>1, HeadAndTail
<1>3. /\ a.req \in RequestIds /\ a.ok \in BOOLEAN
      /\ key \in Keys /\ (a.req # 0 => Key(a.req) = key)
  <2>1. a.req \in RequestIds /\ a.ok \in BOOLEAN
    BY <1>1
  <2>2. CASE a.req = 0
    BY <2>1, <2>2 DEF AnswerKey, Keys
  <2>3. CASE a.req # 0
    BY <2>1, <2>3, CallKeys DEF AnswerKey, RequestIds, ClientInv
  <2> QED BY <2>1, <2>2, <2>3
<1>4. UNCHANGED <<plan, toRelay, usable, gone>>
  BY DEF HandleBytes
<1>5. \/ ResolvePong(key, a.req)
      \/ Resolves(key, a.req) /\ UNCHANGED table
      \/ Rejects(key)
  BY <1>3, Zenon DEF HandleBytes
<1> HIDE DEF key, a
<1>6. CASE ResolvePong(key, a.req) \/ (Resolves(key, a.req) /\ UNCHANGED table)
  BY <1>2, <1>3, <1>4, <1>6, ResolveKeeps, Zenon DEF ResolvePong
<1>7. CASE Rejects(key)
  <2>1. Failing(key) \in SUBSET Keys
    BY <1>3, Zenon DEF Failing, GroupKeys, Keys
  <2>2. /\ table' \in [Keys -> RequestIds]
        /\ \A k \in Keys : table'[k] = table[k] \/ (table'[k] = 0 /\ k \in Failing(key))
    BY <1>7 DEF Rejects, ClientInv, ClientTypeOK, RequestIds
  <2>3. /\ pcall' = [c \in Calls |->
                       IF c \in {table[k] : k \in Failing(key)} /\ pcall[c] = "waiting"
                       THEN "refused" ELSE pcall[c]]
        /\ answer' = answer
    BY <1>7 DEF Rejects
  <2>4. DisconnectCancels'
    <3>1. \A d : Key(d)' = Key(d)
      BY <1>4, SameKeys
    <3>2. \A c \in Calls : \/ pcall'[c] = pcall[c]
                           \/ pcall[c] = "waiting" /\ pcall'[c] = "refused"
      BY <2>3
    <3> QED BY <1>4, <3>1, <3>2 DEF ClientInv, DisconnectCancels
  <2> QED
    BY <1>2, <1>4, <2>1, <2>2, <2>3, <2>4, CutKeeps, Zenon DEF ClientInv, ClientTypeOK
<1> QED BY <1>5, <1>6, <1>7

\* disconnect cancels every future of every table.
LEMMA DisconnectKeeps ==
    ASSUME ClientInv, Disconnect
    PROVE  ClientInv'
<1> DEFINE cut == Keys \ {<<"channel", 0>>}
<1>1. /\ pcall' = [c \in Calls |->
                     IF c \in {table[k] : k \in cut} /\ pcall[c] = "waiting"
                     THEN "cancelled" ELSE pcall[c]]
      /\ UNCHANGED <<plan, answer>> /\ gone' = TRUE /\ usable' = FALSE
  BY DEF Disconnect
<1>2. /\ table' \in [Keys -> RequestIds]
      /\ \A k \in Keys : table'[k] = table[k] \/ (table'[k] = 0 /\ k \in cut)
  BY DEF Disconnect, ClientInv, ClientTypeOK, RequestIds
<1>3. toRelay' = <<>> /\ fromRelay' = <<>>
  BY DEF Disconnect
<1>4. toRelay' \in Seq(RequestIds) /\ fromRelay' \in Seq([req : RequestIds, ok : BOOLEAN])
  BY <1>3
<1>5. DisconnectCancels'
  <2> SUFFICES ASSUME NEW c \in Calls, pcall'[c] = "waiting"
               PROVE  \/ plan[c] \in {"attach", "group_leave"}
                      \/ \E d \in Calls \ {c} : Key(d) = Key(c) /\ pcall'[d] # "idle"
    BY <1>1, SameKeys DEF DisconnectCancels
  <2>1. pcall[c] = "waiting" /\ c \notin {table[k] : k \in cut} /\ Key(c) \in Keys
    BY <1>1, CallKeys DEF ClientInv
  <2>2. CASE table[Key(c)] = c
    <3>1. Key(c) = <<"channel", 0>>
      BY <2>1, <2>2
    <3> QED BY <3>1, CallKeys DEF ClientInv
  <2>3. CASE table[Key(c)] # c
    BY <1>1, <2>1, <2>3 DEF ClientInv, InTableOrMet
  <2> QED BY <2>2, <2>3
<1>6. cut \in SUBSET Keys
  OBVIOUS
<1> HIDE DEF cut
<1> QED BY <1>1, <1>2, <1>4, <1>5, <1>6, CutKeeps, Zenon

\* Packets and the connection touch no table.
LEMMA WireKeeps ==
    ASSUME ClientInv, RelayReplies \/ ConnectionBreaks \/ PostConnected \/ Detach
    PROVE  ClientInv'
<1>0. UNCHANGED <<plan, pcall, table, answer, gone>>
  BY DEF RelayReplies, ConnectionBreaks, PostConnected, Detach
<1>1. (gone' => ~usable') /\ usable' \in BOOLEAN
  <2>1. (gone => ~usable) /\ usable \in BOOLEAN /\ gone' = gone
    BY <1>0 DEF ClientInv, ClientTypeOK
  <2>2. CASE RelayReplies \/ Detach
    BY <2>1, <2>2 DEF RelayReplies, Detach
  <2>3. CASE ConnectionBreaks
    BY <2>3, Zenon DEF ConnectionBreaks
  <2>4. CASE PostConnected
    BY <2>1, <2>4 DEF PostConnected
  <2> QED BY <2>2, <2>3, <2>4
<1>2. toRelay' \in Seq(RequestIds) /\ fromRelay' \in Seq([req : RequestIds, ok : BOOLEAN])
  <2>0. toRelay \in Seq(RequestIds) /\ fromRelay \in Seq([req : RequestIds, ok : BOOLEAN])
    BY DEF ClientInv, ClientTypeOK
  <2>1. CASE RelayReplies
    <3>1. Head(toRelay) \in RequestIds /\ Tail(toRelay) \in Seq(RequestIds)
      BY <2>0, <2>1, HeadAndTail DEF RelayReplies
    <3>2. PICK ok \in BOOLEAN : fromRelay' = Append(fromRelay, [req |-> Head(toRelay), ok |-> ok])
      BY <2>1 DEF RelayReplies
    <3> DEFINE r == [req |-> Head(toRelay), ok |-> ok]
    <3>3. r \in [req : RequestIds, ok : BOOLEAN]
      BY <3>1
    <3> HIDE DEF r
    <3>4. Append(fromRelay, r) \in Seq([req : RequestIds, ok : BOOLEAN])
      BY <2>0, <3>3
    <3> QED BY <2>1, <3>1, <3>2, <3>4 DEF RelayReplies, r
  <2>2. CASE ConnectionBreaks
    BY <2>2 DEF ConnectionBreaks
  <2>3. CASE PostConnected
    <3>1. <<0>> \in Seq(RequestIds) /\ <<>> \in Seq(RequestIds)
      BY DEF RequestIds
    <3> QED BY <2>0, <2>3, <3>1 DEF PostConnected
  <2>4. CASE Detach
    BY <2>0, <2>4 DEF Detach
  <2> QED BY <2>1, <2>2, <2>3, <2>4
<1> QED
  BY <1>0, <1>1, <1>2, SameKeys
     DEF ClientInv, ClientTypeOK, UnderItsKey, InTableOrMet, AnswerFits, DisconnectCancels

\* Every step of the client keeps the invariant.
LEMMA ClientInvStep == ClientInv /\ [RelayClientNext]_rcvars => ClientInv'
<1> SUFFICES ASSUME ClientInv, [RelayClientNext]_rcvars PROVE ClientInv'
  BY Zenon
<1>1. CASE UNCHANGED rcvars
  BY <1>1, SameKeys
     DEF rcvars, ClientInv, ClientTypeOK, UnderItsKey, InTableOrMet, AnswerFits, DisconnectCancels
<1>2. CASE RelayClientNext
  <2>1. ASSUME NEW c \in Calls, Call(c) \/ TimesOut(c) \/ Returns(c) PROVE ClientInv'
    BY <2>1, CallKeeps, TimesOutKeeps, ReturnsKeeps
  <2>2. CASE RelayReplies \/ ConnectionBreaks \/ PostConnected \/ Detach
    BY <2>2, WireKeeps
  <2>3. CASE HandleBytes \/ Disconnect
    BY <2>3, HandleBytesKeeps, DisconnectKeeps
  <2> QED BY <1>2, <2>1, <2>2, <2>3 DEF RelayClientNext
<1> QED BY <1>1, <1>2

\* The invariant gives the property the run checks.
LEMMA ClientInvSafe == ClientInv => RelayClientSafe
BY DEF ClientInv, UnderItsKey, PendingHasCaller, RelayClientSafe

\* No future without its caller, no answer of another kind, and nobody left
\* waiting by a disconnect that could have been told (relay/client.py), for
\* any plan of any calls.
THEOREM RequestsCorrelate == RelayClientSpec => []RelayClientSafe
BY ClientInvInit, ClientInvStep, ClientInvSafe, PTL DEF RelayClientSpec

-----------------------------------------------------------------------------
(* The client's side of a relay connection. *)

\* Every pending request has its caller and gets an answer that fits
\* (relay/client.py), and a silent relay is noticed in time (heartbeat.py).
THEOREM ClientStaysSafe == RelayClientSpec /\ HeartbeatSpec => []ClientSafe
<1>1. RelayClientSafe /\ HeartbeatSafe => ClientSafe
  BY DEF ClientSafe
<1> QED BY <1>1, RequestsCorrelate, SilenceNoticed, PTL
=============================================================================
