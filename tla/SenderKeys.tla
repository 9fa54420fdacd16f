------------------------------ MODULE SenderKeys ------------------------------
(***************************************************************************)
(* The sender-key suite of group messaging (ghostlink/groups/senderkeys.py *)
(* and the senderkey-v1 paths of service.py): one sender seals every       *)
(* message once under a ratchet and hands the ratchet's root to each       *)
(* member over the pairwise link; one receiver follows the ratchet.        *)
(*                                                                         *)
(* A message key is <<root, position, index>>: the chain at that position  *)
(* of the ratchet that started from the root, labelled with the index, so  *)
(* two parties hold the same key only if they stand at the same position.  *)
(* Each send is a coroutine: it seals at once, then sleeps on the link, on *)
(* the distribution and on the envelope; sends overlap.  Pairwise links    *)
(* are GroupMesh's; here a link is its epoch.                              *)
(***************************************************************************)
EXTENDS Integers, Sequences, FiniteSets, SequencesExt

CONSTANTS
    SkMessages,  \* how many messages are sent; index and gseq of a message
    SkippedMax,  \* GROUP_SK_SKIPPED_MAX
    PendingMax,  \* GROUP_SK_PENDING_PER_SENDER
    RetryMax,    \* _SK_RETRY_PER_MEMBER
    SkGap,       \* GROUP_GSEQ_MAX_GAP
    SkBounds     \* bounds on the messages sent, the epoch leaps, the receiver's lost sessions
                 \* and the broken envelopes, one of which a behaviour follows

ASSUME SenderKeysConstants ==
    /\ SkMessages \in Nat /\ SkBounds \subseteq [sends : 0..SkMessages, leap : 0..1,
                                               away : Nat, broken : Nat]
    /\ {SkippedMax, PendingMax, RetryMax, SkGap} \subseteq Nat \ {0}

VARIABLES
    skEpoch,   \* ["s", "r" -> epoch of the record]
    skNext,    \* s: next gseq
    roots,     \* chain roots drawn so far
    out,       \* s: outgoing chain of the current epoch: [root, gen, pos, next] or NoOut
    gens,      \* s: [epoch -> generations], with the pinned start index
    given,     \* s: what the receiver was last given: [e, gen, index]
    skSealed,  \* s: [message -> [e, gen, key]]
    leg,       \* s: [message -> what its coroutine does: "none", "link", "wire" or "done"]
    legEpoch,  \* s: [message -> epoch its link was asked for, then its envelope's label]
    skLedger,  \* s: [message -> delivery state]
    retry,     \* s: messages held for the receiver, sealed as they are
    drain,     \* s: a running _drain_sk_retry: [e, job], its link's epoch and envelope
    chain,     \* r: [e, gen, root, pos, last, skipped] or NoChain
    buffered,  \* r: messages that came before their chain
    skSeen, skCursor, skShown,  \* r: ids seen, last gseq, rendered messages
    online,    \* r has a session
    skWire,    \* packets on the way to r
    skBack,    \* packets on the way to s
    skFaults   \* [sends, leap, away, broken]: what is left of the bounds

skvars == <<skEpoch, skNext, roots, out, gens, given, skSealed, leg, legEpoch, skLedger, retry, drain,
            chain, buffered, skSeen, skCursor, skShown, online, skWire, skBack, skFaults>>
outVars == <<out, gens, roots>>
rVars == <<chain, buffered, skSeen, skCursor, skShown>>

SkMsgs == 1..SkMessages
SkEpochs == 1..2
NoOut == [root |-> 0, gen |-> 0, pos |-> 0, next |-> 0]
NoChain == [e |-> 0, gen |-> 0, root |-> 0, pos |-> 0, last |-> 0, skipped |-> <<>>]
NoDrain == [e |-> 0, job |-> 0]
Nothing == [e |-> 0, gen |-> 0, index |-> 0]
NoSeal == [e |-> 0, gen |-> 0, key |-> <<0, 0, 0>>]
MessageKey(root, pos, index) == <<root, pos, index>>

SenderKeysInit ==
    /\ skEpoch = [p \in {"s", "r"} |-> 1] /\ skNext = 1 /\ roots = 0
    /\ out = NoOut /\ gens = [e \in SkEpochs |-> [gen |-> 0, start |-> 1]] /\ given = Nothing
    /\ skSealed = [n \in SkMsgs |-> NoSeal] /\ leg = [n \in SkMsgs |-> "none"]
    /\ legEpoch = [n \in SkMsgs |-> 0] /\ skLedger = [n \in SkMsgs |-> "none"]
    /\ retry = <<>> /\ drain = NoDrain
    /\ chain = NoChain /\ buffered = <<>> /\ skSeen = {} /\ skCursor = 0 /\ skShown = <<>>
    /\ online = TRUE /\ skWire = <<>> /\ skBack = <<>>
    /\ skFaults \in SkBounds

-----------------------------------------------------------------------------
(* The sender. *)

\* Mutant: a fresh chain stands at its root although its first index is later.
OutgoingUnaligned(start) ==
    IF out # NoOut THEN out
    ELSE [root |-> roots + 1, gen |-> gens[skEpoch["s"]].gen + 1, pos |-> 1, next |-> start]

\* ensure_outgoing and OutgoingChain: the chain of this epoch; a fresh one has
\* been advanced through the indexes before its start.
Outgoing(start) ==
    IF out # NoOut THEN out
    ELSE [root |-> roots + 1, gen |-> gens[skEpoch["s"]].gen + 1, pos |-> start, next |-> start]
Keeps(c, start) ==
    /\ out' = c
    /\ roots' = IF out = NoOut THEN roots + 1 ELSE roots
    /\ gens' = IF out = NoOut THEN [gens EXCEPT ![skEpoch["s"]] = [gen |-> c.gen, start |-> start]]
               ELSE gens

\* OutgoingChain.seal
Advanced(c) == [c EXCEPT !.pos = @ + 1, !.next = @ + 1]

\* _send_sender_key up to its first await: the ledger, the chain, the seal.
\* A chain that stands at another index refuses the seal, and send raises.
SendSenderKey ==
    /\ skNext <= skFaults.sends /\ skNext' = skNext + 1
    /\ LET n == skNext  e == skEpoch["s"]  c == Outgoing(n) IN
       IF c.next # n
         THEN /\ skLedger' = [skLedger EXCEPT ![n] = "queued"]
              /\ UNCHANGED <<outVars, skSealed, leg, legEpoch>>
         ELSE /\ Keeps(Advanced(c), n)
              /\ skSealed' = [skSealed EXCEPT ![n] = [e |-> e, gen |-> c.gen,
                                                      key |-> MessageKey(c.root, c.pos, n)]]
              /\ skLedger' = [skLedger EXCEPT ![n] = "sending"]
              /\ leg' = [leg EXCEPT ![n] = "link"] /\ legEpoch' = [legEpoch EXCEPT ![n] = e]
    /\ UNCHANGED <<skEpoch, given, retry, drain, rVars, online, skWire, skBack, skFaults>>

\* The relay passes an envelope on, or tells the sender the member is offline.
Forwards(packet) ==
    IF online THEN skWire' = Append(skWire, packet) /\ UNCHANGED skBack
    ELSE skBack' = Append(skBack, [k |-> "offline", n |-> 0]) /\ UNCHANGED skWire

\* The connection fails under one envelope (TransportError).
Breaks == skFaults.broken > 0 /\ skFaults' = [skFaults EXCEPT !.broken = @ - 1]

\* _send_sk_distribution: the root of this epoch's chain, unless the member
\* was given it up to this index.  The chain may be made here, at the start
\* index pinned for the epoch, 1 when none is.  A broken connection is only
\* logged, and the member counts as not told.
Distributes(index) ==
    LET e == skEpoch["s"]  c == Outgoing(gens[e].start) IN
    /\ Keeps(c, gens[e].start)
    /\ IF given.e = e /\ given.gen = c.gen /\ given.index >= index
         THEN UNCHANGED <<given, skWire, skBack, skFaults>>
         ELSE \/ /\ given' = [e |-> e, gen |-> c.gen, index |-> index]
                 /\ Forwards([k |-> "sk", e |-> e, gen |-> c.gen, root |-> c.root, index |-> index])
                 /\ UNCHANGED skFaults
              \/ Breaks /\ UNCHANGED <<given, skWire, skBack>>

\* _ensure_link returned a link of the epoch it was asked for, or of a newer
\* one when the waiter was served after a leap; a link that is not the
\* record's is not used, and the leg is dropped.
LegLinked(n) ==
    /\ leg[n] = "link" /\ online
    /\ \E e \in legEpoch[n]..skEpoch["s"] :
         IF e # skEpoch["s"]
           THEN leg' = [leg EXCEPT ![n] = "done"] /\ UNCHANGED <<legEpoch, outVars, given, skWire, skBack, skFaults>>
           ELSE /\ Distributes(n)
                /\ leg' = [leg EXCEPT ![n] = "wire"] /\ legEpoch' = [legEpoch EXCEPT ![n] = e]
    /\ UNCHANGED <<skEpoch, skNext, skSealed, skLedger, retry, drain, rVars, online>>

\* _sk_retry_add: bounded, the oldest is failed.
RetryAdd(q, ns) == LET all == q \o ns IN
    SubSeq(all, IF Len(all) > RetryMax THEN Len(all) - RetryMax + 1 ELSE 1, Len(all))
Settles(q, ns) == [n \in SkMsgs |->
    CASE n \in ToSet(q \o ns) \ ToSet(RetryAdd(q, ns)) -> "failed"
      [] n \in ToSet(ns) -> "queued"
      [] OTHER -> skLedger[n]]

\* The pairing failed: offline holds the sealed envelope, anything else fails.
LegUnlinked(n) ==
    /\ leg[n] = "link" /\ leg' = [leg EXCEPT ![n] = "done"]
    /\ \/ /\ ~online
          /\ retry' = RetryAdd(retry, <<n>>) /\ skLedger' = Settles(retry, <<n>>)
       \/ /\ skLedger' = [skLedger EXCEPT ![n] = "failed"] /\ UNCHANGED retry
    /\ UNCHANGED <<skEpoch, skNext, outVars, given, skSealed, legEpoch, drain, rVars, online, skWire,
                   skBack, skFaults>>

Envelope(n, e) == [k |-> "skmsg", e |-> e, sealed |-> skSealed[n].e, gen |-> skSealed[n].gen, n |-> n, key |-> skSealed[n].key]

LegForwards(n) ==
    /\ leg[n] = "wire" /\ leg' = [leg EXCEPT ![n] = "done"]
    /\ Forwards(Envelope(n, legEpoch[n]))
    /\ skLedger' = [skLedger EXCEPT ![n] = "sent"]
    /\ UNCHANGED <<skEpoch, skNext, outVars, given, skSealed, legEpoch, retry, drain, rVars, online,
                   skFaults>>

LegBreaks(n) ==
    /\ leg[n] = "wire" /\ Breaks /\ leg' = [leg EXCEPT ![n] = "done"]
    /\ skLedger' = [skLedger EXCEPT ![n] = "failed"]
    /\ UNCHANGED <<skEpoch, skNext, outVars, given, skSealed, legEpoch, retry, drain, rVars, online,
                   skWire, skBack>>

\* _on_forward_error and _sk_offline_requeue: everything under way to the
\* member is held, as it was sealed.
OnOffline ==
    /\ skBack # <<>> /\ Head(skBack).k = "offline" /\ skBack' = Tail(skBack)
    /\ LET held == SetToSortSeq({n \in SkMsgs : skLedger[n] \in {"sending", "sent"}}, <) IN
         retry' = RetryAdd(retry, held) /\ skLedger' = Settles(retry, held)
    /\ UNCHANGED <<skEpoch, skNext, outVars, given, skSealed, leg, legEpoch, drain, rVars, online,
                   skWire, skFaults>>

\* _apply_gack, then _flush_member.
OnGack ==
    /\ skBack # <<>> /\ Head(skBack).k = "ack" /\ skBack' = Tail(skBack)
    /\ skLedger' = [skLedger EXCEPT ![Head(skBack).n] = IF @ = "sent" THEN "delivered" ELSE @]
    /\ UNCHANGED <<skEpoch, skNext, outVars, given, skSealed, leg, legEpoch, retry, drain, rVars,
                   online, skWire, skFaults>>

\* _drain_sk_retry, started by any sign of life of the member: advertise the
\* chain at the last held index, then forward the held envelopes one by one.
DrainStarts ==
    /\ retry # <<>> /\ drain = NoDrain /\ online
    /\ Distributes(Last(retry))
    /\ drain' = [e |-> skEpoch["s"], job |-> 0]
    /\ UNCHANGED <<skEpoch, skNext, skSealed, leg, legEpoch, skLedger, retry, rVars, online>>
DrainTakes ==
    /\ drain # NoDrain /\ drain.job = 0
    /\ drain' = IF retry = <<>> \/ drain.e # skEpoch["s"] THEN NoDrain
                ELSE [drain EXCEPT !.job = Head(retry)]
    /\ UNCHANGED <<skEpoch, skNext, outVars, given, skSealed, leg, legEpoch, skLedger, retry, rVars,
                   online, skWire, skBack, skFaults>>
DrainForwards ==
    /\ drain.job # 0
    /\ Forwards(Envelope(drain.job, drain.e))
    /\ retry' = Tail(retry)
    /\ skLedger' = [skLedger EXCEPT ![drain.job] = "sent"]
    /\ drain' = [drain EXCEPT !.job = 0]
    /\ UNCHANGED <<skEpoch, skNext, outVars, given, skSealed, leg, legEpoch, rVars, online, skFaults>>
DrainBreaks ==
    /\ drain.job # 0 /\ Breaks /\ drain' = NoDrain
    /\ UNCHANGED <<skEpoch, skNext, outVars, given, skSealed, leg, legEpoch, skLedger, retry, rVars,
                   online, skWire, skBack>>

-----------------------------------------------------------------------------
(* The receiver.  r is its state: [chain, buffered, seen, cursor, shown] and *)
(* the acknowledgements it sends.                                            *)

\* _cache_skipped: the newest SkippedMax keys stay.
Cached(skipped, keys) == LET all == skipped \o keys IN
    SubSeq(all, IF Len(all) > SkippedMax THEN Len(all) - SkippedMax + 1 ELSE 1, Len(all))
\* The keys of the indexes i..j of a chain that stands at position pos.
KeysOf(c, i, j) == [k \in 1..(j - i + 1) |-> [i |-> i + k - 1,
                                              key |-> MessageKey(c.root, c.pos + k - 1, i + k - 1)]]

\* Mutant: a resumed chain is replayed from the root again.
InstallRestarts(c, index) ==
    IF index <= c.last THEN c
    ELSE [c EXCEPT !.skipped = Cached(@, KeysOf(c, c.last + 1, index)),
                   !.pos = index - c.last + 1, !.last = index]

\* ReceiverChain.install: replay up to the index the sender advertises and
\* cache what may still come late; a distribution that is behind is ignored.
Install(c, index) ==
    IF index <= c.last THEN c
    ELSE [c EXCEPT !.skipped = Cached(@, KeysOf(c, c.last + 1, index)),
                   !.pos = @ + index - c.last, !.last = index]

Cancelled(skipped, index) == SelectSeq(skipped, LAMBDA s : s.i # index)

\* Mutant: a key taken from the cache stays there.
MessageKeyForKeeps(c, index) ==
    LET late == {s \in ToSet(c.skipped) : s.i = index}
        gap == index - c.last - 1
    IN CASE late # {} -> [verdict |-> "key", key |-> (CHOOSE s \in late : TRUE).key, c |-> c]
         [] late = {} /\ index <= c.last -> [verdict |-> "replay", key |-> <<0, 0, 0>>, c |-> c]
         [] late = {} /\ index > c.last /\ gap > SkippedMax ->
              [verdict |-> "gap", key |-> <<0, 0, 0>>, c |-> c]
         [] OTHER -> [verdict |-> "key", key |-> MessageKey(c.root, c.pos + gap, index),
                      c |-> [c EXCEPT !.skipped = Cached(@, KeysOf(c, c.last + 1, index)),
                                      !.pos = @ + gap + 1, !.last = index]]

\* ReceiverChain.message_key_for: a cached key is handed out once, an old
\* index is a replay, a far one is refused, and a near one advances the chain.
MessageKeyFor(c, index) ==
    LET late == {s \in ToSet(c.skipped) : s.i = index}
        gap == index - c.last - 1
    IN CASE late # {} -> [verdict |-> "key", key |-> (CHOOSE s \in late : TRUE).key,
                          c |-> [c EXCEPT !.skipped = Cancelled(@, index)]]
         [] late = {} /\ index <= c.last -> [verdict |-> "replay", key |-> <<0, 0, 0>>, c |-> c]
         [] late = {} /\ index > c.last /\ gap > SkippedMax ->
              [verdict |-> "gap", key |-> <<0, 0, 0>>, c |-> c]
         [] OTHER -> [verdict |-> "key", key |-> MessageKey(c.root, c.pos + gap, index),
                      c |-> [c EXCEPT !.skipped = Cached(@, KeysOf(c, c.last + 1, index - 1)),
                                      !.pos = @ + gap + 1, !.last = index]]

\* _sk_buffer_pending: bounded, the oldest goes.
Buffer(r, p) == [r EXCEPT !.buffered =
    Append(IF Len(@) >= PendingMax THEN Tail(@) ELSE @, p)]

\* Mutant: a frame is acknowledged as soon as it opens.
HandleSkMessageAcksFirst(r, p, e) ==
    LET got == MessageKeyFor(r.chain, p.n)
        opened == [r EXCEPT !.chain = got.c, !.acks = Append(@, p.n), !.seen = @ \cup {p.n}]
    IN IF r.chain.e # e \/ r.chain.gen # p.gen \/ got.verdict # "key" \/ got.key # p.key THEN r
       ELSE IF p.n <= r.cursor THEN opened
       ELSE [opened EXCEPT !.cursor = p.n, !.shown = Append(@, p.n)]

\* _handle_sender_key_message under the epoch e.  Without a key the frame is
\* buffered and a key request goes out; requests travel as distributions and
\* are not answered.
HandleSkMessage(r, p, e) ==
    LET known == r.chain.e = e /\ r.chain.gen = p.gen
        got == MessageKeyFor(r.chain, p.n)
        used == [r EXCEPT !.chain = got.c]
    IN CASE ~known -> Buffer(r, p)
         [] known /\ got.verdict = "replay" -> r
         [] known /\ got.verdict = "gap" -> Buffer(r, p)
         [] known /\ got.verdict = "key" /\ (got.key # p.key \/ p.sealed # e) -> used
         [] known /\ got.verdict = "key" /\ got.key = p.key /\ p.sealed = e ->
              CASE p.n \in r.seen -> [used EXCEPT !.acks = Append(@, p.n)]
                [] p.n \notin r.seen /\ (p.n <= r.cursor \/ (r.cursor > 0 /\ p.n - r.cursor > SkGap)) ->
                     [used EXCEPT !.seen = @ \cup {p.n}]
                [] OTHER -> [used EXCEPT !.seen = @ \cup {p.n}, !.cursor = p.n,
                                         !.shown = Append(@, p.n), !.acks = Append(@, p.n)]

Receiver == [chain |-> chain, buffered |-> buffered, seen |-> skSeen, cursor |-> skCursor,
             shown |-> skShown, acks |-> <<>>]
Becomes(r) ==
    /\ chain' = r.chain /\ buffered' = r.buffered /\ skSeen' = r.seen /\ skCursor' = r.cursor
    /\ skShown' = r.shown
    /\ skBack' = skBack \o [i \in DOMAIN r.acks |-> [k |-> "ack", n |-> r.acks[i]]]
SenderKept == UNCHANGED <<skEpoch, skNext, outVars, given, skSealed, leg, legEpoch, skLedger, retry,
                          drain, online, skFaults>>

OnSkMessage ==
    /\ skWire # <<>> /\ Head(skWire).k = "skmsg" /\ skWire' = Tail(skWire)
    /\ Becomes(HandleSkMessage(Receiver, Head(skWire), Head(skWire).e))
    /\ SenderKept

\* install_incoming: the chain of this generation is resumed, or replaced.
InstallIncoming(p) ==
    Install(IF chain.e = p.e /\ chain.gen = p.gen THEN chain
            ELSE [NoChain EXCEPT !.e = p.e, !.gen = p.gen, !.root = p.root, !.pos = 1], p.index)

\* _sk_flush_pending: the buffered frames are tried again under the epoch of
\* the record.
FlushPending(r, e) ==
    FoldLeft(LAMBDA q, b : HandleSkMessage(q, b, e), [r EXCEPT !.buffered = <<>>], r.buffered)

\* _handle_sender_key_distribution
OnDistribution ==
    /\ skWire # <<>> /\ Head(skWire).k = "sk" /\ skWire' = Tail(skWire)
    /\ LET p == Head(skWire)  e == skEpoch["r"] IN
         Becomes(IF p.e # e THEN Receiver
                 ELSE FlushPending([Receiver EXCEPT !.chain = InstallIncoming(p)], e))
    /\ SenderKept

-----------------------------------------------------------------------------
(* Epochs and sessions. *)

\* _on_record_state: chains of other epochs are dropped (prune_epoch) and the
\* sender forgets what it gave out.
SenderLeaps ==
    /\ skFaults.leap > 0 /\ skFaults' = [skFaults EXCEPT !.leap = @ - 1]
    /\ skEpoch' = [skEpoch EXCEPT !["s"] = @ + 1]
    /\ out' = NoOut /\ given' = Nothing
    /\ UNCHANGED <<skNext, roots, gens, skSealed, leg, legEpoch, skLedger, retry, drain, rVars, online,
                   skWire, skBack>>
ReceiverLeaps ==
    /\ skEpoch["r"] < skEpoch["s"] /\ skEpoch' = [skEpoch EXCEPT !["r"] = @ + 1]
    /\ chain' = IF chain.e # skEpoch["r"] + 1 THEN NoChain ELSE chain
    /\ UNCHANGED <<skNext, outVars, given, skSealed, leg, legEpoch, skLedger, retry, drain, buffered,
                   skSeen, skCursor, skShown, online, skWire, skBack, skFaults>>
ReceiverAway ==
    /\ online /\ skFaults.away > 0 /\ skFaults' = [skFaults EXCEPT !.away = @ - 1]
    /\ online' = FALSE /\ skWire' = <<>>
    /\ UNCHANGED <<skEpoch, skNext, outVars, given, skSealed, leg, legEpoch, skLedger, retry, drain,
                   rVars, skBack>>
ReceiverBack ==
    /\ ~online /\ online' = TRUE
    /\ UNCHANGED <<skEpoch, skNext, outVars, given, skSealed, leg, legEpoch, skLedger, retry, drain,
                   rVars, skWire, skBack, skFaults>>

SenderKeysSystem ==
    \/ \E n \in SkMsgs : LegLinked(n) \/ LegUnlinked(n) \/ LegForwards(n)
    \/ OnOffline \/ OnGack \/ DrainStarts \/ DrainTakes \/ DrainForwards
    \/ OnSkMessage \/ OnDistribution \/ ReceiverLeaps \/ ReceiverBack
SenderKeysNext == SenderKeysSystem \/ (\E n \in SkMsgs : LegBreaks(n)) \/ DrainBreaks \/ SendSenderKey \/ SenderLeaps \/ ReceiverAway
SenderKeysSpec == SenderKeysInit /\ [][SenderKeysNext]_skvars

-----------------------------------------------------------------------------
(* Properties. *)

\* Sender and receiver stand at the position of the index they label a key
\* with, whatever was skipped, resumed or started late, so two members that
\* hold the same root derive the same key for the same message
\* (senderkeys.py OutgoingChain, ReceiverChain.install, message_key_for).
RatchetsInStep ==
    /\ out # NoOut => out.pos = out.next
    /\ chain # NoChain =>
         /\ chain.pos = chain.last + 1
         /\ \A s \in ToSet(chain.skipped) : s.key = MessageKey(chain.root, s.i, s.i)

\* No two messages are sealed under the same key, a key that has opened a
\* message is gone from the receiver, and what is rendered is in order and
\* without repetition, although envelopes are resent verbatim
\* (senderkeys.py seal, message_key_for; service.py _drain_sk_retry).
KeysSpentOnce ==
    /\ \A m, n \in SkMsgs : m # n /\ skSealed[m] # NoSeal => skSealed[m].key # skSealed[n].key
    /\ \A s \in ToSet(chain.skipped) : skSealed[s.i].key = s.key => s.i \notin skSeen
    /\ \A i, j \in DOMAIN skShown : i < j => skShown[i] < skShown[j]

\* A sent message that is shown as DELIVERED was rendered by the receiver:
\* unlike the mesh path, an acknowledgement always follows the rendering
\* (service.py _handle_sender_key_message, _apply_gack).
SkDeliveredWasShown ==
    \A n \in SkMsgs : skLedger[n] = "delivered" => n \in ToSet(skShown)

\* Sender and receiver derive the same message keys, each key is spent once,
\* and DELIVERED means rendered (senderkeys.py, service.py).
SenderKeysSafe == RatchetsInStep /\ KeysSpentOnce /\ SkDeliveredWasShown

\* "start_index pins the chain's first message index so a fresh per-epoch
\* chain stays aligned with the persistent transcript counter"
\* (senderkeys.py ensure_outgoing): the chain seals the next message.
ChainAligned == out # NoOut => out.next = skNext
=============================================================================
