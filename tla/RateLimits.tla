------------------------------ MODULE RateLimits ------------------------------
(***************************************************************************)
(* The portal's rate limiters (portal_server/ratelimit.py): the sliding    *)
(* window in memory, whose buckets are dropped oldest first beyond a bound,*)
(* and the fixed window in PostgreSQL, one upsert per call.  A caller      *)
(* reads the clock before it touches the counter, so callers of several    *)
(* threads or processes interleave between the two.                        *)
(***************************************************************************)
EXTENDS Naturals, Sequences, FiniteSets, SequencesExt

CONSTANTS
    Callers,    \* threads and processes that call allow()
    MemCallers, \* the callers that share the in-memory limiter
    LimitKeys,  \* scope:key strings
    Limit, Window, MaxBuckets,
    MaxRateTime,    \* bound on the clock
    MaxCalls    \* bound on the calls

ASSUME RateLimitsConstants ==
    /\ {Limit, Window, MaxBuckets} \subseteq Nat \ {0} /\ {MaxRateTime, MaxCalls} \subseteq Nat
    /\ MemCallers \subseteq Callers

VARIABLES
    limiter,  \* RATE_LIMIT_BACKEND
    rnow,     \* the clock
    buckets,  \* _buckets in insertion order: [key, times]
    counter,  \* rate_limit_counters: [key -> [start, count]]
    asking,   \* [caller -> the call in progress: key and clock reading]
    grants,   \* calls that returned True: [key, time, n]
    excused,  \* keys whose bucket was dropped, or whose window went back
    asked     \* calls so far

rlvars == <<limiter, rnow, buckets, counter, asking, grants, excused, asked>>

NoCall == [key |-> "none", time |-> 0, at |-> "idle"]

RateLimitsInit ==
    /\ limiter \in {"memory", "postgresql"} /\ rnow = 0 /\ buckets = <<>>
    /\ counter = [k \in LimitKeys |-> [start |-> 0, count |-> 0]]
    /\ asking = [c \in Callers |-> NoCall] /\ grants = {} /\ excused = {} /\ asked = 0

Held(k) == {i \in DOMAIN buckets : buckets[i].key = k}
Grant(k, t) == grants' = grants \cup {[key |-> k, time |-> t, n |-> Cardinality(grants)]}

\* Mutant: one call too many.
AdmitsOneMore(times) == Len(times) <= Limit
\* len(bucket) >= limit refuses.
Admits(times) == Len(times) < Limit

\* InMemoryRateLimiter.allow up to the comparison: the bucket is created when
\* it is missing, and entries older than the window leave it.
AllowChecks(c, k) ==
    /\ limiter = "memory" /\ c \in MemCallers /\ asking[c] = NoCall /\ asked < MaxCalls
    /\ LET known == IF Held(k) = {} THEN Append(buckets, [key |-> k, times |-> <<>>]) ELSE buckets
           i == CHOOSE j \in DOMAIN known : known[j].key = k
           kept == SelectSeq(known[i].times, LAMBDA t : rnow - t <= Window)
       IN /\ buckets' = [known EXCEPT ![i].times = kept]
          /\ asking' = IF Admits(kept) THEN [asking EXCEPT ![c] = [key |-> k, time |-> rnow, at |-> "append"]]
                                       ELSE asking
    /\ asked' = asked + 1 /\ UNCHANGED <<limiter, rnow, counter, grants, excused>>

\* _trim: beyond max_buckets, the oldest keys go until half are left.
Trimmed(b) == IF Len(b) <= MaxBuckets THEN b ELSE SubSeq(b, Len(b) - (MaxBuckets \div 2) + 1, Len(b))

\* The rest of allow: the timestamp, the trim, True.
AllowAppends(c) ==
    /\ asking[c].at = "append"
    /\ LET k == asking[c].key
           noted == [i \in DOMAIN buckets |-> IF buckets[i].key = k
                       THEN [buckets[i] EXCEPT !.times = Append(@, asking[c].time)] ELSE buckets[i]]
       IN /\ buckets' = Trimmed(noted)
          /\ excused' = excused \cup {j \in LimitKeys : Held(j) # {} /\ j \notin {buckets'[i].key : i \in DOMAIN buckets'}}
          /\ Grant(k, asking[c].time)
    /\ asking' = [asking EXCEPT ![c] = NoCall] /\ UNCHANGED <<limiter, rnow, counter, asked>>

\* PostgresRateLimiter.allow: the clock is read and the window computed.
AllowReads(c, k) ==
    /\ limiter = "postgresql" /\ asking[c] = NoCall /\ asked < MaxCalls
    /\ asking' = [asking EXCEPT ![c] = [key |-> k, time |-> rnow, at |-> "upsert"]]
    /\ asked' = asked + 1 /\ UNCHANGED <<limiter, rnow, buckets, counter, grants, excused>>

\* _window_start.
Start(t) == (t \div Window) * Window

\* Mutant: a refused call is not counted and a new window starts at zero.
CountedFromZero(row, start) == IF row.start = start THEN row.count + 1 ELSE 0
\* The CASE of the upsert.
Counted(row, start) == IF row.start = start THEN row.count + 1 ELSE 1

\* The upsert, and count <= limit.
AllowUpserts(c) ==
    /\ asking[c].at = "upsert"
    /\ LET k == asking[c].key
           start == Start(asking[c].time)
           n == Counted(counter[k], start)
       IN /\ counter' = [counter EXCEPT ![k] = [start |-> start, count |-> n]]
          /\ excused' = IF start < counter[k].start THEN excused \cup {k} ELSE excused
          /\ IF n <= Limit THEN Grant(k, asking[c].time) ELSE UNCHANGED grants
    /\ asking' = [asking EXCEPT ![c] = NoCall] /\ UNCHANGED <<limiter, rnow, buckets, asked>>

\* The store cannot be reached: RateLimitBackendError, answered with 503.
StoreFails(c) ==
    /\ asking[c].at = "upsert" /\ asking' = [asking EXCEPT ![c] = NoCall]
    /\ UNCHANGED <<limiter, rnow, buckets, counter, grants, excused, asked>>

LimitClock == rnow < MaxRateTime /\ rnow' = rnow + 1
              /\ UNCHANGED <<limiter, buckets, counter, asking, grants, excused, asked>>

RateLimitsNext ==
    \/ \E c \in Callers : AllowAppends(c) \/ AllowUpserts(c) \/ StoreFails(c)
    \/ \E c \in Callers, k \in LimitKeys : AllowChecks(c, k) \/ AllowReads(c, k)
    \/ LimitClock

RateLimitsSpec == RateLimitsInit /\ [][RateLimitsNext]_rlvars

-----------------------------------------------------------------------------
\* No key gets more than its limit: in any window of the in-memory limiter
\* while its bucket is kept, and in any fixed window of the shared one while
\* no delayed call brings an earlier window back; the bucket table stays
\* bounded (InMemoryRateLimiter.allow and _trim, PostgresRateLimiter.allow).
LimitsHold ==
    /\ Len(buckets) <= MaxBuckets + Cardinality(MemCallers)
    /\ \A k \in LimitKeys \ excused, t \in 0..MaxRateTime :
         Cardinality({g \in grants : g.key = k /\
             IF limiter = "memory" THEN g.time \in t..(t + Window) ELSE Start(g.time) = Start(t)}) <= Limit

\* The claim of docs/RATE_LIMITING.md for the shared limiter, without the
\* exception for calls that arrive late.
SharedLimitExact ==
    limiter = "postgresql" => \A k \in LimitKeys, t \in 0..MaxRateTime :
        Cardinality({g \in grants : g.key = k /\ Start(g.time) = Start(t)}) <= Limit
=============================================================================
