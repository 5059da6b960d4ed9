---------------------------- MODULE RateLimiter ----------------------------
(***************************************************************************)
(* RateLimiterService for one key ("IP:action"): isAllowed, called by      *)
(* concurrent request threads, and cleanupIdleBuckets on the scheduler's   *)
(* thread.  Keys do not interact.  The bucket's own methods are            *)
(* synchronized, hence atomic; looking the bucket up and consuming from it *)
(* are two steps, and so are the sweep's test and its removal.             *)
(*                                                                         *)
(* Time is counted in ticks, and tokens in units of which one is refilled  *)
(* per tick: a token is Cost units.  For create-room (5 tokens, 5 per      *)
(* hour) and a tick of 6 minutes, Cost = 2, Burst = 5 and Idle = 5.        *)
(***************************************************************************)
EXTENDS Naturals

CONSTANTS
    Thread,     \* request threads
    Bucket,     \* identities of TokenBucket objects on the heap
    Burst,      \* maxTokens
    Cost,       \* ticks in which one token is refilled
    Idle,       \* ticks after which an unused bucket may be removed
    MaxTime,    \* a bound of the model: the clock stops there
    NoBucket    \* null

ASSUME LimiterAssumption ==
    /\ Burst \in Nat \ {0} /\ Cost \in Nat \ {0}
    /\ Idle \in Nat /\ MaxTime \in Nat
    /\ NoBucket \notin Bucket

Capacity == Burst * Cost

VARIABLES
    now,              \* Instant.now()
    limiters,         \* the map's entry of the key, NoBucket when absent
    tokens,           \* TokenBucket.tokens, in units
    lastRefillTime,   \* TokenBucket.lastRefillTime
    lastAccessed,     \* TokenBucket.lastAccessed
    held,             \* the bucket each thread has looked up
    swept,            \* the bucket the sweep has found idle
    made,             \* history: the buckets that were constructed
    born,             \* history: when they were
    spent,            \* history: units consumed from each bucket
    answer            \* history: the bucket's last answer

vars == <<now, limiters, tokens, lastRefillTime, lastAccessed, held, swept,
          made, born, spent, answer>>

Least(a, b) == IF a <= b THEN a ELSE b

(* Mutant: refill() has lost its Math.min.                                 *)
Refilled_NoCap(b) == tokens[b] + (now - lastRefillTime[b])

(* refill(): what the bucket holds after the time since the last refill.   *)
Refilled(b) == Least(Capacity, tokens[b] + (now - lastRefillTime[b]))

-----------------------------------------------------------------------------
Init ==
    /\ now = 0
    /\ limiters = NoBucket
    /\ tokens = [b \in Bucket |-> Capacity]
    /\ lastRefillTime = [b \in Bucket |-> 0]
    /\ lastAccessed = [b \in Bucket |-> 0]
    /\ held = [t \in Thread |-> NoBucket]
    /\ swept = NoBucket
    /\ made = {}
    /\ born = [b \in Bucket |-> 0]
    /\ spent = [b \in Bucket |-> 0]
    /\ answer = [b \in Bucket |-> "none"]

(* isAllowed, first half: computeIfAbsent finds the bucket ...             *)
Lookup(t) ==
    /\ held[t] = NoBucket /\ limiters # NoBucket
    /\ held' = [held EXCEPT ![t] = limiters]
    /\ UNCHANGED <<now, limiters, tokens, lastRefillTime, lastAccessed, swept,
                   made, born, spent, answer>>

(* ... or constructs one, full.                                            *)
Construct(t) ==
    /\ held[t] = NoBucket /\ limiters = NoBucket
    /\ \E b \in Bucket \ made :
          /\ limiters' = b
          /\ tokens' = [tokens EXCEPT ![b] = Capacity]
          /\ lastRefillTime' = [lastRefillTime EXCEPT ![b] = now]
          /\ lastAccessed' = [lastAccessed EXCEPT ![b] = now]
          /\ held' = [held EXCEPT ![t] = b]
          /\ made' = made \cup {b}
          /\ born' = [born EXCEPT ![b] = now]
    /\ UNCHANGED <<now, swept, spent, answer>>

(* Mutant: a refused call adds the refill but does not move the time.      *)
Consume_KeepRefillTime(t) ==
    /\ held[t] # NoBucket
    /\ LET b == held[t]
           level == Refilled(b)
           allowed == level >= Cost
       IN  /\ lastAccessed' = [lastAccessed EXCEPT ![b] = now]
           /\ lastRefillTime' = [lastRefillTime EXCEPT ![b] =
                                   IF allowed THEN now ELSE @]
           /\ tokens' = [tokens EXCEPT ![b] =
                           IF allowed THEN level - Cost ELSE level]
           /\ spent' = [spent EXCEPT ![b] = IF allowed THEN @ + Cost ELSE @]
           /\ answer' = [answer EXCEPT ![b] =
                           IF allowed THEN "allowed" ELSE "refused"]
    /\ held' = [held EXCEPT ![t] = NoBucket]
    /\ UNCHANGED <<now, limiters, swept, made, born>>

(* Mutant: a refused call moves the time but does not add the refill.      *)
Consume_RefusalLosesRefill(t) ==
    /\ held[t] # NoBucket
    /\ LET b == held[t]
           level == Refilled(b)
           allowed == level >= Cost
       IN  /\ lastAccessed' = [lastAccessed EXCEPT ![b] = now]
           /\ lastRefillTime' = [lastRefillTime EXCEPT ![b] = now]
           /\ tokens' = [tokens EXCEPT ![b] =
                           IF allowed THEN level - Cost ELSE @]
           /\ spent' = [spent EXCEPT ![b] = IF allowed THEN @ + Cost ELSE @]
           /\ answer' = [answer EXCEPT ![b] =
                           IF allowed THEN "allowed" ELSE "refused"]
    /\ held' = [held EXCEPT ![t] = NoBucket]
    /\ UNCHANGED <<now, limiters, swept, made, born>>

(* isAllowed, second half: tryConsume of the bucket looked up before.      *)
Consume(t) ==
    /\ held[t] # NoBucket
    /\ LET b == held[t]
           level == Refilled(b)
           allowed == level >= Cost
       IN  /\ lastAccessed' = [lastAccessed EXCEPT ![b] = now]
           /\ lastRefillTime' = [lastRefillTime EXCEPT ![b] = now]
           /\ tokens' = [tokens EXCEPT ![b] =
                           IF allowed THEN level - Cost ELSE level]
           /\ spent' = [spent EXCEPT ![b] = IF allowed THEN @ + Cost ELSE @]
           /\ answer' = [answer EXCEPT ![b] =
                           IF allowed THEN "allowed" ELSE "refused"]
    /\ held' = [held EXCEPT ![t] = NoBucket]
    /\ UNCHANGED <<now, limiters, swept, made, born>>

(* Mutant: the test of the idle time is off by one.                        *)
CleanupVisit_OffByOne ==
    /\ swept = NoBucket /\ limiters # NoBucket
    /\ lastAccessed[limiters] + Idle <= now
    /\ swept' = limiters
    /\ UNCHANGED <<now, limiters, tokens, lastRefillTime, lastAccessed, held,
                   made, born, spent, answer>>

(* cleanupIdleBuckets: the test of removeIf reads lastAccessed ...         *)
CleanupVisit ==
    /\ swept = NoBucket /\ limiters # NoBucket
    /\ lastAccessed[limiters] + Idle < now
    /\ swept' = limiters
    /\ UNCHANGED <<now, limiters, tokens, lastRefillTime, lastAccessed, held,
                   made, born, spent, answer>>

(* ... and the entry is removed if it still holds the bucket tested,       *)
(* accessed in the meantime or not.                                        *)
CleanupRemove ==
    /\ swept # NoBucket
    /\ limiters' = IF limiters = swept THEN NoBucket ELSE limiters
    /\ swept' = NoBucket
    /\ UNCHANGED <<now, tokens, lastRefillTime, lastAccessed, held, made, born,
                   spent, answer>>

Tick ==
    /\ now < MaxTime
    /\ now' = now + 1
    /\ UNCHANGED <<limiters, tokens, lastRefillTime, lastAccessed, held, swept,
                   made, born, spent, answer>>

Next ==
    \/ \E t \in Thread : Lookup(t) \/ Construct(t) \/ Consume(t)
    \/ CleanupVisit \/ CleanupRemove
    \/ Tick

Spec == Init /\ [][Next]_vars

-----------------------------------------------------------------------------
(* Every variable has its type, and a bucket never holds more than its     *)
(* capacity.                                                               *)
TypeOK ==
    /\ now \in Nat
    /\ limiters \in Bucket \cup {NoBucket}
    /\ tokens \in [Bucket -> 0..Capacity]
    /\ lastRefillTime \in [Bucket -> Nat]
    /\ lastAccessed \in [Bucket -> Nat]
    /\ held \in [Thread -> Bucket \cup {NoBucket}]
    /\ swept \in Bucket \cup {NoBucket}
    /\ made \subseteq Bucket
    /\ born \in [Bucket -> Nat]
    /\ spent \in [Bucket -> Nat]
    /\ answer \in [Bucket -> {"none", "allowed", "refused"}]

(* What has ever been consumed from a bucket is covered by its capacity    *)
(* and the time since its construction: no sequence of calls, allowed or   *)
(* refused, makes refill() count the same time twice.  This is all that a  *)
(* bucket promises: in the first hour it allows up to twice its capacity.  *)
BucketBudget ==
    \A b \in made : spent[b] + tokens[b] <= Capacity + (now - born[b])

(* What handleCreateRoom says of its limit, "Max 5 rooms per IP per hour"  *)
(* and "You can only create 5 rooms per hour.": in the time in which an    *)
(* empty bucket is refilled, which is an hour for create-room, no more     *)
(* than the capacity is consumed from a new bucket.                        *)
HourlyLimit ==
    \A b \in made : now - born[b] < Capacity => spent[b] <= Capacity

(* A key gets a new, full bucket only if its old one had not been touched  *)
(* for the idle time at some moment before: constructions are that far     *)
(* apart, even when a call and the sweep meet on the same bucket.          *)
GenerationsApart ==
    \A a, b \in made : a # b => born[a] + Idle < born[b] \/ born[b] + Idle < born[a]

(* The lazy refill of the buckets is the steady rise of TokenBuckets.      *)
Steady == INSTANCE TokenBuckets
             WITH level <- [b \in Bucket |-> Refilled(b)]

(* Every bucket answers as an ideal token bucket does, on every schedule   *)
(* of calls: refusals cost nothing and lose no refill.                     *)
BucketsAreSteady == Steady!Spec
=============================================================================
