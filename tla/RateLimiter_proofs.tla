------------------------- MODULE RateLimiter_proofs -------------------------
(***************************************************************************)
(* Proofs about RateLimiter, for any threads and buckets, any burst, cost  *)
(* and idle time, and without the bound on the clock being of any help.    *)
(***************************************************************************)
EXTENDS RateLimiter, TLAPS

LEMMA CapacityType == Capacity \in Nat \ {0} /\ Cost <= Capacity
BY LimiterAssumption DEF Capacity

(* A refilled bucket holds between what it held and its capacity.          *)
LEMMA RefilledBounds ==
    ASSUME NEW b \in Bucket, now \in Nat, tokens[b] \in 0..Capacity,
           lastRefillTime[b] \in Nat, lastRefillTime[b] <= now
    PROVE  /\ Refilled(b) \in 0..Capacity
           /\ Refilled(b) <= tokens[b] + (now - lastRefillTime[b])
BY CapacityType DEF Refilled, Least

(* The clock is never behind a time the buckets remember.                  *)
Times ==
    \A b \in Bucket : /\ lastRefillTime[b] <= now
                      /\ lastAccessed[b] <= now

TypeInv == TypeOK /\ Times

LEMMA InitType == Init => TypeInv
BY LimiterAssumption, CapacityType DEF Init, TypeInv, TypeOK, Times

LEMMA NextType == TypeInv /\ [Next]_vars => TypeInv'
<1> SUFFICES ASSUME TypeOK, Times, [Next]_vars PROVE TypeOK' /\ Times'
  BY DEF TypeInv
<1> USE LimiterAssumption, CapacityType
<1>1. ASSUME NEW t \in Thread, Lookup(t) PROVE TypeOK' /\ Times'
  BY <1>1 DEF Lookup, TypeOK, Times
<1>2. ASSUME NEW t \in Thread, Construct(t) PROVE TypeOK' /\ Times'
  <2>1. PICK b \in Bucket :
          /\ limiters' = b
          /\ tokens' = [tokens EXCEPT ![b] = Capacity]
          /\ lastRefillTime' = [lastRefillTime EXCEPT ![b] = now]
          /\ lastAccessed' = [lastAccessed EXCEPT ![b] = now]
          /\ held' = [held EXCEPT ![t] = b]
          /\ made' = made \cup {b}
          /\ born' = [born EXCEPT ![b] = now]
    BY <1>2 DEF Construct
  <2>2. UNCHANGED <<now, swept, spent, answer>>
    BY <1>2 DEF Construct
  <2>3. tokens' \in [Bucket -> 0..Capacity]
    BY <2>1 DEF TypeOK
  <2>4. /\ lastRefillTime' \in [Bucket -> Nat]
        /\ lastAccessed' \in [Bucket -> Nat]
        /\ born' \in [Bucket -> Nat]
    BY <2>1 DEF TypeOK
  <2>5. held' \in [Thread -> Bucket \cup {NoBucket}] /\ made' \subseteq Bucket
    BY <2>1 DEF TypeOK
  <2>6. TypeOK'
    BY <2>1, <2>2, <2>3, <2>4, <2>5 DEF TypeOK
  <2>7. Times'
    BY <2>1, <2>2 DEF TypeOK, Times
  <2> QED BY <2>6, <2>7
<1>3. ASSUME NEW t \in Thread, Consume(t) PROVE TypeOK' /\ Times'
  <2> DEFINE b == held[t]
             level == Refilled(b)
             allowed == level >= Cost
  <2>1. b \in Bucket
    BY <1>3 DEF Consume, TypeOK
  <2>2. level \in 0..Capacity
    BY <2>1, RefilledBounds DEF TypeOK, Times
  <2>3. /\ lastAccessed' = [lastAccessed EXCEPT ![b] = now]
        /\ lastRefillTime' = [lastRefillTime EXCEPT ![b] = now]
        /\ tokens' = [tokens EXCEPT ![b] =
                         IF allowed THEN level - Cost ELSE level]
        /\ spent' = [spent EXCEPT ![b] = IF allowed THEN @ + Cost ELSE @]
        /\ answer' = [answer EXCEPT ![b] =
                         IF allowed THEN "allowed" ELSE "refused"]
        /\ held' = [held EXCEPT ![t] = NoBucket]
        /\ UNCHANGED <<now, limiters, swept, made, born>>
    BY <1>3 DEF Consume
  <2> HIDE DEF b, level
  <2>4. tokens' \in [Bucket -> 0..Capacity]
    <3>1. (IF allowed THEN level - Cost ELSE level) \in 0..Capacity
      BY <2>2
    <3> QED BY <2>3, <3>1 DEF TypeOK
  <2>5. spent' \in [Bucket -> Nat]
    <3>0. spent[b] \in Nat /\ spent[b] + Cost \in Nat
      BY <2>1 DEF TypeOK
    <3>1. (IF allowed THEN spent[b] + Cost ELSE spent[b]) \in Nat
      <4> HIDE DEF allowed
      <4> QED BY <3>0
    <3>2. spent' = [spent EXCEPT ![b] =
                       IF allowed THEN spent[b] + Cost ELSE spent[b]]
      BY <2>3
    <3> HIDE DEF allowed
    <3> QED BY <3>1, <3>2 DEF TypeOK
  <2>6. answer' \in [Bucket -> {"none", "allowed", "refused"}]
    BY <2>3 DEF TypeOK
  <2>8. /\ lastRefillTime' \in [Bucket -> Nat]
        /\ lastAccessed' \in [Bucket -> Nat]
        /\ held' \in [Thread -> Bucket \cup {NoBucket}]
    BY <2>3 DEF TypeOK
  <2>9. TypeOK'
    BY <2>3, <2>4, <2>5, <2>6, <2>8 DEF TypeOK
  <2>10. Times'
    BY <2>3 DEF TypeOK, Times
  <2> QED BY <2>9, <2>10
<1>4. CASE CleanupVisit
  BY <1>4 DEF CleanupVisit, TypeOK, Times
<1>5. CASE CleanupRemove
  BY <1>5 DEF CleanupRemove, TypeOK, Times
<1>6. CASE Tick
  <2>1. now \in Nat /\ now' = now + 1
    BY <1>6 DEF Tick, TypeOK
  <2>2. TypeOK'
    BY <1>6, <2>1 DEF Tick, TypeOK
  <2>3. Times'
    BY <1>6, <2>1 DEF Tick, TypeOK, Times
  <2> QED BY <2>2, <2>3
<1>7. CASE UNCHANGED vars
  BY <1>7 DEF vars, TypeOK, Times
<1> QED BY <1>1, <1>2, <1>3, <1>4, <1>5, <1>6, <1>7 DEF Next

(* Type correctness; a bucket never holds more than its capacity nor less  *)
(* than nothing.                                                           *)
THEOREM TypeCorrect == Spec => []TypeOK
<1>1. TypeInv => TypeOK
  BY DEF TypeInv
<1> QED BY <1>1, InitType, NextType, PTL DEF Spec

-----------------------------------------------------------------------------
(* The budget.  BucketBudget alone is not inductive, because a refill      *)
(* counts from lastRefillTime: the budget holds up to that moment.         *)
BudgetInv ==
    /\ held \in [Thread -> made \cup {NoBucket}]
    /\ limiters \in made \cup {NoBucket}
    /\ \A b \in Bucket \ made : spent[b] = 0 /\ tokens[b] = Capacity
    /\ \A b \in made :
          /\ born[b] <= lastRefillTime[b]
          /\ spent[b] + tokens[b] <= Capacity + (lastRefillTime[b] - born[b])

LEMMA BudgetInit == Init => BudgetInv
BY DEF Init, BudgetInv

LEMMA BudgetNext == TypeInv /\ BudgetInv /\ [Next]_vars => BudgetInv'
<1> SUFFICES ASSUME TypeOK, Times, BudgetInv, [Next]_vars PROVE BudgetInv'
  BY DEF TypeInv
<1> USE LimiterAssumption, CapacityType
<1>1. ASSUME NEW t \in Thread, Lookup(t) PROVE BudgetInv'
  BY <1>1 DEF Lookup, BudgetInv
<1>2. ASSUME NEW t \in Thread, Construct(t) PROVE BudgetInv'
  <2>1. PICK b \in Bucket \ made :
          /\ limiters' = b
          /\ tokens' = [tokens EXCEPT ![b] = Capacity]
          /\ lastRefillTime' = [lastRefillTime EXCEPT ![b] = now]
          /\ held' = [held EXCEPT ![t] = b]
          /\ made' = made \cup {b}
          /\ born' = [born EXCEPT ![b] = now]
    BY <1>2 DEF Construct
  <2>2. spent' = spent /\ spent[b] = 0
    BY <1>2, <2>1 DEF Construct, BudgetInv
  <2>3. ASSUME NEW c \in made'
        PROVE  /\ born'[c] <= lastRefillTime'[c]
               /\ spent'[c] + tokens'[c] <=
                     Capacity + (lastRefillTime'[c] - born'[c])
    <3>1. CASE c = b
      <4>1. /\ born'[b] = now /\ lastRefillTime'[b] = now
            /\ tokens'[b] = Capacity
        BY <2>1 DEF TypeOK
      <4> QED BY <3>1, <4>1, <2>2 DEF TypeOK
    <3>2. CASE c # b
      <4>1. c \in made
        BY <2>1, <2>3, <3>2
      <4>2. /\ born'[c] = born[c] /\ lastRefillTime'[c] = lastRefillTime[c]
            /\ tokens'[c] = tokens[c]
        BY <2>1, <3>2, <4>1 DEF TypeOK
      <4> QED BY <4>1, <4>2, <2>2 DEF BudgetInv
    <3> QED BY <3>1, <3>2
  <2>4. held' \in [Thread -> made' \cup {NoBucket}]
        /\ limiters' \in made' \cup {NoBucket}
    BY <2>1 DEF BudgetInv
  <2>5. \A c \in Bucket \ made' : spent'[c] = 0 /\ tokens'[c] = Capacity
    BY <2>1, <2>2 DEF BudgetInv, TypeOK
  <2> QED BY <2>3, <2>4, <2>5 DEF BudgetInv
<1>3. ASSUME NEW t \in Thread, Consume(t) PROVE BudgetInv'
  <2> DEFINE b == held[t]
             level == Refilled(b)
             allowed == level >= Cost
  <2>1. b \in made /\ b \in Bucket
    BY <1>3 DEF Consume, TypeOK, BudgetInv
  <2>2. level \in 0..Capacity /\ level <= tokens[b] + (now - lastRefillTime[b])
    BY <2>1, RefilledBounds DEF TypeOK, Times
  <2>3. /\ lastRefillTime' = [lastRefillTime EXCEPT ![b] = now]
        /\ tokens' = [tokens EXCEPT ![b] =
                         IF allowed THEN level - Cost ELSE level]
        /\ spent' = [spent EXCEPT ![b] = IF allowed THEN @ + Cost ELSE @]
        /\ held' = [held EXCEPT ![t] = NoBucket]
        /\ UNCHANGED <<now, limiters, made, born>>
    BY <1>3 DEF Consume
  <2> HIDE DEF b, level
  <2>4. /\ lastRefillTime'[b] = now
        /\ tokens'[b] = IF allowed THEN level - Cost ELSE level
        /\ spent'[b] = IF allowed THEN spent[b] + Cost ELSE spent[b]
    BY <2>1, <2>3 DEF TypeOK
  <2>5. spent'[b] + tokens'[b] = spent[b] + level
    BY <2>1, <2>2, <2>4 DEF TypeOK
  <2>6. spent'[b] + tokens'[b] <= Capacity + (lastRefillTime'[b] - born'[b])
    <3>1. spent[b] + tokens[b] <= Capacity + (lastRefillTime[b] - born[b])
      BY <2>1 DEF BudgetInv
    <3>2. /\ spent[b] \in Nat /\ tokens[b] \in Nat /\ born[b] \in Nat
          /\ lastRefillTime[b] \in Nat /\ now \in Nat /\ level \in Nat
      BY <2>1, <2>2 DEF TypeOK
    <3>3. born' = born
      BY <2>3
    <3> QED BY <2>2, <2>4, <2>5, <3>1, <3>2, <3>3
  <2>7. ASSUME NEW c \in made'
        PROVE  /\ born'[c] <= lastRefillTime'[c]
               /\ spent'[c] + tokens'[c] <=
                     Capacity + (lastRefillTime'[c] - born'[c])
    <3>1. CASE c = b
      <4>1. born[b] <= lastRefillTime[b] /\ lastRefillTime[b] <= now
        BY <2>1 DEF BudgetInv, Times
      <4>2. /\ born[b] \in Nat /\ lastRefillTime[b] \in Nat /\ now \in Nat
        BY <2>1 DEF TypeOK
      <4> QED BY <3>1, <4>1, <4>2, <2>3, <2>4, <2>6
    <3>2. CASE c # b
      <4>1. c \in made /\ c \in Bucket
        BY <2>3, <2>7 DEF TypeOK
      <4>2. /\ born'[c] = born[c] /\ lastRefillTime'[c] = lastRefillTime[c]
            /\ tokens'[c] = tokens[c] /\ spent'[c] = spent[c]
        BY <2>3, <3>2, <4>1 DEF TypeOK
      <4> QED BY <4>1, <4>2 DEF BudgetInv
    <3> QED BY <3>1, <3>2
  <2>8. held' \in [Thread -> made' \cup {NoBucket}]
        /\ limiters' \in made' \cup {NoBucket}
    BY <2>3 DEF BudgetInv
  <2>9. \A c \in Bucket \ made' : spent'[c] = 0 /\ tokens'[c] = Capacity
    BY <2>1, <2>3 DEF BudgetInv, TypeOK
  <2> QED BY <2>7, <2>8, <2>9 DEF BudgetInv
<1>4. CASE CleanupVisit
  BY <1>4 DEF CleanupVisit, BudgetInv
<1>5. CASE CleanupRemove
  BY <1>5 DEF CleanupRemove, BudgetInv
<1>6. CASE Tick
  BY <1>6 DEF Tick, BudgetInv
<1>7. CASE UNCHANGED vars
  BY <1>7 DEF vars, BudgetInv
<1> QED BY <1>1, <1>2, <1>3, <1>4, <1>5, <1>6, <1>7 DEF Next

(* No schedule of calls gets more out of a bucket than its capacity and    *)
(* one unit per tick since its construction.                               *)
THEOREM BudgetKept == Spec => []BucketBudget
<1>1. TypeInv /\ BudgetInv => BucketBudget
  BY CapacityType DEF TypeInv, TypeOK, Times, BudgetInv, BucketBudget
<1> QED
  BY <1>1, InitType, NextType, BudgetInit, BudgetNext, PTL DEF Spec

-----------------------------------------------------------------------------
(* The generations.  A bucket that the map has given up, or that the sweep *)
(* is about to remove, was constructed more than Idle ago.                 *)
Old(b, time) == born[b] + Idle < time

GenerationInv ==
    /\ limiters \in made \cup {NoBucket}
    /\ \A b \in made : born[b] <= lastAccessed[b]
    /\ swept # NoBucket => swept \in made /\ Old(swept, now)
    /\ \A b \in made : b # limiters =>
          Old(b, IF limiters = NoBucket THEN now ELSE born[limiters])
    /\ GenerationsApart

LEMMA GenerationInit == Init => GenerationInv
BY DEF Init, GenerationInv, GenerationsApart

LEMMA GenerationNext == TypeInv /\ GenerationInv /\ [Next]_vars => GenerationInv'
<1> SUFFICES ASSUME TypeOK, Times, GenerationInv, [Next]_vars
             PROVE  GenerationInv'
  BY DEF TypeInv
<1> USE LimiterAssumption
<1>0. \A b \in made : b \in Bucket /\ born[b] \in Nat /\ lastAccessed[b] \in Nat
                      /\ born[b] <= now /\ b # NoBucket
  BY DEF TypeOK, Times, GenerationInv
<1>1. ASSUME NEW t \in Thread, Lookup(t) PROVE GenerationInv'
  BY <1>1 DEF Lookup, GenerationInv, GenerationsApart, Old
<1>2. ASSUME NEW t \in Thread, Construct(t) PROVE GenerationInv'
  <2>1. PICK b \in Bucket \ made :
          /\ limiters' = b
          /\ lastAccessed' = [lastAccessed EXCEPT ![b] = now]
          /\ made' = made \cup {b}
          /\ born' = [born EXCEPT ![b] = now]
    BY <1>2 DEF Construct
  <2>2. limiters = NoBucket /\ now' = now /\ swept' = swept /\ b # NoBucket
    BY <1>2, <2>1 DEF Construct
  <2>3. /\ born'[b] = now /\ lastAccessed'[b] = now
        /\ \A c \in made : born'[c] = born[c] /\ lastAccessed'[c] = lastAccessed[c]
    BY <1>0, <2>1 DEF TypeOK
  <2>4. \A c \in made : born'[c] + Idle < born'[b]
    BY <1>0, <2>2, <2>3 DEF GenerationInv, Old
  <2>5. GenerationsApart'
    BY <2>1, <2>3, <2>4 DEF GenerationInv, GenerationsApart
  <2>6. \A c \in made' : c # limiters' =>
           Old(c, IF limiters = NoBucket THEN now ELSE born[limiters])'
    BY <2>1, <2>2, <2>4 DEF Old
  <2>7. \A c \in made' : born'[c] <= lastAccessed'[c]
    BY <2>1, <2>3 DEF GenerationInv, TypeOK
  <2>8. swept' # NoBucket => swept' \in made' /\ Old(swept, now)'
    BY <2>1, <2>2, <2>3 DEF GenerationInv, Old
  <2> QED BY <2>1, <2>5, <2>6, <2>7, <2>8 DEF GenerationInv
<1>3. ASSUME NEW t \in Thread, Consume(t) PROVE GenerationInv'
  <2>1. /\ lastAccessed' = [lastAccessed EXCEPT ![held[t]] = now]
        /\ UNCHANGED <<now, limiters, swept, made, born>>
    BY <1>3 DEF Consume
  <2>2. \A b \in made : born'[b] <= lastAccessed'[b]
    BY <1>0, <2>1 DEF GenerationInv, TypeOK
  <2> QED BY <2>1, <2>2 DEF GenerationInv, GenerationsApart, Old
<1>4. CASE CleanupVisit
  <2>1. limiters \in made /\ lastAccessed[limiters] + Idle < now
    BY <1>4 DEF CleanupVisit, GenerationInv
  <2>2. Old(limiters, now)
    BY <1>0, <2>1 DEF GenerationInv, Old, TypeOK
  <2> QED BY <1>4, <2>1, <2>2 DEF CleanupVisit, GenerationInv, GenerationsApart, Old
<1>5. CASE CleanupRemove
  <2>1. CASE limiters = swept
    <3>1. Old(limiters, now) /\ limiters \in made
      BY <1>5, <2>1 DEF CleanupRemove, GenerationInv
    <3>2. ASSUME NEW b \in made PROVE Old(b, now)
      <4>1. CASE b = limiters
        BY <4>1, <3>1
      <4>2. CASE b # limiters
        <5>1. born[b] + Idle < born[limiters]
          BY <4>2, <3>1, <1>0 DEF GenerationInv, Old
        <5>2. /\ born[limiters] <= now /\ born[limiters] \in Nat
              /\ born[b] \in Nat /\ now \in Nat
          BY <3>1, <1>0 DEF TypeOK
        <5> QED BY <5>1, <5>2 DEF Old
      <4> QED BY <4>1, <4>2
    <3> QED BY <1>5, <2>1, <3>2
            DEF CleanupRemove, GenerationInv, GenerationsApart, Old
  <2>2. CASE limiters # swept
    BY <1>5, <2>2 DEF CleanupRemove, GenerationInv, GenerationsApart, Old
  <2> QED BY <2>1, <2>2
<1>6. CASE Tick
  <2>1. now \in Nat /\ now' = now + 1
        /\ UNCHANGED <<limiters, lastAccessed, swept, made, born>>
    BY <1>6 DEF Tick, TypeOK
  <2>2. \A b \in made : Old(b, now) => Old(b, now)'
    BY <1>0, <2>1 DEF Old
  <2>3. swept' # NoBucket => swept' \in made' /\ Old(swept, now)'
    BY <2>1, <2>2 DEF GenerationInv, Old
  <2>4. \A b \in made' : b # limiters' =>
           Old(b, IF limiters = NoBucket THEN now ELSE born[limiters])'
    BY <2>1, <2>2 DEF GenerationInv, Old
  <2> QED BY <2>1, <2>3, <2>4 DEF GenerationInv, GenerationsApart
<1>7. CASE UNCHANGED vars
  BY <1>7 DEF vars, GenerationInv, GenerationsApart, Old
<1> QED BY <1>1, <1>2, <1>3, <1>4, <1>5, <1>6, <1>7 DEF Next

(* However calls and the sweep interleave, a key is given a new full       *)
(* bucket at most once per idle time.                                      *)
THEOREM GenerationsKeptApart == Spec => []GenerationsApart
<1>1. GenerationInv => GenerationsApart
  BY DEF GenerationInv
<1> QED
  BY <1>1, InitType, NextType, GenerationInit, GenerationNext, PTL DEF Spec

-----------------------------------------------------------------------------
(* The refinement.  A step that moves neither the clock nor a bucket is a  *)
(* stutter of the ideal buckets.                                           *)
Level == [b \in Bucket |-> Refilled(b)]

LEMMA LevelFrame ==
    ASSUME UNCHANGED <<now, tokens, lastRefillTime>>
    PROVE  Level' = Level
BY DEF Level, Refilled, Least

LEMMA SteadyInit == Init => Steady!Init
BY CapacityType DEF Init, Steady!Init, Refilled, Least

LEMMA SteadyNext ==
    TypeInv /\ BudgetInv /\ [Next]_vars => [Steady!Next]_<<Level, answer>>
<1> SUFFICES ASSUME TypeOK, Times, BudgetInv, [Next]_vars
             PROVE  Steady!Next \/ UNCHANGED <<Level, answer>>
  BY DEF TypeInv
<1> USE LimiterAssumption, CapacityType
<1>1. ASSUME NEW t \in Thread, Lookup(t) PROVE UNCHANGED <<Level, answer>>
  BY <1>1, LevelFrame DEF Lookup
<1>2. ASSUME NEW t \in Thread, Construct(t) PROVE UNCHANGED <<Level, answer>>
  <2>1. PICK b \in Bucket \ made :
          /\ tokens' = [tokens EXCEPT ![b] = Capacity]
          /\ lastRefillTime' = [lastRefillTime EXCEPT ![b] = now]
    BY <1>2 DEF Construct
  <2>2. now' = now /\ answer' = answer
    BY <1>2 DEF Construct
  <2>3. ASSUME NEW c \in Bucket PROVE Refilled(c)' = Refilled(c)
    <3>1. CASE c = b
      <4>1. tokens[b] = Capacity /\ lastRefillTime[b] <= now
            /\ lastRefillTime[b] \in Nat /\ now \in Nat
        BY DEF BudgetInv, Times, TypeOK
      <4>2. tokens'[b] = Capacity /\ lastRefillTime'[b] = now
        BY <2>1 DEF TypeOK
      <4> QED BY <3>1, <4>1, <4>2, <2>2 DEF Refilled, Least
    <3>2. CASE c # b
      <4>1. tokens'[c] = tokens[c] /\ lastRefillTime'[c] = lastRefillTime[c]
        BY <2>1, <3>2 DEF TypeOK
      <4> QED BY <4>1, <2>2 DEF Refilled, Least
    <3> QED BY <3>1, <3>2
  <2> QED BY <2>2, <2>3 DEF Level
<1>3. ASSUME NEW t \in Thread, Consume(t) PROVE Steady!Next
  <2> DEFINE b == held[t]
             level == Refilled(b)
             allowed == level >= Cost
  <2>1. b \in made /\ b \in Bucket
    BY <1>3 DEF Consume, TypeOK, BudgetInv
  <2>2. level \in 0..Capacity
    BY <2>1, RefilledBounds DEF TypeOK, Times
  <2>3. /\ lastRefillTime' = [lastRefillTime EXCEPT ![b] = now]
        /\ tokens' = [tokens EXCEPT ![b] =
                         IF allowed THEN level - Cost ELSE level]
        /\ answer' = [answer EXCEPT ![b] =
                         IF allowed THEN "allowed" ELSE "refused"]
        /\ now' = now
    BY <1>3 DEF Consume
  <2>4. Level[b] = level
    BY <2>1 DEF Level
  <2>5. ASSUME NEW c \in Bucket, c # b PROVE Refilled(c)' = Refilled(c)
    <3> HIDE DEF b, level
    <3>1. tokens'[c] = tokens[c] /\ lastRefillTime'[c] = lastRefillTime[c]
      BY <2>3, <2>5 DEF TypeOK
    <3> QED BY <3>1, <2>3 DEF Refilled, Least
  <2> DEFINE left == IF allowed THEN level - Cost ELSE level
  <2>6. left \in 0..Capacity
    <3> HIDE DEF level
    <3> QED BY <2>2
  <2>7. Level' = [Level EXCEPT ![b] = left]
    <3> HIDE DEF b, left
    <3>1. tokens'[b] = left /\ lastRefillTime'[b] = now /\ now \in Nat
      BY <2>1, <2>3 DEF TypeOK, left
    <3>2. Least(Capacity, tokens'[b] + (now' - lastRefillTime'[b])) = left
      BY <2>3, <2>6, <3>1 DEF Least
    <3>3. \A c \in Bucket : Level'[c] = IF c = b THEN left ELSE Level[c]
      BY <2>5, <3>2 DEF Level, Refilled
    <3> QED BY <3>3, <2>1 DEF Level
  <2>8. CASE allowed
    <3>1. Steady!Allow(b)
      BY <2>2, <2>3, <2>4, <2>7, <2>8 DEF Steady!Allow, Level
    <3> QED BY <2>1, <3>1 DEF Steady!Next
  <2>9. CASE ~allowed
    <3>1. Level' = Level
      BY <2>4, <2>7, <2>9, <2>1 DEF Level
    <3>2. Steady!Refuse(b)
      BY <2>2, <2>3, <2>4, <3>1, <2>9 DEF Steady!Refuse, Level
    <3> QED BY <2>1, <3>2 DEF Steady!Next
  <2> QED BY <2>8, <2>9
<1>4. CASE CleanupVisit
  BY <1>4, LevelFrame DEF CleanupVisit
<1>5. CASE CleanupRemove
  BY <1>5, LevelFrame DEF CleanupRemove
<1>6. CASE Tick
  <2>1. /\ now' = now + 1 /\ now \in Nat
        /\ UNCHANGED <<tokens, lastRefillTime, answer>>
    BY <1>6 DEF Tick, TypeOK
  <2>2. ASSUME NEW b \in Bucket
        PROVE  Refilled(b)' = IF Refilled(b) < Capacity THEN Refilled(b) + 1
                              ELSE Refilled(b)
    <3>1. /\ tokens[b] \in 0..Capacity /\ lastRefillTime[b] \in Nat
          /\ lastRefillTime[b] <= now
      BY DEF TypeOK, Times
    <3> QED BY <2>1, <3>1 DEF Refilled, Least
  <2>3. Steady!Rise
    BY <2>1, <2>2 DEF Steady!Rise
  <2> QED BY <2>3 DEF Steady!Next
<1>7. CASE UNCHANGED vars
  BY <1>7, LevelFrame DEF vars
<1> QED BY <1>1, <1>2, <1>3, <1>4, <1>5, <1>6, <1>7 DEF Next

(* Lazy refilling is steady refilling: on every schedule of calls, sweeps  *)
(* and ticks each bucket allows and refuses as an ideal token bucket does. *)
THEOREM RefillIsSteady == Spec => BucketsAreSteady
<1>1. Init => TypeInv /\ BudgetInv
  BY InitType, BudgetInit
<1>2. TypeInv /\ BudgetInv /\ [Next]_vars => (TypeInv /\ BudgetInv)'
  BY NextType, BudgetNext
<1>3. [Steady!Next]_<<Level, answer>> =>
         [Steady!Next]_<<[b \in Bucket |-> Refilled(b)], answer>>
  BY DEF Level
<1> QED
  BY <1>1, <1>2, <1>3, SteadyInit, SteadyNext, PTL
     DEF Spec, BucketsAreSteady, Steady!Spec
=============================================================================
