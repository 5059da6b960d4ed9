---------------------------- MODULE TokenBuckets ----------------------------
(***************************************************************************)
(* What the buckets of the rate limiter promise: levels that rise by one   *)
(* unit with every tick of a common clock, up to Capacity, and an answer   *)
(* that is "allowed" exactly when the level covers the Cost of a call.     *)
(***************************************************************************)
EXTENDS Naturals

CONSTANTS Bucket, Capacity, Cost

VARIABLES level, answer

Init ==
    /\ level = [b \in Bucket |-> Capacity]
    /\ answer = [b \in Bucket |-> "none"]

Rise ==
    /\ level' = [b \in Bucket |->
                    IF level[b] < Capacity THEN level[b] + 1 ELSE level[b]]
    /\ UNCHANGED answer

Allow(b) ==
    /\ level[b] >= Cost
    /\ level' = [level EXCEPT ![b] = @ - Cost]
    /\ answer' = [answer EXCEPT ![b] = "allowed"]

Refuse(b) ==
    /\ level[b] < Cost
    /\ answer' = [answer EXCEPT ![b] = "refused"]
    /\ UNCHANGED level

Next == Rise \/ \E b \in Bucket : Allow(b) \/ Refuse(b)

Spec == Init /\ [][Next]_<<level, answer>>
=============================================================================
