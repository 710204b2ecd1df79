----------------------------- MODULE TokenBucket -----------------------------
(***************************************************************************)
(* TokenBucket of src/src/data/token_bucket.py, shared by the threads that *)
(* call a broker or a loader.  Tokens are counted in parts, Unit to the    *)
(* token, so that a rate below one token per tick is a whole number.       *)
(***************************************************************************)
EXTENDS Integers

CONSTANTS Threads,
          Unit, Rate,       \* parts per token, parts refilled per tick
          Burst,            \* the capacity asked for, in parts
          MaxCalls,         \* acquisitions of one thread
          MaxIdle,          \* ticks that may pass with nobody asleep
          MaxDelay,         \* ticks by which the scheduler oversleeps
          MaxTime           \* end of the clock, never reached by a sleeper

ASSUME BucketAssumption ==
    /\ Unit \in Nat \ {0} /\ Rate \in Nat \ {0} /\ Burst \in Nat \ {0}
    /\ MaxCalls \in Nat /\ MaxIdle \in Nat /\ MaxDelay \in Nat /\ MaxTime \in Nat

VARIABLES tokens, last,     \* _tokens, _last_refill
          now,              \* time.monotonic()
          pc, wake,         \* what each thread does, when its sleep ends
          calls

\* History: tokens granted so far, and those granted before each instant.
VARIABLES granted, before

clock == <<now, before>>
bucketVars == <<tokens, last, clock, pc, wake, calls, granted>>

-----------------------------------------------------------------------------
\* Mutant: the capacity is left below one token when the rate is.
Capacity_NoFloor == Burst

\* The capacity is floored at one token.
Capacity == IF Burst < Unit THEN Unit ELSE Burst

\* Mutant: the bucket is not capped.
Refilled_Uncapped == tokens + (now - last) * Rate

\* _refill_locked.
Refilled ==
    IF tokens + (now - last) * Rate > Capacity THEN Capacity
    ELSE tokens + (now - last) * Rate

\* time.sleep is given a float: it may end a rounding error early, and the
\* missing part of a token is then waited for again.
Delays == LET missing == Unit - Refilled
          IN  {missing \div Rate, (missing + Rate - 1) \div Rate}

-----------------------------------------------------------------------------
Call(t) ==
    /\ pc[t] = "idle" /\ calls[t] < MaxCalls
    /\ calls' = [calls EXCEPT ![t] = @ + 1]
    /\ pc' = [pc EXCEPT ![t] = "trying"]
    /\ UNCHANGED <<tokens, last, clock, wake, granted>>

Ready(t) == pc[t] = "trying" \/ (pc[t] = "asleep" /\ now >= wake[t])

\* Mutant: the thread that has slept takes its token without looking again.
Take_AfterSleep(t) ==
    /\ Ready(t)
    /\ Refilled >= Unit \/ pc[t] = "asleep"
    /\ tokens' = IF Refilled >= Unit THEN Refilled - Unit ELSE 0
    /\ last' = now
    /\ granted' = granted + 1
    /\ pc' = [pc EXCEPT ![t] = "idle"]
    /\ UNCHANGED <<clock, wake, calls>>

\* Under the lock: refill, then take a token if there is one.
Take(t) ==
    /\ Ready(t) /\ Refilled >= Unit
    /\ tokens' = Refilled - Unit /\ last' = now
    /\ granted' = granted + 1
    /\ pc' = [pc EXCEPT ![t] = "idle"]
    /\ UNCHANGED <<clock, wake, calls>>

\* Or compute the delay, release the lock and sleep: others may take the token.
Sleep(t) ==
    /\ Ready(t) /\ Refilled < Unit
    /\ tokens' = Refilled /\ last' = now
    /\ \E d \in Delays : wake' = [wake EXCEPT ![t] = now + d]
    /\ pc' = [pc EXCEPT ![t] = "asleep"]
    /\ UNCHANGED <<clock, calls, granted>>

\* acquire_nowait that finds nothing raises RateLimitError; wait_time and
\* tokens_available only refill.
GiveUp(t) ==
    /\ pc[t] = "trying" /\ Refilled < Unit
    /\ tokens' = Refilled /\ last' = now
    /\ pc' = [pc EXCEPT ![t] = "idle"]
    /\ UNCHANGED <<clock, wake, calls, granted>>

Peek ==
    /\ last # now
    /\ tokens' = Refilled /\ last' = now
    /\ UNCHANGED <<clock, pc, wake, calls, granted>>

Tick ==
    /\ now < MaxTime
    /\ now < MaxIdle \/ \E t \in Threads : pc[t] = "asleep"
    /\ \A t \in Threads : pc[t] = "asleep" => now < wake[t] + MaxDelay
    /\ now' = now + 1
    /\ before' = [s \in 0..(now + 1) |-> IF s = now + 1 THEN granted ELSE before[s]]
    /\ UNCHANGED <<tokens, last, pc, wake, calls, granted>>

-----------------------------------------------------------------------------
BucketInit ==
    /\ tokens = Capacity /\ last = 0 /\ now = 0
    /\ pc = [t \in Threads |-> "idle"] /\ wake = [t \in Threads |-> 0]
    /\ calls = [t \in Threads |-> 0]
    /\ granted = 0 /\ before = [s \in 0..0 |-> 0]

Acquire(t) == Take(t) \/ Sleep(t)

BucketNext == Peek \/ Tick \/ \E t \in Threads : Call(t) \/ Acquire(t) \/ GiveUp(t)

\* A thread that is awake gets the lock, and time passes.
BucketSpec ==
    /\ BucketInit /\ [][BucketNext]_bucketVars
    /\ WF_bucketVars(Tick) /\ \A t \in Threads : WF_bucketVars(Acquire(t))

-----------------------------------------------------------------------------
BucketTypeOK ==
    /\ tokens \in Nat /\ tokens <= Capacity
    /\ now \in Nat /\ last \in 0..now
    /\ pc \in [Threads -> {"idle", "trying", "asleep"}]
    /\ wake \in [Threads -> Nat] /\ calls \in [Threads -> Nat]
    /\ granted \in Nat /\ before \in [0..now -> Nat]

\* In any stretch of time, however the threads interleave, the bucket grants at
\* most a full burst and what the rate refills meanwhile.
RateBounded ==
    \A s \in 0..now : Unit * (granted - before[s]) <= Capacity + Rate * (now - s)

\* The inductive strengthening: what has been granted since s, with what is left
\* in the bucket, was there at s or has been refilled.
BudgetInv ==
    \A s \in 0..now :
        IF s <= last THEN Unit * (granted - before[s]) + tokens <= Capacity + Rate * (last - s)
        ELSE granted = before[s]

\* A thread that waits gets its token, unless other threads drain the bucket for
\* ever: nobody sleeps on a bucket that cannot fill up to a token.
AcquireReturns == \A t \in Threads : pc[t] = "asleep" ~> pc[t] = "idle"
=============================================================================
