---------------------------- MODULE TokenBucket ----------------------------
(***************************************************************************)
(* The transport-level limiter of orchestrator/rate_limit.py: one token    *)
(* bucket per account, called by several threads.  allow() reads the       *)
(* monotonic clock first and takes the lock afterwards, so that threads    *)
(* may enter the locked section in another order than they read the clock. *)
(*                                                                         *)
(* Amounts are natural numbers, Unit of them to a token (the code has      *)
(* floats; their rounding is not modelled).                                *)
(***************************************************************************)
EXTENDS Integers

CONSTANTS
    Threads,
    Accounts,
    Unit,         \* what one submission takes
    Rate,         \* what one tick of the clock adds
    Capacity,     \* what a full bucket holds
    MaxCalls,     \* bound on the calls of a thread, for TLC
    MaxClock      \* bound on the clock, for TLC

ASSUME TokenBucketAssumption ==
    /\ Unit \in Nat \ {0} /\ Rate \in Nat \ {0}
    /\ Capacity \in Nat /\ Capacity >= Unit
    /\ MaxCalls \in Nat /\ MaxClock \in Nat

VARIABLES
    clock,        \* time.monotonic()
    call,         \* thread -> its call of allow(): account and clock reading
    calls,        \* thread -> how many calls it has made
    buckets,      \* _buckets: account -> amount
    updated,      \* _updated: account -> clock reading of the last refill
    from,         \* history: any moment, from which grants are counted
    granted,      \* history: account -> grants to calls made since then
    regress       \* history: account -> how far updated has gone back in all

dicts == <<buckets, updated>>
history == <<from, granted, regress>>
vars == <<clock, call, calls, dicts, history>>

Absent == -1
Idle == [account |-> "none", now |-> Absent]
Times == 0..MaxClock

TypeOK ==
    /\ clock \in Times
    /\ call \in [Threads -> [account : Accounts, now : Times] \union {Idle}]
    /\ calls \in [Threads -> 0..MaxCalls]
    /\ buckets \in [Accounts -> 0..Capacity \union {Absent}]
    /\ updated \in [Accounts -> Times \union {Absent}]
    /\ from \in Times
    /\ granted \in [Accounts -> Nat]
    /\ regress \in [Accounts -> Nat]

Init ==
    /\ clock = 0
    /\ call = [th \in Threads |-> Idle]
    /\ calls = [th \in Threads |-> 0]
    /\ buckets = [a \in Accounts |-> Absent]
    /\ updated = [a \in Accounts |-> Absent]
    /\ from \in Times
    /\ granted = [a \in Accounts |-> 0]
    /\ regress = [a \in Accounts |-> 0]

-----------------------------------------------------------------------------
(* dict.get() with its default: an account starts with a full bucket.      *)
Amount(a) == IF buckets[a] = Absent THEN Capacity ELSE buckets[a]

Last(a, now) == IF updated[a] = Absent THEN now ELSE updated[a]

(* A bucket is not capped.                                                 *)
RefilledUncapped(a, now) ==
    Amount(a) + Rate * (IF now > Last(a, now) THEN now - Last(a, now) ELSE 0)

(* What was in the bucket is lost when it is refilled.                     *)
RefilledFromNothing(a, now) ==
    LET elapsed == IF now > Last(a, now) THEN now - Last(a, now) ELSE 0
        amount == Rate * elapsed
    IN IF amount < Capacity THEN amount ELSE Capacity

(* _tokens(): never refilled for a negative time, nor above the capacity.  *)
Refilled(a, now) ==
    LET elapsed == IF now > Last(a, now) THEN now - Last(a, now) ELSE 0
        amount == Amount(a) + Rate * elapsed
    IN IF amount < Capacity THEN amount ELSE Capacity

(* Only the first refill is remembered.                                    *)
StampedOnce(a, now) == [updated EXCEPT ![a] = Last(a, now)]

Stamped(a, now) == [updated EXCEPT ![a] = now]

(* allow() is entered, and the clock is read.                              *)
ReadClock(th, a) ==
    /\ call[th] = Idle
    /\ calls[th] < MaxCalls
    /\ calls' = [calls EXCEPT ![th] = @ + 1]
    /\ call' = [call EXCEPT ![th] = [account |-> a, now |-> clock]]
    /\ UNCHANGED <<clock, dicts, history>>

(* The locked section: the bucket is refilled, and a token is taken if     *)
(* there is a whole one.                                                   *)
Allow(th) ==
    LET a == call[th].account
        now == call[th].now
        amount == Refilled(a, now)
        ok == amount >= Unit
    IN /\ call[th] # Idle
       /\ call' = [call EXCEPT ![th] = Idle]
       /\ buckets' = [buckets EXCEPT ![a] = IF ok THEN amount - Unit ELSE amount]
       /\ updated' = Stamped(a, now)
       /\ granted' = [granted EXCEPT ![a] = IF ok /\ now >= from THEN @ + 1 ELSE @]
       /\ regress' = [regress EXCEPT ![a] =
                        IF now < Last(a, now) THEN @ + (Last(a, now) - now) ELSE @]
       /\ UNCHANGED <<clock, calls, from>>

(* reset() of some accounts: of one, or of all of them.                    *)
Reset(as) ==
    /\ buckets' = [a \in Accounts |-> IF a \in as THEN Absent ELSE buckets[a]]
    /\ updated' = [a \in Accounts |-> IF a \in as THEN Absent ELSE updated[a]]
    /\ granted' = [a \in Accounts |-> IF a \in as THEN 0 ELSE granted[a]]
    /\ regress' = [a \in Accounts |-> IF a \in as THEN 0 ELSE regress[a]]
    /\ UNCHANGED <<clock, call, calls, from>>

Tick ==
    /\ clock < MaxClock
    /\ clock' = clock + 1
    /\ UNCHANGED <<call, calls, dicts, history>>

Next ==
    \/ \E th \in Threads, a \in Accounts : ReadClock(th, a)
    \/ \E th \in Threads : Allow(th)
    \/ \E as \in {{a} : a \in Accounts} \union {Accounts} : Reset(as)
    \/ Tick

Spec == Init /\ [][Next]_vars

-----------------------------------------------------------------------------
(* Between any moment and now, an account is granted at most a full bucket *)
(* and what the rate adds in that time, if its calls take the lock in the  *)
(* order in which they read the clock; every tick by which they do not     *)
(* adds at most one tick of the rate.                                      *)
GrantsBounded ==
    \A a \in Accounts : granted[a] > 0 =>
        Unit * granted[a] <= Capacity + Rate * (clock - from + regress[a])

(* An account loses tokens by its own grants only: it is not denied before *)
(* it has been granted a full bucket, whatever other accounts do.          *)
SpentByGrants ==
    from = 0 => \A a \in Accounts : Amount(a) + Unit * granted[a] >= Capacity

(* rate_limit.py: "thread-safe for concurrent submissions": the limit,     *)
(* without an allowance for calls that overtake each other.  It holds for  *)
(* one thread, and not for two.                                            *)
RateLimited ==
    \A a \in Accounts : granted[a] > 0 =>
        Unit * granted[a] <= Capacity + Rate * (clock - from)

=============================================================================
