-------------------------- MODULE TokenBucketProofs --------------------------
(***************************************************************************)
(* Theorems about TokenBucket, for every rate, capacity, set of threads    *)
(* and set of accounts.                                                    *)
(***************************************************************************)
EXTENDS TokenBucket, TLAPS

(* The two dictionaries have the same keys.                                *)
SameKeys == \A a \in Accounts : buckets[a] = Absent <=> updated[a] = Absent

(* No reading of the clock is ahead of it.                                 *)
Readings ==
    /\ \A th \in Threads : call[th].now <= clock
    /\ \A a \in Accounts : updated[a] <= clock

TypeInv == TypeOK /\ SameKeys /\ Readings

-----------------------------------------------------------------------------
(* Arithmetic.                                                             *)
LEMMA Monotone ==
    ASSUME NEW r \in Nat, NEW x \in Int, NEW y \in Int, x <= y
    PROVE  r * x <= r * y
OBVIOUS

LEMMA Distribute ==
    ASSUME NEW r \in Nat, NEW x \in Int, NEW y \in Int
    PROVE  r * (x + y) = r * x + r * y
OBVIOUS

LEMMA Products ==
    ASSUME NEW r \in Nat, NEW x \in Int
    PROVE  r * x \in Int /\ (x \in Nat => r * x \in Nat)
OBVIOUS

-----------------------------------------------------------------------------
(* What a refill returns: between what was there, and that with what the   *)
(* rate adds.                                                              *)
LEMMA RefilledOK ==
    ASSUME TypeInv, NEW a \in Accounts, NEW now \in Times
    PROVE  /\ Refilled(a, now) \in 0..Capacity
           /\ Amount(a) \in 0..Capacity /\ Amount(a) <= Refilled(a, now)
           /\ now <= Last(a, now) => Refilled(a, now) = Amount(a)
           /\ now > Last(a, now) =>
                Refilled(a, now) <= Amount(a) + Rate * (now - Last(a, now))
<1> DEFINE elapsed == IF now > Last(a, now) THEN now - Last(a, now) ELSE 0
<1>1. Amount(a) \in 0..Capacity
  BY TokenBucketAssumption DEF Amount, TypeInv, TypeOK, Absent
<1>2. Last(a, now) \in Times
  BY DEF Last, TypeInv, TypeOK
<1>3. elapsed \in Nat /\ (now <= Last(a, now) => elapsed = 0)
  BY <1>2, TokenBucketAssumption DEF Times
<1> HIDE DEF elapsed
<1>4. Rate * elapsed \in Nat /\ (elapsed = 0 => Rate * elapsed = 0)
  BY <1>3, Products, TokenBucketAssumption
<1>5. Refilled(a, now) = IF Amount(a) + Rate * elapsed < Capacity
                         THEN Amount(a) + Rate * elapsed ELSE Capacity
  BY DEF Refilled, elapsed
<1>6. /\ Refilled(a, now) \in 0..Capacity /\ Amount(a) <= Refilled(a, now)
      /\ Refilled(a, now) <= Amount(a) + Rate * elapsed
      /\ elapsed = 0 => Refilled(a, now) = Amount(a)
  BY <1>1, <1>4, <1>5, TokenBucketAssumption
<1> QED
  BY <1>1, <1>3, <1>6 DEF elapsed

LEMMA TypeInvInit == Init => TypeInv
BY TokenBucketAssumption
   DEF Init, TypeInv, TypeOK, SameKeys, Readings, Times, Absent, Idle

LEMMA TypeInvNext == TypeInv /\ [Next]_vars => TypeInv'
<1> SUFFICES ASSUME TypeInv, [Next]_vars PROVE TypeInv'
  OBVIOUS
<1>1. ASSUME NEW th \in Threads, NEW a \in Accounts, ReadClock(th, a) PROVE TypeInv'
  <2>1. call' = [call EXCEPT ![th] = [account |-> a, now |-> clock]]
    BY <1>1 DEF ReadClock
  <2>2. \A u \in Threads : call'[u].now <= clock
    BY <2>1 DEF TypeInv, TypeOK, Readings, Times
  <2> QED
    BY <1>1, <2>1, <2>2, TokenBucketAssumption
       DEF ReadClock, dicts, history, TypeInv, TypeOK, SameKeys, Readings
<1>2. ASSUME NEW th \in Threads, Allow(th) PROVE TypeInv'
  <2> DEFINE a == call[th].account
             now == call[th].now
             amount == Refilled(a, now)
  <2>1. call[th] # Idle /\ a \in Accounts /\ now \in Times /\ now <= clock
    BY <1>2 DEF Allow, TypeInv, TypeOK, Readings
  <2>2. amount \in 0..Capacity
    BY <2>1, RefilledOK
  <2>3. Last(a, now) \in Times
    BY <2>1 DEF Last, TypeInv, TypeOK
  <2>4. /\ call' = [call EXCEPT ![th] = Idle]
        /\ buckets' = [buckets EXCEPT ![a] = IF amount >= Unit THEN amount - Unit
                                             ELSE amount]
        /\ updated' = [updated EXCEPT ![a] = now]
        /\ granted' = [granted EXCEPT ![a] = IF amount >= Unit /\ now >= from
                                             THEN granted[a] + 1 ELSE granted[a]]
        /\ regress' = [regress EXCEPT ![a] = IF now < Last(a, now)
                        THEN regress[a] + (Last(a, now) - now) ELSE regress[a]]
        /\ UNCHANGED <<clock, calls, from>>
    BY <1>2 DEF Allow, Stamped
  <2> HIDE DEF a, now, amount
  <2>5. buckets' \in [Accounts -> 0..Capacity \union {Absent}] /\ buckets'[a] # Absent
    BY <2>1, <2>2, <2>4, TokenBucketAssumption DEF TypeInv, TypeOK, Absent
  <2>6. updated' \in [Accounts -> Times \union {Absent}] /\ updated'[a] # Absent
    BY <2>1, <2>4 DEF TypeInv, TypeOK, Times, Absent
  <2>7. granted' \in [Accounts -> Nat] /\ regress' \in [Accounts -> Nat]
    BY <2>1, <2>3, <2>4, TokenBucketAssumption DEF TypeInv, TypeOK, Times
  <2>8. call' \in [Threads -> [account : Accounts, now : Times] \union {Idle}]
    BY <2>4 DEF TypeInv, TypeOK
  <2>9. \A b \in Accounts : b # a => buckets'[b] = buckets[b] /\ updated'[b] = updated[b]
    BY <2>4 DEF TypeInv, TypeOK
  <2>10. SameKeys'
    BY <2>5, <2>6, <2>9 DEF TypeInv, SameKeys
  <2>11. \A b \in Accounts : updated'[b] <= clock
    BY <2>1, <2>4, <2>9 DEF TypeInv, TypeOK, Readings
  <2>12. \A u \in Threads : call'[u].now <= clock
    BY <2>4, TokenBucketAssumption DEF TypeInv, TypeOK, Readings, Idle, Absent, Times
  <2> QED
    BY <2>4, <2>5, <2>6, <2>7, <2>8, <2>10, <2>11, <2>12 DEF TypeInv, TypeOK, Readings
<1>3. ASSUME NEW as, Reset(as) PROVE TypeInv'
  <2>1. /\ buckets' \in [Accounts -> 0..Capacity \union {Absent}]
        /\ updated' \in [Accounts -> Times \union {Absent}]
        /\ granted' \in [Accounts -> Nat] /\ regress' \in [Accounts -> Nat]
    BY <1>3 DEF Reset, TypeInv, TypeOK
  <2>2. \A a \in Accounts : \/ buckets'[a] = Absent /\ updated'[a] = Absent
                            \/ buckets'[a] = buckets[a] /\ updated'[a] = updated[a]
    BY <1>3 DEF Reset
  <2>3. SameKeys'
    BY <2>2 DEF TypeInv, SameKeys
  <2>4. Readings'
    <3>1. clock' = clock /\ call' = call /\ Absent <= clock
      BY <1>3, TokenBucketAssumption DEF Reset, TypeInv, TypeOK, Times, Absent
    <3> QED
      BY <2>2, <3>1 DEF TypeInv, Readings
  <2> QED
    BY <1>3, <2>1, <2>3, <2>4 DEF Reset, TypeInv, TypeOK
<1>4. CASE Tick
  <2>1. clock \in Int /\ clock' = clock + 1 /\ clock' \in Times
    BY <1>4, TokenBucketAssumption DEF Tick, TypeInv, TypeOK, Times
  <2>2. \A th \in Threads : call[th].now \in Int
    BY DEF TypeInv, TypeOK, Times, Idle, Absent
  <2>3. \A a \in Accounts : updated[a] \in Int
    BY DEF TypeInv, TypeOK, Times, Absent
  <2>4. Readings'
    BY <1>4, <2>1, <2>2, <2>3 DEF Tick, dicts, TypeInv, Readings
  <2> QED
    BY <1>4, <2>1, <2>4 DEF Tick, dicts, history, TypeInv, TypeOK, SameKeys
<1>5. CASE UNCHANGED vars
  BY <1>5 DEF vars, dicts, history, TypeInv, TypeOK, SameKeys, Readings
<1> QED
  BY <1>1, <1>2, <1>3, <1>4, <1>5 DEF Next

(* The variables keep their types: a bucket is never overdrawn and never   *)
(* holds more than its capacity, in whichever order threads get the lock.  *)
THEOREM BucketTypes == Spec => []TypeOK
<1>1. TypeInv => TypeOK
  BY DEF TypeInv
<1> QED
  BY <1>1, TypeInvInit, TypeInvNext, PTL DEF Spec

-----------------------------------------------------------------------------
(* What was granted and what is left never exceed a full bucket and what   *)
(* the rate added; the span on the right is counted from the last refill,  *)
(* which may have gone back.                                               *)
Span(a) == updated[a] - from + regress[a]

BoundOf(a) == granted[a] > 0 =>
    /\ updated[a] # Absent /\ Span(a) >= 0
    /\ Unit * granted[a] + Amount(a) <= Capacity + Rate * Span(a)

BoundInv == \A a \in Accounts : BoundOf(a)

LEMMA BoundInvNext ==
    ASSUME TypeInv, BoundInv, [Next]_vars
    PROVE  BoundInv'
<1> USE TokenBucketAssumption
<1>1. ASSUME NEW th \in Threads, Allow(th), NEW b \in Accounts PROVE BoundOf(b)'
  <2>1. PICK a \in Accounts, now \in Times : call[th] = [account |-> a, now |-> now]
    BY <1>1 DEF Allow, TypeInv, TypeOK
  <2> DEFINE amount == Refilled(a, now)
             ok == amount >= Unit
  <2>2. /\ buckets' = [buckets EXCEPT ![a] = IF ok THEN amount - Unit ELSE amount]
        /\ updated' = [updated EXCEPT ![a] = now]
        /\ granted' = [granted EXCEPT ![a] = IF ok /\ now >= from
                                             THEN granted[a] + 1 ELSE granted[a]]
        /\ regress' = [regress EXCEPT ![a] = IF now < Last(a, now)
                        THEN regress[a] + (Last(a, now) - now) ELSE regress[a]]
        /\ from' = from
    BY <1>1, <2>1 DEF Allow, Stamped
  <2>3. BoundOf(b)
    BY DEF BoundInv
  <2>4. CASE b # a
    <3>1. UNCHANGED <<buckets[b], updated[b], granted[b], regress[b], from>>
      BY <2>2, <2>4 DEF TypeInv, TypeOK
    <3> QED
      BY <2>3, <3>1 DEF BoundOf, Span, Amount
  <2>5. CASE b = a
    <3> DEFINE last == Last(a, now)
               left == Amount(a)
               newAmount == IF ok THEN amount - Unit ELSE amount
               newGranted == IF ok /\ now >= from THEN granted[a] + 1 ELSE granted[a]
               newSpan == IF now < last THEN last - from + regress[a]
                          ELSE now - from + regress[a]
    <3>1. /\ granted[a] \in Nat /\ regress[a] \in Nat /\ from \in Nat /\ now \in Nat
          /\ last \in Nat /\ updated[a] \in Int
      BY DEF TypeInv, TypeOK, Times, Last, Absent
    <3>2. /\ amount \in 0..Capacity /\ left \in 0..Capacity
          /\ now <= last => amount = left
          /\ now > last => amount <= left + Rate * (now - last)
      BY RefilledOK
    <3>3. /\ buckets'[a] = newAmount /\ updated'[a] = now /\ granted'[a] = newGranted
          /\ regress'[a] = IF now < last THEN regress[a] + (last - now) ELSE regress[a]
      BY <2>2 DEF TypeInv, TypeOK
    <3> HIDE DEF last, left, amount
    <3>4. newAmount \in 0..Capacity /\ newAmount # Absent /\ now # Absent
      BY <3>1, <3>2 DEF Absent
    <3>5. updated'[a] - from' + regress'[a] = newSpan /\ newSpan \in Int
      BY <2>2, <3>1, <3>3
    <3>6. SUFFICES ASSUME newGranted > 0
                   PROVE  newSpan >= 0 /\ Unit * newGranted + newAmount <= Capacity + Rate * newSpan
      BY <2>5, <3>3, <3>4, <3>5 DEF BoundOf, Span, Amount
    <3>7. CASE granted[a] > 0
      <4> DEFINE span == updated[a] - from + regress[a]
      <4>1. /\ updated[a] # Absent /\ last = updated[a] /\ span >= 0
            /\ Unit * granted[a] + left <= Capacity + Rate * span
        BY <2>3, <2>5, <3>7 DEF BoundOf, Span, last, left, Last
      <4>2. span \in Nat /\ newSpan = IF now > last THEN span + (now - last) ELSE span
        BY <3>1, <4>1
      <4> HIDE DEF span, newSpan
      <4>3. /\ Unit * granted[a] \in Nat /\ Rate * span \in Nat
            /\ Unit * (granted[a] + 1) = Unit * granted[a] + Unit
        BY <3>1, <4>2, Products, Distribute
      <4>4. /\ Unit * newGranted \in Int
            /\ Unit * newGranted + newAmount <= Unit * granted[a] + amount
        BY <3>1, <3>2, <4>3
      <4> HIDE DEF newGranted, newAmount
      <4>5. CASE now <= last
        BY <3>1, <3>2, <3>4, <4>1, <4>2, <4>3, <4>4, <4>5
      <4>6. CASE now > last
        <5>1. now - last \in Nat
          BY <3>1, <4>6
        <5>2. /\ Rate * newSpan = Rate * span + Rate * (now - last)
              /\ Rate * (now - last) \in Nat
          BY <4>2, <4>6, <5>1, Distribute, Products
        <5>3. newSpan >= 0
          BY <4>2, <4>6, <5>1
        <5> QED
          BY <3>2, <3>4, <4>1, <4>3, <4>4, <4>6, <5>2, <5>3
      <4> QED
        BY <3>1, <4>5, <4>6
    <3>8. CASE granted[a] = 0
      <4>1. ok /\ now >= from /\ newGranted = 1 /\ newAmount = amount - Unit
        BY <3>1, <3>6, <3>8
      <4>2. newSpan \in Nat
        BY <3>1, <4>1
      <4> HIDE DEF newSpan, newGranted, newAmount
      <4>3. Rate * newSpan \in Nat
        BY <4>2, Products
      <4>4. Unit * newGranted = Unit
        BY <4>1
      <4> QED
        BY <3>2, <4>1, <4>2, <4>3, <4>4
    <3> QED
      BY <3>1, <3>7, <3>8
  <2> QED
    BY <2>4, <2>5
<1>2. ASSUME NEW as, Reset(as), NEW b \in Accounts PROVE BoundOf(b)'
  <2>1. CASE b \in as
    <3>1. granted'[b] = 0
      BY <1>2, <2>1 DEF Reset
    <3> QED
      BY <3>1 DEF BoundOf
  <2>2. CASE b \notin as
    <3>1. /\ buckets'[b] = buckets[b] /\ updated'[b] = updated[b] /\ from' = from
          /\ granted'[b] = granted[b] /\ regress'[b] = regress[b]
      BY <1>2, <2>2 DEF Reset
    <3> QED
      BY <3>1 DEF BoundInv, BoundOf, Span, Amount
  <2> QED
    BY <2>1, <2>2
<1>3. CASE UNCHANGED <<dicts, history>>
  BY <1>3 DEF dicts, history, BoundInv, BoundOf, Span, Amount
<1> QED
  BY <1>1, <1>2, <1>3 DEF Next, ReadClock, Tick, vars, BoundInv

(* Whatever the rate, the capacity and the number of threads, an account   *)
(* is granted at most a full bucket and what the rate adds, from any       *)
(* moment on, and one tick of the rate for every tick by which its calls   *)
(* overtake each other.                                                    *)
THEOREM Bounded == Spec => []GrantsBounded
<1>1. Init => BoundInv
  BY DEF Init, BoundInv, BoundOf
<1>2. TypeInv /\ BoundInv => GrantsBounded
  <2> SUFFICES ASSUME TypeInv, BoundInv, NEW a \in Accounts, granted[a] > 0
               PROVE  Unit * granted[a] <= Capacity + Rate * (clock - from + regress[a])
    BY DEF GrantsBounded
  <2>1. /\ Unit * granted[a] + Amount(a) <= Capacity + Rate * Span(a)
        /\ Span(a) \in Int /\ clock - from + regress[a] \in Int
        /\ Span(a) <= clock - from + regress[a]
    BY TokenBucketAssumption DEF BoundInv, BoundOf, Span, TypeInv, TypeOK, Readings, Times,
       Absent
  <2>2. Rate * Span(a) <= Rate * (clock - from + regress[a])
    BY <2>1, Monotone, TokenBucketAssumption
  <2>3. /\ Amount(a) \in Nat /\ Unit * granted[a] \in Int /\ Rate * Span(a) \in Int
        /\ Rate * (clock - from + regress[a]) \in Int
    BY <2>1, Products, TokenBucketAssumption DEF Amount, TypeInv, TypeOK, Absent
  <2> QED
    BY <2>1, <2>2, <2>3, TokenBucketAssumption
<1> QED
  BY <1>1, <1>2, BoundInvNext, TypeInvInit, TypeInvNext, PTL DEF Spec

-----------------------------------------------------------------------------
(* With a single caller no reading is older than the last refill.          *)
InOrder ==
    \A a \in Accounts :
        /\ regress[a] = 0
        /\ \A th \in Threads : call[th] # Idle => updated[a] <= call[th].now

LEMMA InOrderNext ==
    ASSUME \A t, u \in Threads : t = u, TypeInv, InOrder, [Next]_vars
    PROVE  InOrder'
<1>1. ASSUME NEW th \in Threads, NEW a \in Accounts, ReadClock(th, a) PROVE InOrder'
  <2>1. \A u \in Threads : call'[u].now = clock
    BY <1>1 DEF ReadClock, TypeInv, TypeOK
  <2> QED
    BY <1>1, <2>1 DEF ReadClock, dicts, history, TypeInv, Readings, InOrder
<1>2. ASSUME NEW th \in Threads, Allow(th) PROVE InOrder'
  <2>1. PICK a \in Accounts, now \in Times : call[th] = [account |-> a, now |-> now]
    BY <1>2 DEF Allow, TypeInv, TypeOK
  <2>2. \A u \in Threads : call'[u] = Idle
    BY <1>2 DEF Allow, TypeInv, TypeOK
  <2>3. ~(now < Last(a, now))
    BY <1>2, <2>1, TokenBucketAssumption
       DEF Allow, Last, InOrder, TypeInv, TypeOK, Times, Absent
  <2>4. regress' = [regress EXCEPT ![a] = regress[a]]
    BY <1>2, <2>1, <2>3 DEF Allow
  <2> QED
    BY <2>2, <2>4 DEF InOrder, TypeInv, TypeOK
<1>3. ASSUME NEW as, Reset(as) PROVE InOrder'
  <2>1. \A th \in Threads : call[th] # Idle => Absent <= call[th].now
    BY TokenBucketAssumption DEF TypeInv, TypeOK, Times, Absent
  <2>2. call' = call /\ \A a \in Accounts : /\ regress'[a] \in {0, regress[a]}
                                            /\ updated'[a] \in {Absent, updated[a]}
    BY <1>3 DEF Reset
  <2> QED
    BY <2>1, <2>2 DEF InOrder
<1>4. CASE UNCHANGED <<call, dicts, history>>
  BY <1>4 DEF dicts, history, InOrder
<1> QED
  BY <1>1, <1>2, <1>3, <1>4 DEF Next, Tick, vars

(* A single caller is held to the limit with no allowance: allow() is      *)
(* exact when nothing overtakes it.                                        *)
THEOREM OneCaller ==
    ASSUME \A t, u \in Threads : t = u
    PROVE  Spec => []RateLimited
<1>1. Init => InOrder
  BY DEF Init, InOrder
<1>2. InOrder /\ TypeInv /\ GrantsBounded => RateLimited
  <2> SUFFICES ASSUME InOrder, TypeInv, GrantsBounded, NEW a \in Accounts, granted[a] > 0
               PROVE  Unit * granted[a] <= Capacity + Rate * (clock - from)
    BY DEF RateLimited
  <2>1. clock - from + regress[a] = clock - from
    BY TokenBucketAssumption DEF InOrder, TypeInv, TypeOK, Times
  <2> QED
    BY <2>1 DEF GrantsBounded
<1>3. InOrder /\ TypeInv /\ [Next]_vars => InOrder'
  BY InOrderNext
<1>4. Spec => []GrantsBounded
  BY Bounded
<1> QED
  BY <1>1, <1>2, <1>3, <1>4, TypeInvInit, TypeInvNext, PTL DEF Spec

LEMMA SpentNext ==
    ASSUME TypeInv, SpentByGrants, [Next]_vars
    PROVE  SpentByGrants'
<1> USE TokenBucketAssumption
<1> SUFFICES ASSUME from' = 0, NEW b \in Accounts
             PROVE  (Amount(b) + Unit * granted[b])' >= Capacity
  BY DEF SpentByGrants
<1> DEFINE Left == Amount(b) + Unit * granted[b]
<1>1. from = 0
  BY DEF Next, ReadClock, Allow, Reset, Tick, vars, history
<1>2. Left >= Capacity
  BY <1>1 DEF SpentByGrants
<1>3. granted[b] \in Nat /\ Amount(b) \in Nat
  BY DEF TypeInv, TypeOK, Amount, Absent
<1>4. ASSUME NEW th \in Threads, Allow(th) PROVE Left' >= Capacity
  <2>1. PICK a \in Accounts, now \in Times : call[th] = [account |-> a, now |-> now]
    BY <1>4 DEF Allow, TypeInv, TypeOK
  <2> DEFINE amount == Refilled(a, now)
  <2>2. amount \in 0..Capacity /\ Amount(a) <= amount
    BY RefilledOK
  <2>3. /\ buckets' = [buckets EXCEPT ![a] = IF amount >= Unit THEN amount - Unit
                                             ELSE amount]
        /\ granted' = [granted EXCEPT ![a] = IF amount >= Unit THEN granted[a] + 1
                                             ELSE granted[a]]
    BY <1>1, <1>4, <2>1 DEF Allow, Times
  <2> HIDE DEF amount
  <2>4. CASE b # a
    BY <1>2, <2>3, <2>4 DEF Amount, TypeInv, TypeOK
  <2>5. CASE b = a /\ amount >= Unit
    <3>1. Amount(b)' = amount - Unit /\ granted'[b] = granted[b] + 1
      BY <2>2, <2>3, <2>5 DEF Amount, TypeInv, TypeOK, Absent
    <3>2. Unit * (granted[b] + 1) = Unit * granted[b] + Unit /\ Unit * granted[b] \in Nat
      BY <1>3, Distribute, Products
    <3> QED
      BY <1>2, <1>3, <2>2, <2>5, <3>1, <3>2
  <2>6. CASE b = a /\ ~(amount >= Unit)
    <3>1. Amount(b)' = amount /\ granted'[b] = granted[b]
      BY <2>2, <2>3, <2>6 DEF Amount, TypeInv, TypeOK, Absent
    <3>2. Unit * granted[b] \in Nat
      BY <1>3, Products
    <3> QED
      BY <1>2, <1>3, <2>2, <2>6, <3>1, <3>2
  <2> QED
    BY <2>4, <2>5, <2>6
<1>5. ASSUME NEW as, Reset(as) PROVE Left' >= Capacity
  <2>1. CASE b \in as
    <3>1. Amount(b)' = Capacity /\ granted'[b] = 0
      BY <1>5, <2>1 DEF Reset, Amount
    <3> QED
      BY <3>1
  <2>2. CASE b \notin as
    BY <1>2, <1>5, <2>2 DEF Reset, Amount
  <2> QED
    BY <2>1, <2>2
<1>6. CASE UNCHANGED <<buckets, granted>>
  BY <1>2, <1>6 DEF Amount
<1> QED
  BY <1>4, <1>5, <1>6 DEF Next, ReadClock, Tick, vars, dicts, history

(* Nothing but its own grants takes tokens from an account, in whichever   *)
(* order the threads get the lock.                                         *)
THEOREM Spent == Spec => []SpentByGrants
<1>1. Init => SpentByGrants
  <2> SUFFICES ASSUME Init, NEW a \in Accounts
               PROVE  Amount(a) + Unit * granted[a] >= Capacity
    BY DEF SpentByGrants
  <2>1. Amount(a) = Capacity /\ granted[a] = 0
    BY DEF Init, Amount
  <2> QED
    BY <2>1, TokenBucketAssumption
<1>2. TypeInv /\ SpentByGrants /\ [Next]_vars => SpentByGrants'
  BY SpentNext
<1> QED
  BY <1>1, <1>2, TypeInvInit, TypeInvNext, PTL DEF Spec

=============================================================================
