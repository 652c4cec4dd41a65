-------------------------- MODULE MCPostgresStore --------------------------
(* Small instances of PostgresStore for TLC.                               *)
EXTENDS PostgresStore, TLC

CONSTANTS c1, c2, c3, acc1, acc2, k1, t1

Reserve(a) == [op |-> "reserve", account |-> a, cost |-> 2, actual |-> 0]
Settle(a) == [op |-> "settle", account |-> a, cost |-> 2, actual |-> 1]
BalanceOf(a) == [op |-> "balance", account |-> a, cost |-> 0, actual |-> 0]
Register == [op |-> "register", key |-> k1]
Create == [op |-> "create", task |-> t1, status |-> "ACCEPTED"]
Status == [op |-> "status", task |-> t1, status |-> "RUNNING"]
ResetAccount(a) == [op |-> "reset_account", account |-> a]
Reset == [op |-> "reset"]

MCCalls == {c1, c2, c3}
MCOwner == [t \in {t1} |-> acc1]

(* Reservations, a settlement and a reading of one account; reservations   *)
(* of another one, whose lock row is yet to be created; claims of one key; *)
(* writes of one task; resets of the other account and of everything.      *)
MixedRequests ==
    c1 :> {Reserve(acc1), Register} @@
    c2 :> {Reserve(acc1), Reserve(acc2), BalanceOf(acc1), Register, Status} @@
    c3 :> {Reserve(acc1), Reserve(acc2), Settle(acc1), Create, ResetAccount(acc2), Reset}
=============================================================================
