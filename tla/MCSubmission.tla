---------------------------- MODULE MCSubmission ----------------------------
(* Small instances of Submission for TLC.                                  *)
EXTENDS Submission, TLC

CONSTANTS c1, c2, c3, p1, acc1, acc2, k1, api1, api2

(* Two calls of two accounts race for a key in two processes; a third one, *)
(* of the first account, has no key. That account polls.                   *)
RaceCalls == {c1, c2, c3}
RacePolls == {p1}
RaceProcessOf == [x \in RaceCalls \union RacePolls |-> IF x \in {c1, c3} THEN api1 ELSE api2]
RaceAccountOf == [x \in RaceCalls \union RacePolls |-> IF x = c2 THEN acc2 ELSE acc1]
RaceKeyOf == [c \in RaceCalls |-> IF c = c3 THEN NoKey ELSE k1]

(* A call, its repetition by the same client in another process, and the   *)
(* poll of that client.                                                    *)
RetryCalls == {c1, c2}
RetryPolls == {p1}
RetryProcessOf == [x \in RetryCalls \union RetryPolls |-> IF x = c1 THEN api1 ELSE api2]
RetryAccountOf == [x \in RetryCalls \union RetryPolls |-> acc1]
RetryKeyOf == [c \in RetryCalls |-> k1]
=============================================================================
