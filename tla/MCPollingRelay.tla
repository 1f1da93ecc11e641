---------------------------- MODULE MCPollingRelay ----------------------------
(***************************************************************************)
(* Constants for model-checking PollingRelay.                              *)
(***************************************************************************)
EXTENDS PollingRelay, RetryDelay, TLC

(* _backoff's values: the middle of the spread is the power of two until   *)
(* the cap sets in at the ninth retry; before it no retry can be due as    *)
(* soon as the one it follows.                                             *)
ASSUME DocumentedDelays ==
    /\ \A n \in 1 .. 8 : Power[n] * Second \in _backoff(n)
    /\ \A n \in 1 .. 7 : \A d \in _backoff(n), e \in _backoff(n + 1) : d < e
    /\ \A n \in 9 .. 12 : _backoff(n) = 240 * Second .. 360 * Second

(* The delays in units of two seconds: 1.6-2.4 s after the first failure,  *)
(* 3.2-4.8 s after the second, which is twice the first.                   *)
MCBackoff == [n \in 1 .. 2 |-> Nearest(2 * Second, _backoff(n))]

(* The same rounded up, which lets the jitter tell delays apart.           *)
MCJitter == [n \in 1 .. 2 |-> Upward(2 * Second, _backoff(n))]

(* Only the first failure gets a delay: the second retry overflows.        *)
MCOverflow == [n \in 1 .. 1 |-> Nearest(2 * Second, _backoff(n))]

(* The producer's commit comes at the moment it drew scheduled_at, or one  *)
(* unit later, or it asked for a delayed publish.                          *)
MCImmediate == {0}
MCOffsets == {-1, 0, 1}
MCLagging == {-1, 0}

RelaySymmetry == Permutations(Relays)

=============================================================================
