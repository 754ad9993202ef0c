------------------------------ MODULE Backoff ------------------------------
(***************************************************************************)
(* The retry delay of utils/backoff.ts, which the reaper's SQL restates:   *)
(* truncated exponential backoff plus a whole number of seconds of jitter. *)
(***************************************************************************)
EXTENDS Integers

CONSTANTS
  BackoffBase,    \* ENDUROQ_BACKOFF_BASE_IN_SEC, in ticks
  BackoffCap,     \* ENDUROQ_BACKOFF_CAP_IN_SEC, in ticks
  BackoffJitter   \* ENDUROQ_BACKOFF_JITTER_IN_SEC, in ticks

ASSUME BackoffAssumption ==
  /\ BackoffBase \in Nat
  /\ BackoffCap \in Nat
  /\ BackoffJitter \in Nat

Least(a, b) == IF a <= b THEN a ELSE b

\* Every value compute() can return for a job that has been attempted that
\* often: floor(random() * jitter) is at most jitter - 1, and 0 without jitter.
\* No delay exceeds cap + jitter, which makes the set finite.
BackoffDelays(attempt) ==
  { d \in 0 .. (BackoffCap + BackoffJitter) :
      \E r \in 0 .. BackoffJitter :
        /\ r < BackoffJitter \/ r = 0
        /\ d = Least(BackoffCap, BackoffBase * 2^attempt) + r }
=============================================================================
