--------------------------------- MODULE Retry ---------------------------------
(***************************************************************************)
(* The crawler's retry helper (retry.go): one call of DoConfig under a     *)
(* context that may have a deadline and may be cancelled at any time.      *)
(* Durations are whole units of time, and a duration has Width bits.       *)
(***************************************************************************)
EXTENDS Integers, FiniteSetsExt

CONSTANTS
    Plans,       \* configurations: [max, base, deadline]
    Durations,   \* how long an attempt may take
    Cap,         \* maxBackoffDelay
    Width,       \* bits of a duration: 64 in the code
    Tracked,     \* maxTrackedErrors
    None

\* The powers of two.
TwoTo[n \in Nat] == IF n = 0 THEN 1 ELSE 2 * TwoTo[n - 1]

\* The cap is far from the end of a duration: a delay and half of it still fit.
RetryAssumption ==
    /\ Cap \in Nat \ {0} /\ Width \in Nat \ {0, 1} /\ Tracked \in Nat \ {0}
    /\ Cap <= TwoTo[Width - 2]
    /\ Durations \subseteq Nat
    /\ \A plan \in Plans : /\ plan.max \in Int /\ plan.base \in Int
                           /\ plan.deadline \in Nat \union {None}

ASSUME RetryAssumption

VARIABLE retry   \* the call: its plan, step, attempt, failures, clock and delay

Results == {"attempt failed", "out of time", "cancelled", "refused"}

NoRetry == [at |-> "idle"]
Fresh(plan) == [plan |-> plan, at |-> "enter", attempt |-> 1, errs |-> 0,
                clock |-> 0, delay |-> 0, cancelled |-> FALSE, reported |-> 0]

Expired(call) == call.plan.deadline # None /\ call.clock >= call.plan.deadline
ContextEnded(call) == call.cancelled \/ Expired(call)

MaxAttempts(plan) == Max({plan.max, 1})

\* Durations wrap: two's complement in Width bits.
Wrapped(n) == ((n + TwoTo[Width - 1]) % TwoTo[Width]) - TwoTo[Width - 1]

\* Half the delay, or half and up to the whole of it again; the code draws the
\* part from a uniform distribution, and takes half when the source fails.
WithJitter(delay) ==
    IF delay <= 0 THEN {0}
    ELSE {delay \div 2, delay \div 2 + delay - 1}

\* Mutant: the shift is not bounded by the width of a duration.
DoubledForever(attempt, base) ==
    LET multiplier == Wrapped(TwoTo[attempt - 1])
    IN IF multiplier > Cap \div base THEN WithJitter(Cap)
       ELSE WithJitter(Min({Wrapped(base * multiplier), Cap}))

\* Doubled with every attempt, up to the cap; the multiplier stays positive.
CalculateDelay(attempt, base) ==
    LET multiplier == Wrapped(TwoTo[Min({attempt - 1, Width - 2})])
    IN IF multiplier > Cap \div base THEN WithJitter(Cap)
       ELSE WithJitter(Min({Wrapped(base * multiplier), Cap}))

EndRetry(result, attempts) ==
    retry' = [retry EXCEPT !.at = result, !.reported = attempts]

\* The configuration is checked, then the context.
Enter ==
    /\ retry.at = "enter"
    /\ IF retry.plan.base <= 0 \/ ContextEnded(retry)
       THEN EndRetry(IF retry.plan.base <= 0 THEN "refused" ELSE "cancelled", 0)
       ELSE retry' = [retry EXCEPT !.at = "loop"]

\* A new turn of the loop: the context first; the failures it has kept are
\* what it reports as attempts.
StartAttempt ==
    /\ retry.at = "loop"
    /\ IF ContextEnded(retry)
       THEN EndRetry("cancelled", retry.errs)
       ELSE retry' = [retry EXCEPT !.at = "attempt"]

\* The attempt itself; a panic in it is an error like any other.
Succeed ==
    /\ retry.at = "attempt"
    /\ \E d \in Durations :
          retry' = [retry EXCEPT !.at = "ok", !.clock = @ + d]

\* An error that must not be retried, or the last attempt: the call ends.
Fail(retryable) ==
    /\ retry.at = "attempt"
    /\ \E d \in Durations :
          LET last == ~retryable \/ retry.attempt = MaxAttempts(retry.plan)
          IN retry' = [retry EXCEPT !.at = IF last THEN "attempt failed" ELSE "delay",
                                    !.clock = @ + d,
                                    !.errs = Min({@ + 1, Tracked}),
                                    !.reported = IF last THEN retry.attempt ELSE 0]

\* The delay is drawn; one that would outlast the deadline is not begun.
ChooseDelay ==
    /\ retry.at = "delay"
    /\ \E delay \in CalculateDelay(retry.attempt, retry.plan.base) :
          IF /\ retry.plan.deadline # None
             /\ (Expired(retry) \/ retry.plan.deadline - retry.clock < delay)
          THEN EndRetry("out of time", retry.attempt)
          ELSE retry' = [retry EXCEPT !.at = "sleep", !.delay = delay]

\* The timer runs out; no timer is set for no delay.
Wake ==
    /\ retry.at = "sleep"
    /\ retry' = [retry EXCEPT !.at = "loop", !.attempt = @ + 1, !.clock = @ + retry.delay]

\* A sleep ends with the context: at the latest, at the deadline.
SleepCancelled ==
    /\ retry.at = "sleep" /\ retry.delay > 0
    /\ retry.cancelled \/ retry.clock + retry.delay = retry.plan.deadline
    /\ EndRetry("cancelled", retry.attempt)

\* Another branch of the crawl fails, or the process is interrupted.
Cancel ==
    /\ retry.at \notin Results \union {"ok"} /\ ~retry.cancelled
    /\ retry' = [retry EXCEPT !.cancelled = TRUE]

RetryStep ==
    \/ Enter \/ StartAttempt \/ Succeed
    \/ \E retryable \in BOOLEAN : Fail(retryable)
    \/ ChooseDelay \/ Wake \/ SleepCancelled \/ Cancel

--------------------------------------------------------------------------------

\* What the backoff promises before the attempt that follows attempt n: half of
\* the doubled base, or of the cap.
Backoff(n, base) ==
    LET doubled == Min({Cap, base * TwoTo[n - 1]}) IN doubled \div 2

\* A new attempt starts only in a context that has not ended, never beyond the
\* configured number, and, when it is a retry, after a wait of at least half the
\* backoff and less than one and a half times the cap: however many attempts
\* there are, and whatever the width of a duration that has room for the cap.
RetryBacksOff ==
    [][ (retry'.at = "attempt" /\ retry.at # "attempt") =>
          /\ ~ContextEnded(retry)
          /\ retry'.attempt <= MaxAttempts(retry.plan)
          /\ retry'.attempt > 1 =>
               /\ retry.delay >= Backoff(retry'.attempt - 1, retry.plan.base)
               /\ 2 * retry.delay < 3 * Cap ]_retry
================================================================================
