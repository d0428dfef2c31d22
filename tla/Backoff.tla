------------------------------- MODULE Backoff -------------------------------
(***************************************************************************)
(* The waits of runLoop between connections (printer.go, runLoop and       *)
(* backoff).  attempt is kept as its power of two, factor: it is the float *)
(* that backoff computes, and doubling it is incrementing attempt.         *)
(*                                                                         *)
(* The delay is a float product converted to a 64-bit integer.  Go leaves  *)
(* the result of a conversion that does not fit to the implementation:     *)
(* arm64 gives the largest integer, amd64 the smallest.                    *)
(***************************************************************************)
EXTENDS Integers

CONSTANTS
  Bases,         \* reconnect delays a printer may be configured with: a
                 \* negative one is not refused (config.go:312-321, 386-404)
  Cap,           \* the maximum, 5 minutes
  MaxDuration,   \* the largest time.Duration
  MaxFactor      \* bound: the factor of the last attempt that is counted

MinDuration == -MaxDuration - 1

ASSUME BackoffAssumption ==
  /\ MaxDuration \in Nat /\ MaxFactor \in Nat \ {0}
  /\ Bases \subseteq MinDuration..MaxDuration
  /\ Cap \in 1..MaxDuration

VARIABLES
  base,      \* the printer's reconnect delay
  factor,    \* 2^attempt
  phase,     \* "connecting", "session", or the wait after either of them
  delay      \* what the timer of the latest wait was set to

backoffVars == <<base, factor, phase, delay>>

-----------------------------------------------------------------------------
\* float64(base) * 2^attempt as a time.Duration: the values it may have.
Converted(product) ==
  IF product \in MinDuration..MaxDuration THEN {product}
  ELSE {MinDuration} \cup {m \in {MaxDuration} : product > MaxDuration}

\* Mutant: no cap.
CappedNever(d) == d

\* Mutant: past the cap the delay starts from the smallest again.
CappedToLeast(d) == IF d > Cap THEN 1 ELSE d

Capped(d) == IF d > Cap THEN Cap ELSE d

Delays(f) == {Capped(d) : d \in Converted(base * f)}

-----------------------------------------------------------------------------
BackoffInit ==
  /\ base \in Bases
  /\ factor = 1
  /\ phase = "connecting"
  /\ delay = 0

\* connect failed: backoff with the present attempt ...
ConnectFails ==
  /\ phase = "connecting"
  /\ phase' = "retryWait"
  /\ delay' \in Delays(factor)
  /\ UNCHANGED <<base, factor>>

\* ... and attempt++ when the wait is over.
RetryWaitEnds ==
  /\ phase = "retryWait"
  /\ phase' = "connecting"
  /\ factor' = IF 2 * factor <= MaxFactor THEN 2 * factor ELSE factor
  /\ UNCHANGED <<base, delay>>

Connects ==
  /\ phase = "connecting"
  /\ phase' = "session"
  /\ factor' = 1
  /\ UNCHANGED <<base, delay>>

\* subscribe failed or readLoop ended: backoff with attempt 0.
SessionEnds ==
  /\ phase = "session"
  /\ phase' = "rejoinWait"
  /\ delay' \in Delays(1)
  /\ UNCHANGED <<base, factor>>

RejoinWaitEnds ==
  /\ phase = "rejoinWait"
  /\ phase' = "connecting"
  /\ UNCHANGED <<base, factor, delay>>

BackoffNext == \/ ConnectFails \/ RetryWaitEnds \/ Connects
               \/ SessionEnds \/ RejoinWaitEnds

BackoffSpec == BackoffInit /\ [][BackoffNext]_backoffVars

-----------------------------------------------------------------------------
(* Properties. *)

\* Type invariant of the waits.
BackoffTypeOK ==
  /\ base \in Bases
  /\ factor \in 1..MaxFactor
  /\ phase \in {"connecting", "session", "retryWait", "rejoinWait"}
  /\ delay \in Int

\* DOCS.md:87, the reconnect delay is "exponential backoff, capped at 5
\* min": no wait is shorter than the configured delay (or the cap, if that
\* is smaller) or longer than the cap.
DelayInRange ==
  phase \in {"retryWait", "rejoinWait"} => Capped(base) <= delay /\ delay <= Cap

\* The product of the present attempt fits a time.Duration.
Fits == base > 0 /\ base * factor <= MaxDuration

\* How far that can go wrong: an overflow never makes a wait longer than the
\* cap, whatever the conversion yields, and it is the only way to a wait that
\* is shorter than a configured delay that is one (the number of attempts has
\* no limit, printer.go:129, and the cap is applied after the conversion,
\* printer.go:424-429).  A wait after a session is never concerned.
WaitsInRangeUntilOverflow ==
  /\ phase \in {"retryWait", "rejoinWait"} => delay <= Cap
  /\ phase = "retryWait" /\ Fits => Capped(base) <= delay
  /\ phase = "rejoinWait" => delay = Capped(base)

\* In a series of failures no wait is shorter than the one before it until
\* the product overflows or a connection is made (attempt is incremented only
\* after the wait and reset only by a connection, printer.go:128-134).
WaitsGrowUntilOverflow ==
  [][ (phase' = "retryWait" /\ phase = "connecting" /\ factor > 1 /\ Fits)
        => delay' >= delay ]_backoffVars
=============================================================================
