----------------------------- MODULE AlertLatch -----------------------------
(***************************************************************************)
(* What the alerts of a tracker promise, whatever it keeps to do so: an    *)
(* alert is told when its condition appears, not again while the condition *)
(* lasts, and once more when it comes back.  Two mechanisms of the code    *)
(* implement it, a scalar for the error code and a set for the HMS texts.  *)
(***************************************************************************)
CONSTANT Conditions

VARIABLES known,  \* the conditions of the latest observation
          told    \* the alerts that observation gave rise to

latchVars == <<known, told>>

LatchInit == known = {} /\ told = {}

\* The latest observation shows exactly the conditions now.
Observe(now) ==
  /\ known' = now
  /\ told' = now \ known

\* A new connection starts from nothing.
Forget == known' = {} /\ told' = {}

LatchNext == Forget \/ \E now \in SUBSET Conditions : Observe(now)

LatchSpec == LatchInit /\ [][LatchNext]_latchVars
=============================================================================
