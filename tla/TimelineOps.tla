------------------------------ MODULE TimelineOps ------------------------------
(***************************************************************************)
(* turbine_state.StateTracker on the timeline of one turbine: what an      *)
(* observation and what a silence check do to it, and which transition     *)
(* they yield.  Times are in units of the model; the code uses             *)
(* milliseconds.                                                           *)
(***************************************************************************)
EXTENDS Naturals

CONSTANTS Stability,   \* _stability_ms
          Stale,       \* _stale_ms
          Observable,  \* bound: the states the detector infers in this instance
          Times        \* bound: the timestamps and clock readings

\* StateTracker.__init__ raises unless this holds.
ASSUME TimelineAssumption == Stability \in Nat /\ Stale \in Nat /\ Stability < Stale

KnownStates == {"IDLE", "RAMP_UP", "STEADY_STATE", "RAMP_DOWN", "DOWN"}
NoState == "NONE"

ASSUME InstanceAssumption == Observable \subseteq KnownStates /\ Times \subseteq Nat

Timeline == [confirmed : KnownStates \cup {NoState},
             candidate : KnownStates \cup {NoState},
             since     : Nat,     \* candidate_since_ms
             seen      : Nat]     \* last_seen_ms

Transition == [prev : KnownStates \cup {NoState}, new : KnownStates, at : Nat]

NewTimeline == [confirmed |-> NoState, candidate |-> NoState, since |-> 0, seen |-> 0]

Later(a, b) == IF a < b THEN b ELSE a

Confirm(tl, s, at) == [tl EXCEPT !.confirmed = s, !.candidate = s, !.since = at]

\* Defect: the confirmed state is confirmed again.
MutStabilisesAgain(tl, s, ts) == s = tl.candidate /\ ts >= tl.since + Stability

\* Defect: the window one unit short.
MutStabilisesEarly(tl, s, ts) ==
  s = tl.candidate /\ s # tl.confirmed /\ ts + 1 >= tl.since + Stability

\* The last case of observe(): the candidate has been seen for long enough.
Stabilises(tl, s, ts) ==
  s = tl.candidate /\ s # tl.confirmed /\ ts >= tl.since + Stability

AfterObserve(tl, s, ts) ==
  LET now == [tl EXCEPT !.seen = Later(@, ts)]
  IN  IF s # tl.candidate THEN [now EXCEPT !.candidate = s, !.since = ts]
      ELSE IF Stabilises(tl, s, ts) THEN Confirm(now, s, tl.since)
      ELSE now

\* tick(): the turbine has been silent for too long and is not DOWN already.
GoneSilent(tl, now) == tl.confirmed # "DOWN" /\ now >= tl.seen + Stale

\* Defect: silence confirms DOWN, but leaves the candidate as it was.
MutTickKeepsCandidate(tl, now) ==
  IF GoneSilent(tl, now) THEN [tl EXCEPT !.confirmed = "DOWN"] ELSE tl

AfterTick(tl, now) == IF GoneSilent(tl, now) THEN Confirm(tl, "DOWN", tl.seen) ELSE tl

\* What _confirm hands to the caller.
Emitted(tl, s, at) == [prev |-> tl.confirmed, new |-> s, at |-> at]
===============================================================================
