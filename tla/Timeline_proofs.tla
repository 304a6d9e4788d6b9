---------------------------- MODULE Timeline_proofs ----------------------------
(***************************************************************************)
(* A turbine's states from the tracker to the turbine_states table.        *)
(*                                                                         *)
(* Part 1, TurbineTimeline: for any fleet, windows and timestamps, the     *)
(* history of a tracker that is fed in time order is debounced and chained.*)
(*                                                                         *)
(* Part 2, StateHistory: the table stays one unbroken timeline, with one   *)
(* open row, no overlap and no gap, for any order of transitions, any      *)
(* queue, any number of lost and repeated units, restarts and prunings.    *)
(* The three are inductive together, once the next state_id is known to be *)
(* larger than those in the table (IdsBelow).  When nothing was late or    *)
(* lost, the open row is the tracker's state (OpenRowIsCurrent).           *)
(***************************************************************************)
EXTENDS TurbineTimeline, StateHistory, TLAPS, SequenceTheorems

(***************************************************************************)
(* One timeline                                                            *)
(***************************************************************************)
LEMMA TimelineKeepsType ==
  ASSUME NEW tl \in Timeline, NEW s \in KnownStates, NEW ts \in Nat
  PROVE  /\ AfterObserve(tl, s, ts) \in Timeline /\ AfterTick(tl, ts) \in Timeline
         /\ Emitted(tl, s, ts) \in Transition
         /\ Emitted(tl, s, tl.since) \in Transition /\ Emitted(tl, s, tl.seen) \in Transition
         /\ Emitted(tl, "DOWN", tl.seen) \in Transition
<1>1. Later(tl.seen, ts) \in Nat
  BY DEF Later, Timeline
<1>2. AfterObserve(tl, s, ts) \in Timeline
  BY <1>1 DEF AfterObserve, Confirm, Timeline
<1>3. AfterTick(tl, ts) \in Timeline
  BY DEF AfterTick, Confirm, KnownStates, Timeline
<1> QED
  BY <1>2, <1>3 DEF Emitted, Transition, Timeline, KnownStates

(***************************************************************************)
(* Part 1: the history a tracker yields                                    *)
(***************************************************************************)
\* How two consecutive transitions of a turbine relate.
Linked(a, b) ==
  /\ a.at <= b.at
  /\ a.new # "DOWN" => b.at >= a.at + Stability
  /\ b.prev = a.new
  /\ b.new # a.new

Chain(h) == \A k \in 1..(Len(h) - 1) : Linked(h[k], h[k + 1])

\* What the timeline remembers about the last transition in the history.  The
\* debounced history is not inductive by itself: it needs that the pending
\* candidate is younger than the last transition by the stability window, and so
\* is the last sample, which is what silence is dated back to.
Remembers(tl, h) ==
  /\ tl.since <= tl.seen
  /\ Len(h) = 0 <=> tl.confirmed = NoState
  /\ Len(h) > 0 =>
       /\ h[Len(h)].new = tl.confirmed
       /\ h[Len(h)].at <= tl.since
       /\ tl.confirmed # "DOWN" =>
            /\ tl.seen >= h[Len(h)].at + Stability
            /\ tl.candidate # tl.confirmed => tl.since >= h[Len(h)].at + Stability

HistoryInv == \A t \in Turbines : Chain(history[t]) /\ Remembers(timelines[t], history[t])

LEMMA ChainAppend ==
  ASSUME NEW h \in Seq(Transition), NEW e \in Transition, Chain(h),
         Len(h) > 0 => Linked(h[Len(h)], e)
  PROVE  Chain(Append(h, e))
<1> SUFFICES ASSUME NEW k \in 1..(Len(Append(h, e)) - 1)
             PROVE  Linked(Append(h, e)[k], Append(h, e)[k + 1])
  BY DEF Chain
<1>1. Len(h) \in Nat /\ Len(Append(h, e)) = Len(h) + 1 /\ Append(h, e)[Len(h) + 1] = e
      /\ \A i \in 1..Len(h) : Append(h, e)[i] = h[i]
  OBVIOUS
<1>2. CASE k = Len(h)
  BY <1>1, <1>2
<1>3. CASE k # Len(h)
  <2>1. k \in 1..(Len(h) - 1) /\ k \in 1..Len(h) /\ k + 1 \in 1..Len(h)
    BY <1>1, <1>3
  <2> QED BY <1>1, <2>1 DEF Chain
<1> QED BY <1>2, <1>3

\* Every step keeps the types of timelines and transitions.
THEOREM TimelineTypeCorrect == TrackerSpec => []TrackerTypeOK
<1>1. TrackerInit => TrackerTypeOK
  BY DEF TrackerInit, TrackerTypeOK, NewTimeline, Timeline
<1>2. TrackerTypeOK /\ [TrackerNext]_trackerVars => TrackerTypeOK'
  <2> SUFFICES ASSUME TrackerTypeOK, [TrackerNext]_trackerVars PROVE TrackerTypeOK'
    OBVIOUS
  <2> USE DEF TrackerTypeOK
  <2>0. \A t \in Turbines : timelines[t].since \in Nat /\ timelines[t].seen \in Nat
    BY DEF Timeline
  <2>1. ASSUME NEW t \in Turbines, NEW s \in Observable, NEW ts \in Times, Observe(t, s, ts)
        PROVE  TrackerTypeOK'
    <3>1. s \in KnownStates /\ ts \in Nat
      BY InstanceAssumption
    <3>2. AfterObserve(timelines[t], s, ts) \in Timeline
      BY <3>1, TimelineKeepsType
    <3>3. Emitted(timelines[t], s, timelines[t].since) \in Transition
      BY <2>0, <3>1, TimelineKeepsType
    <3>4. history' \in [Turbines -> Seq(Transition)]
      BY <2>1, <3>3 DEF Observe
    <3> QED BY <2>1, <3>2, <3>4 DEF Observe
  <2>2. ASSUME NEW now \in Times, Tick(now) PROVE TrackerTypeOK'
    <3>1. now \in Nat /\ "DOWN" \in KnownStates
      BY InstanceAssumption DEF KnownStates
    <3>2. \A t \in Turbines : AfterTick(timelines[t], now) \in Timeline
      BY <3>1, TimelineKeepsType
    <3>3. \A t \in Turbines : Emitted(timelines[t], "DOWN", timelines[t].seen) \in Transition
      BY <2>0, <3>1, TimelineKeepsType
    <3> QED BY <2>2, <3>2, <3>3 DEF Tick
  <2>3. CASE UNCHANGED trackerVars
    BY <2>3 DEF trackerVars
  <2> QED BY <2>1, <2>2, <2>3 DEF TrackerNext
<1> QED BY <1>1, <1>2, PTL DEF TrackerSpec

\* One in-order observation of one turbine.
LEMMA ObserveKeepsHistory ==
  ASSUME NEW tl \in Timeline, NEW h \in Seq(Transition), NEW s \in KnownStates,
         NEW ts \in Nat, ts >= tl.seen, Chain(h), Remembers(tl, h),
         NEW g, g = IF Stabilises(tl, s, ts)
                    THEN Append(h, Emitted(tl, s, tl.since)) ELSE h
  PROVE  Chain(g) /\ Remembers(AfterObserve(tl, s, ts), g)
<1> DEFINE e == Emitted(tl, s, tl.since)
<1>0. /\ tl.since \in Nat /\ tl.seen \in Nat /\ Stability \in Nat /\ Len(h) \in Nat
      /\ \A i \in 1..Len(h) : h[i] \in Transition
      /\ Later(tl.seen, ts) = ts
  BY TimelineAssumption DEF Timeline, Later
<1>1. e \in Transition /\ e.prev = tl.confirmed /\ e.new = s /\ e.at = tl.since
  BY <1>0, TimelineKeepsType DEF Emitted
<1>2. CASE s # tl.candidate
  <2>1. g = h /\ AfterObserve(tl, s, ts) = [tl EXCEPT !.seen = ts, !.candidate = s, !.since = ts]
    BY <1>0, <1>2 DEF Stabilises, AfterObserve, Timeline
  <2>2. AfterObserve(tl, s, ts).since = ts /\ AfterObserve(tl, s, ts).seen = ts
        /\ AfterObserve(tl, s, ts).confirmed = tl.confirmed
    BY <2>1 DEF Timeline
  <2>3. Len(h) > 0 => h[Len(h)].at \in Nat
    BY <1>0 DEF Transition
  <2> QED BY <1>0, <2>1, <2>2, <2>3 DEF Remembers
<1>3. CASE Stabilises(tl, s, ts)
  <2>1. g = Append(h, e) /\ Len(g) = Len(h) + 1 /\ g[Len(g)] = e
    BY <1>0, <1>1, <1>3
  <2>2. Len(h) > 0 => Linked(h[Len(h)], e)
    BY <1>0, <1>1, <1>3 DEF Stabilises, Remembers, Linked
  <2>3. Chain(g)
    BY <1>1, <2>1, <2>2, ChainAppend
  <2>4. /\ AfterObserve(tl, s, ts).confirmed = s /\ AfterObserve(tl, s, ts).candidate = s
        /\ AfterObserve(tl, s, ts).since = tl.since /\ AfterObserve(tl, s, ts).seen = ts
    BY <1>0, <1>3 DEF AfterObserve, Stabilises, Confirm, Timeline
  <2>5. s # NoState /\ ts >= tl.since + Stability
    BY <1>3 DEF Stabilises, KnownStates, NoState
  <2> QED BY <1>0, <1>1, <2>1, <2>3, <2>4, <2>5 DEF Remembers
<1>4. CASE s = tl.candidate /\ ~Stabilises(tl, s, ts)
  <2>1. /\ g = h
        /\ AfterObserve(tl, s, ts).confirmed = tl.confirmed
        /\ AfterObserve(tl, s, ts).candidate = tl.candidate
        /\ AfterObserve(tl, s, ts).since = tl.since /\ AfterObserve(tl, s, ts).seen = ts
    BY <1>0, <1>4 DEF AfterObserve, Timeline
  <2>2. Len(h) > 0 => h[Len(h)].at \in Nat
    BY <1>0 DEF Transition
  <2> QED BY <1>0, <2>1, <2>2 DEF Remembers
<1> QED BY <1>2, <1>3, <1>4 DEF Stabilises

\* One silence check of one turbine.
LEMMA TickKeepsHistory ==
  ASSUME NEW tl \in Timeline, NEW h \in Seq(Transition), NEW now \in Nat,
         Chain(h), Remembers(tl, h),
         NEW g, g = IF GoneSilent(tl, now)
                    THEN Append(h, Emitted(tl, "DOWN", tl.seen)) ELSE h
  PROVE  Chain(g) /\ Remembers(AfterTick(tl, now), g)
<1> DEFINE e == Emitted(tl, "DOWN", tl.seen)
<1>0. /\ tl.since \in Nat /\ tl.seen \in Nat /\ Stability \in Nat /\ Len(h) \in Nat
      /\ \A i \in 1..Len(h) : h[i] \in Transition
  BY TimelineAssumption DEF Timeline
<1>1. e \in Transition /\ e.prev = tl.confirmed /\ e.new = "DOWN" /\ e.at = tl.seen
  BY <1>0, TimelineKeepsType DEF Emitted, KnownStates
<1>2. CASE GoneSilent(tl, now)
  <2>1. g = Append(h, e) /\ Len(g) = Len(h) + 1 /\ g[Len(g)] = e
    BY <1>0, <1>1, <1>2
  <2>2. Len(h) > 0 => Linked(h[Len(h)], e)
    <3>1. Len(h) > 0 => h[Len(h)].at \in Nat
      BY <1>0 DEF Transition
    <3> QED BY <1>0, <1>1, <1>2, <3>1 DEF GoneSilent, Remembers, Linked
  <2>3. Chain(g)
    BY <1>1, <2>1, <2>2, ChainAppend
  <2>4. /\ AfterTick(tl, now).confirmed = "DOWN"
        /\ AfterTick(tl, now).since = tl.seen /\ AfterTick(tl, now).seen = tl.seen
    BY <1>0, <1>2 DEF AfterTick, Confirm, Timeline
  <2> QED BY <1>0, <1>1, <2>1, <2>3, <2>4 DEF Remembers, NoState
<1>3. CASE ~GoneSilent(tl, now)
  BY <1>3 DEF AfterTick
<1> QED BY <1>2, <1>3

LEMMA HistoryInvariant == ASSUME InOrder PROVE TrackerSpec => []HistoryInv
<1>1. TrackerInit => HistoryInv
  BY DEF TrackerInit, HistoryInv, Chain, Remembers, NewTimeline
<1>2. TrackerTypeOK /\ HistoryInv /\ [TrackerNext]_trackerVars => HistoryInv'
  <2> SUFFICES ASSUME TrackerTypeOK, HistoryInv, [TrackerNext]_trackerVars, NEW u \in Turbines
               PROVE  Chain(history'[u]) /\ Remembers(timelines'[u], history'[u])
    BY DEF HistoryInv
  <2>0. /\ timelines[u] \in Timeline /\ history[u] \in Seq(Transition)
        /\ Chain(history[u]) /\ Remembers(timelines[u], history[u])
    BY DEF TrackerTypeOK, HistoryInv
  <2>1. ASSUME NEW t \in Turbines, NEW s \in Observable, NEW ts \in Times, Observe(t, s, ts)
        PROVE  Chain(history'[u]) /\ Remembers(timelines'[u], history'[u])
    <3>1. s \in KnownStates /\ ts \in Nat /\ ts >= timelines[t].seen
      BY <2>1, InOrder, InstanceAssumption DEF Observe
    <3>2. CASE u = t
      <4>1. /\ timelines'[u] = AfterObserve(timelines[u], s, ts)
            /\ history'[u] = IF Stabilises(timelines[u], s, ts)
                             THEN Append(history[u], Emitted(timelines[u], s, timelines[u].since))
                             ELSE history[u]
        BY <2>1, <3>2 DEF Observe, TrackerTypeOK
      <4> QED BY <2>0, <3>1, <3>2, <4>1, ObserveKeepsHistory
    <3>3. CASE u # t
      BY <2>0, <2>1, <3>3 DEF Observe, TrackerTypeOK
    <3> QED BY <3>2, <3>3
  <2>2. ASSUME NEW now \in Times, Tick(now)
        PROVE  Chain(history'[u]) /\ Remembers(timelines'[u], history'[u])
    <3>1. now \in Nat
      BY InstanceAssumption
    <3>2. CASE u \in known
      <4>1. /\ timelines'[u] = AfterTick(timelines[u], now)
            /\ history'[u] = IF GoneSilent(timelines[u], now)
                             THEN Append(history[u], Emitted(timelines[u], "DOWN", timelines[u].seen))
                             ELSE history[u]
        BY <2>2, <3>2 DEF Tick
      <4> QED BY <2>0, <3>1, <4>1, TickKeepsHistory
    <3>3. CASE u \notin known
      BY <2>0, <2>2, <3>3 DEF Tick
    <3> QED BY <3>2, <3>3
  <2>3. CASE UNCHANGED trackerVars
    BY <2>0, <2>3 DEF trackerVars
  <2> QED BY <2>1, <2>2, <2>3 DEF TrackerNext
<1> QED BY <1>1, <1>2, TimelineTypeCorrect, PTL DEF TrackerSpec

LEMMA ChainMeaning ==
  ASSUME TrackerTypeOK, HistoryInv
  PROVE  HistoryIsMonotone /\ StatesOutlastSpikes /\ HistoryIsChained
<1>1. \A t \in Turbines : \A k \in Consecutive(t) : Linked(history[t][k], history[t][k + 1])
  <2> SUFFICES ASSUME NEW t \in Turbines, NEW k \in Consecutive(t)
               PROVE  k \in 1..(Len(history[t]) - 1)
    BY DEF HistoryInv, Chain
  <2>1. history[t] \in Seq(Transition)
    BY DEF TrackerTypeOK
  <2> QED BY <2>1 DEF Consecutive
<1> QED BY <1>1 DEF Linked, HistoryIsMonotone, StatesOutlastSpikes, HistoryIsChained

\* Fed in time order, the tracker dates transitions in the order it yields them.
THEOREM InOrderHistoryIsMonotone == ASSUME InOrder PROVE TrackerSpec => []HistoryIsMonotone
  BY HistoryInvariant, TimelineTypeCorrect, ChainMeaning, PTL

\* Fed in time order, no state but DOWN enters the history for less than the
\* stability window.
THEOREM InOrderStatesOutlastSpikes == ASSUME InOrder PROVE TrackerSpec => []StatesOutlastSpikes
  BY HistoryInvariant, TimelineTypeCorrect, ChainMeaning, PTL

\* Fed in time order, each transition leaves the state the one before it entered.
THEOREM InOrderHistoryIsChained == ASSUME InOrder PROVE TrackerSpec => []HistoryIsChained
  BY HistoryInvariant, TimelineTypeCorrect, ChainMeaning, PTL

(***************************************************************************)
(* Part 2: the table                                                       *)
(***************************************************************************)
IdsBelow(rs, n) == rs \subseteq Row /\ n \in Nat /\ \A r \in rs : r.id < n

Youngest(rs, o) == o \in rs /\ o.open /\ \A q \in rs \ {o} : q.id < o.id /\ ~q.open

Unbroken(rs) ==
  /\ rs # {} => \E o \in rs : Youngest(rs, o)
  /\ \A r, q \in rs : r.id < q.id => ~r.open /\ r.start <= r.end /\ r.end <= q.start
  /\ \A r \in rs : ~r.open => \E q \in rs : q.id > r.id /\ q.start = r.end

\* A unit keeps the table unbroken, whatever its date.
LEMMA RunUnitKeeps ==
  ASSUME NEW rs, NEW n, NEW tr \in Transition, IdsBelow(rs, n), Unbroken(rs)
  PROVE  IdsBelow(RunUnit(rs, tr, n), n + 1) /\ Unbroken(RunUnit(rs, tr, n))
<1> DEFINE new == [id |-> n, state |-> tr.new, start |-> tr.at, open |-> TRUE, end |-> 0]
<1>0. /\ new \in Row /\ new.id = n /\ new.open /\ new.start = tr.at
      /\ tr.at \in Nat /\ n \in Nat
  BY DEF IdsBelow, Transition, Row
<1> HIDE DEF new
<1>1. CASE rs = {}
  <2>1. CloseState(rs, tr.at) = {}
    BY <1>1 DEF CloseState
  <2>2. RunUnit(rs, tr, n) = {new}
    BY <2>1 DEF RunUnit, OpenState, new
  <2>3. Unbroken({new})
    BY <1>0 DEF Unbroken, Youngest
  <2> QED
    BY <2>2, <2>3, <1>0 DEF IdsBelow
<1>2. CASE rs # {}
  <2>1. PICK o \in rs : Youngest(rs, o)
    BY <1>2 DEF Unbroken
  <2>2. o \in Row /\ o.start \in Nat /\ o.id \in Nat /\ o.open
    BY <2>1 DEF IdsBelow, Youngest, Row
  <2>3. CASE tr.at < o.start
    <3>1. \A r \in rs : ~(r.open /\ r.start <= tr.at)
      BY <2>1, <2>2, <2>3, <1>0 DEF Youngest
    <3>2. CloseState(rs, tr.at) = rs
      BY <3>1 DEF CloseState
    <3>3. RunUnit(rs, tr, n) = rs
      BY <3>2, <2>2 DEF RunUnit, OpenState
    <3> QED
      BY <3>3 DEF IdsBelow, Row
  <2>4. CASE o.start <= tr.at
    <3> DEFINE closed == [o EXCEPT !.open = FALSE, !.end = tr.at]
               others == rs \ {o}
    <3>1. \A r \in others : r \in Row /\ ~r.open /\ r.id < o.id /\ r.start <= r.end /\ r.end <= o.start
      BY <2>1 DEF Unbroken, Youngest, IdsBelow
    <3>2. closed \in Row /\ closed.id = o.id /\ closed.start = o.start /\ ~closed.open /\ closed.end = tr.at
      BY <2>2, <1>0 DEF Row
    <3>3. CloseState(rs, tr.at) = others \cup {closed}
      BY <3>1, <2>2, <2>4 DEF CloseState
    <3>4. RunUnit(rs, tr, n) = others \cup {closed, new}
      BY <3>1, <3>2, <3>3 DEF RunUnit, OpenState, new
    <3> HIDE DEF closed
    <3>5. o.id < n
      BY DEF IdsBelow
    <3> DEFINE ns == others \cup {closed, new}
    <3>6. IdsBelow(ns, n + 1)
      <4>1. \A r \in ns : r \in Row /\ r.id \in Nat /\ (r.id < n \/ r.id = n)
        BY <1>0, <2>2, <3>1, <3>2, <3>5 DEF Row, IdsBelow
      <4> QED
        BY <4>1, <1>0 DEF IdsBelow
    <3>7. Youngest(ns, new)
      <4>1. \A r \in others : r.id < n
        BY DEF IdsBelow
      <4> QED
        BY <4>1, <1>0, <3>1, <3>2, <3>5 DEF Youngest
    <3>8. ASSUME NEW r \in ns, NEW q \in ns, r.id < q.id
          PROVE  ~r.open /\ r.start <= r.end /\ r.end <= q.start
      <4>1. r.id \in Nat /\ q.id \in Nat /\ r.end \in Nat /\ q.start \in Nat
        BY <1>0, <3>1, <3>2 DEF Row
      <4>2. CASE q = new
        <5>1. r # new
          BY <4>2, <3>8, <1>0
        <5>2. r = closed \/ r \in others
          BY <5>1
        <5> QED
          BY <5>2, <4>1, <4>2, <3>1, <3>2, <2>2, <2>4, <1>0
      <4>3. CASE q = closed
        <5>1. r # new /\ r # closed
          BY <4>1, <4>3, <3>2, <3>5, <3>8, <2>2, <1>0
        <5>2. r \in others
          BY <5>1
        <5> QED
          BY <5>2, <4>3, <3>1, <3>2
      <4>4. CASE q \in others
        <5>1. r \in others
          <6>1. q.id < o.id
            BY <4>4, <3>1
          <6>2. r # new /\ r # closed
            BY <6>1, <4>1, <3>2, <3>5, <3>8, <2>2, <1>0
          <6> QED
            BY <6>2
        <5> QED
          BY <5>1, <4>4, <3>8 DEF Unbroken
      <4> QED
        BY <4>2, <4>3, <4>4
    <3>9. ASSUME NEW r \in ns, ~r.open
          PROVE  \E q \in ns : q.id > r.id /\ q.start = r.end
      <4>1. CASE r = closed
        BY <4>1, <3>2, <3>5, <2>2, <1>0
      <4>2. CASE r \in others
        <5>1. PICK q \in rs : q.id > r.id /\ q.start = r.end
          BY <4>2, <3>9 DEF Unbroken
        <5>2. CASE q = o
          BY <5>1, <5>2, <3>2
        <5>3. CASE q # o
          BY <5>1, <5>3
        <5> QED
          BY <5>2, <5>3
      <4> QED
        BY <4>1, <4>2, <3>9, <1>0
    <3>10. Unbroken(ns)
      BY <3>7, <3>8, <3>9 DEF Unbroken
    <3> QED
      BY <3>4, <3>6, <3>10
  <2> QED
    BY <2>2, <2>3, <2>4, <1>0
<1> QED
  BY <1>1, <1>2

\* Pruning keeps the table unbroken: what ended before the cutoff is the oldest part.
LEMMA PruneKeeps ==
  ASSUME NEW rs, NEW n, NEW cutoff \in Nat, IdsBelow(rs, n), Unbroken(rs),
         NEW kept, kept = {r \in rs : r.open \/ r.end >= cutoff}
  PROVE  IdsBelow(kept, n) /\ Unbroken(kept)
<1>1. IdsBelow(kept, n)
  BY DEF IdsBelow
<1>2. CASE rs = {}
  BY <1>1, <1>2 DEF Unbroken
<1>3. CASE rs # {}
  <2>1. PICK o \in rs : Youngest(rs, o)
    BY <1>3 DEF Unbroken
  <2>2. o \in kept /\ Youngest(kept, o)
    BY <2>1 DEF Youngest
  <2>3. ASSUME NEW r \in kept, ~r.open
        PROVE  \E q \in kept : q.id > r.id /\ q.start = r.end
    <3>1. PICK q \in rs : q.id > r.id /\ q.start = r.end
      BY <2>3 DEF Unbroken
    <3>2. r.end >= cutoff
      BY <2>3
    <3>3. q \in Row /\ r \in Row
      BY DEF IdsBelow
    <3>4. q \in kept
      <4>1. CASE q.open
        BY <4>1
      <4>2. CASE ~q.open
        <5>1. q.id < o.id
          BY <4>2, <2>1 DEF Youngest
        <5>2. q.start <= q.end
          BY <5>1 DEF Unbroken
        <5>3. q.end >= cutoff
          BY <5>2, <3>1, <3>2, <3>3 DEF Row
        <5> QED
          BY <5>3
      <4> QED
        BY <4>1, <4>2
    <3> QED
      BY <3>1, <3>4
  <2> QED
    BY <1>1, <2>2, <2>3 DEF Unbroken
<1> QED
  BY <1>2, <1>3

(***************************************************************************)
(* Types                                                                   *)
(***************************************************************************)
\* One row per unit, whatever it does to the table.
TableType == rows \subseteq Row /\ nextId \in Nat

LEMMA CommitKeepsType ==
  ASSUME TableType, NEW tr \in Transition
  PROVE  RunUnit(rows, tr, nextId) \subseteq Row /\ nextId + 1 \in Nat
<1>1. CloseState(rows, tr.at) \subseteq Row
  BY DEF CloseState, TableType, Row, Transition
<1> DEFINE new == [id |-> nextId, state |-> tr.new, start |-> tr.at, open |-> TRUE, end |-> 0]
<1>2. new \in Row /\ nextId + 1 \in Nat
  BY DEF TableType, Row, Transition
<1>3. \/ RunUnit(rows, tr, nextId) = CloseState(rows, tr.at)
      \/ RunUnit(rows, tr, nextId) = CloseState(rows, tr.at) \cup {new}
  BY DEF RunUnit, OpenState
<1> QED
  BY <1>1, <1>2, <1>3

LEMMA QueueKeepsType ==
  ASSUME TypeOK, pending = <<>>, NEW tr \in Transition, Enqueue(tr)
  PROVE  /\ pending' \in Seq(Transition) /\ Len(pending') <= 1
         /\ queue' \in Seq(Transition) /\ Len(queue') <= QueueSize
<1>1. CASE Len(queue) < QueueSize
  <2>1. queue' = Append(queue, tr) /\ pending' = pending
    BY <1>1 DEF Enqueue
  <2> QED
    BY <1>1, <2>1, HistoryAssumption DEF TypeOK
<1>2. CASE ~(Len(queue) < QueueSize)
  <2>1. pending' = <<tr>> /\ queue' = queue
    BY <1>2 DEF Enqueue
  <2> QED
    BY <2>1 DEF TypeOK
<1> QED
  BY <1>1, <1>2

\* The queue of the store never outgrows its size, and what is in it, in the
\* table and in the tracker has its type.
THEOREM HistoryTypeCorrect == Spec => []TypeOK
<1> USE HistoryAssumption, InstanceAssumption
<1>1. Init => TypeOK
  BY TimelineAssumption DEF Init, TypeOK, NewTimeline, Timeline, Transition
<1>2. TypeOK /\ [Next]_vars => TypeOK'
  <2> SUFFICES ASSUME TypeOK, [Next]_vars
               PROVE  TypeOK'
    OBVIOUS
  <2>1. ASSUME NEW s \in Observable, NEW ts \in Times, DetectorObserves(s, ts)
        PROVE  TypeOK'
    <3>1. s \in KnownStates /\ ts \in Nat /\ timeline \in Timeline
      BY DEF TypeOK
    <3>2. timeline' \in Timeline /\ fed' \in Nat
      BY <2>1, <3>1, TimelineKeepsType DEF DetectorObserves, Later, TypeOK
    <3>3. /\ pending' \in Seq(Transition) /\ Len(pending') <= 1
          /\ queue' \in Seq(Transition) /\ Len(queue') <= QueueSize
      <4>1. CASE Stabilises(timeline, s, ts)
        BY <2>1, <3>1, <4>1, TimelineKeepsType, QueueKeepsType DEF DetectorObserves
      <4>2. CASE ~Stabilises(timeline, s, ts)
        BY <2>1, <4>2 DEF DetectorObserves, TypeOK
      <4> QED
        BY <4>1, <4>2
    <3> QED
      BY <2>1, <3>2, <3>3 DEF DetectorObserves, TypeOK, writer, table, bounds
  <2>2. ASSUME NEW now \in Times, DetectorTicks(now)
        PROVE  TypeOK'
    <3>1. now \in Nat /\ timeline \in Timeline /\ "DOWN" \in KnownStates
      BY DEF TypeOK, KnownStates
    <3>2. timeline' \in Timeline /\ Emitted(timeline, "DOWN", timeline.seen) \in Transition
      BY <2>2, <3>1, TimelineKeepsType DEF DetectorTicks
    <3>3. /\ pending' \in Seq(Transition) /\ Len(pending') <= 1
          /\ queue' \in Seq(Transition) /\ Len(queue') <= QueueSize
      BY <2>2, <3>2, QueueKeepsType DEF DetectorTicks
    <3> QED
      BY <2>2, <3>2, <3>3 DEF DetectorTicks, TypeOK, writer, table, bounds
  <2>3. CASE MakeRoom
    <3>1. \/ queue = <<>>
          \/ /\ Tail(queue) \o pending \in Seq(Transition)
             /\ Len(Tail(queue) \o pending) <= QueueSize
      BY DEF TypeOK
    <3>2. queue' \in Seq(Transition) /\ Len(queue') <= QueueSize
      <4>1. CASE queue = <<>>
        BY <2>3, <4>1 DEF MakeRoom
      <4>2. CASE queue # <<>>
        BY <2>3, <3>1, <4>2 DEF MakeRoom
      <4> QED
        BY <4>1, <4>2
    <3>3. pending' \in Seq(Transition) /\ Len(pending') <= 1
      BY <2>3 DEF MakeRoom
    <3>4. calm' \in BOOLEAN
      BY <2>3, Zenon DEF MakeRoom
    <3>5. UNCHANGED <<timeline, fed, inflight, attempt, rows, nextId, restarts, prunes>>
      BY <2>3 DEF MakeRoom, writer, table, bounds
    <3> QED
      BY <3>2, <3>3, <3>4, <3>5 DEF TypeOK
  <2>4. CASE Restart
    BY <2>4 DEF Restart, TypeOK, NewTimeline, Timeline, table
  <2>5. CASE Take
    BY <2>5 DEF Take, TypeOK, detector, table, bounds
  <2>6. ASSUME inflight # <<>>, Committed
        PROVE  TableType'
    <3>1. Head(inflight) \in Transition /\ TableType
      BY <2>6 DEF TypeOK, TableType
    <3> QED
      BY <2>6, <3>1, CommitKeepsType DEF Committed, TableType
  <2>7. CASE Write
    <3>1. inflight' = <<>> /\ attempt' = 1
      BY <2>7 DEF Write, Done
    <3> QED
      BY <2>6, <2>7, <3>1 DEF Write, TypeOK, TableType, detector, bounds
  <2>8. CASE AttemptFails
    <3>1. TableType'
      BY <2>6, <2>8 DEF AttemptFails, TypeOK, TableType, table
    <3>2. inflight' \in Seq(Transition) /\ Len(inflight') <= 1 /\ attempt' \in {1, 2}
      <4>1. CASE attempt' = 2 /\ UNCHANGED inflight
        BY <4>1 DEF TypeOK
      <4>2. CASE Done
        BY <4>2 DEF Done
      <4> QED
        BY <2>8, <4>1, <4>2 DEF AttemptFails
    <3> QED
      BY <2>8, <3>1, <3>2 DEF AttemptFails, TypeOK, TableType, detector, bounds
  <2>9. ASSUME NEW cutoff \in Times, Prune(cutoff)
        PROVE  TypeOK'
    BY <2>9 DEF Prune, TypeOK, detector, writer
  <2>10. CASE UNCHANGED vars
    BY <2>10 DEF TypeOK, vars, detector, writer, table, bounds
  <2> QED
    BY <2>1, <2>2, <2>3, <2>4, <2>5, <2>7, <2>8, <2>9, <2>10 DEF Next
<1> QED
  BY <1>1, <1>2, PTL DEF Spec

(***************************************************************************)
(* The timeline in the table                                               *)
(***************************************************************************)
TableInv == IdsBelow(rows, nextId) /\ Unbroken(rows)

LEMMA TableInvariant == Spec => []TableInv
<1>1. Init => TableInv
  BY DEF Init, TableInv, IdsBelow, Unbroken
<1>2. TypeOK /\ TableInv /\ [Next]_vars => TableInv'
  <2> SUFFICES ASSUME TypeOK, TableInv, [Next]_vars
               PROVE  TableInv'
    OBVIOUS
  <2>1. CASE UNCHANGED table
    BY <2>1 DEF TableInv, table
  <2>2. CASE inflight # <<>> /\ Committed
    <3>1. Head(inflight) \in Transition
      BY <2>2 DEF TypeOK
    <3> QED
      BY <2>2, <3>1, RunUnitKeeps DEF Committed, TableInv
  <2>3. ASSUME NEW cutoff \in Times, Prune(cutoff)
        PROVE  TableInv'
    <3>1. cutoff \in Nat
      BY InstanceAssumption
    <3> QED
      BY <2>3, <3>1, PruneKeeps DEF Prune, TableInv
  <2>4. UNCHANGED table \/ (inflight # <<>> /\ Committed) \/ (\E cutoff \in Times : Prune(cutoff))
    BY DEF Next, vars, DetectorObserves, DetectorTicks, MakeRoom, Restart, Take, Write, AttemptFails
  <2> QED
    BY <2>1, <2>2, <2>3, <2>4
<1> QED
  BY <1>1, <1>2, HistoryTypeCorrect, PTL DEF Spec

\* At any time the table holds exactly one open row for a turbine it knows.
THEOREM OneOpenRowAlways == Spec => []OneOpenRow
<1>1. TableInv => OneOpenRow
  BY DEF TableInv, Unbroken, Youngest, OneOpenRow
<1> QED
  BY <1>1, TableInvariant, PTL

\* No two recorded states overlap.
THEOREM NoOverlapAlways == Spec => []NoOverlap
<1>1. TableInv => NoOverlap
  BY DEF TableInv, Unbroken, NoOverlap
<1> QED
  BY <1>1, TableInvariant, PTL

\* No recorded state ends before the next one starts.
THEOREM NoGapAlways == Spec => []NoGap
<1>1. TableInv => NoGap
  BY DEF TableInv, Unbroken, NoGap
<1> QED
  BY <1>1, TableInvariant, PTL

(***************************************************************************)
(* The open row and the tracker                                            *)
(***************************************************************************)

\* What is on its way to the table is in the order of its dates, none of them after the
\* last change of the tracker's candidate.
InOrderOfDate ==
  /\ timeline.candidate = NoState =>
       queue = <<>> /\ inflight = <<>> /\ timeline.confirmed = NoState
  /\ timeline.since <= timeline.seen /\ timeline.seen <= fed
  /\ \A i \in DOMAIN queue : queue[i].at <= timeline.since
  /\ \A i, j \in DOMAIN queue : i < j => queue[i].at <= queue[j].at
  /\ inflight # <<>> =>
       /\ inflight[1].at <= timeline.since
       /\ \A i \in DOMAIN queue : inflight[1].at <= queue[i].at

\* The open row started before all of it, also a row from before a restart: so the unit
\* that comes next closes it.
RowsAreOlder ==
  \A r \in rows : r.open =>
    /\ r.start <= fed /\ (timeline.candidate # NoState => r.start <= timeline.since)
    /\ \A i \in DOMAIN queue : r.start <= queue[i].at
    /\ inflight # <<>> => r.start <= inflight[1].at

\* The newest transition on its way, or else the open row, has the tracker's state.
NewestIsCurrent ==
  IF queue # <<>> THEN queue[Len(queue)].new = timeline.confirmed
  ELSE IF inflight # <<>> THEN inflight[1].new = timeline.confirmed
  ELSE timeline.confirmed # NoState => \E r \in rows : r.open /\ r.state = timeline.confirmed

CalmInv == calm => InOrderOfDate /\ RowsAreOlder /\ (pending = <<>> => NewestIsCurrent)

LEMMA Dates ==
  ASSUME TypeOK
  PROVE  /\ Len(queue) \in Nat /\ DOMAIN queue = 1..Len(queue)
         /\ queue # <<>> => Len(queue) \in DOMAIN queue
         /\ \A i \in DOMAIN queue : queue[i] \in Transition /\ queue[i].at \in Nat
         /\ inflight # <<>> => /\ inflight[1] \in Transition /\ inflight[1].at \in Nat
                               /\ Head(inflight) = inflight[1]
         /\ timeline \in Timeline /\ timeline.since \in Nat /\ timeline.seen \in Nat
         /\ fed \in Nat /\ \A r \in rows : r.start \in Nat
<1>1. queue \in Seq(Transition) /\ inflight \in Seq(Transition)
  BY DEF TypeOK
<1>2. /\ Len(queue) \in Nat /\ DOMAIN queue = 1..Len(queue)
      /\ queue # <<>> => Len(queue) \in DOMAIN queue
  BY <1>1, LenProperties, EmptySeq
<1>3. \A i \in DOMAIN queue : queue[i] \in Transition
  BY <1>1, <1>2, ElementOfSeq
<1>4. inflight # <<>> => inflight[1] \in Transition /\ Head(inflight) = inflight[1]
  BY <1>1
<1>5. \A tr \in Transition : tr.at \in Nat
  BY DEF Transition
<1>6. timeline \in Timeline /\ timeline.since \in Nat /\ timeline.seen \in Nat
  BY DEF TypeOK, Timeline
<1>7. fed \in Nat /\ \A r \in rows : r.start \in Nat
  BY DEF TypeOK, Row
<1> QED BY <1>2, <1>3, <1>4, <1>5, <1>6, <1>7

\* A sample that is not late.
LEMMA ObserveMoves ==
  ASSUME NEW tl \in Timeline, NEW s \in KnownStates, NEW ts \in Nat,
         tl.since <= tl.seen, tl.seen <= ts,
         NEW tm, tm = AfterObserve(tl, s, ts)
  PROVE  /\ tm.candidate # NoState /\ tm.since \in Nat /\ tm.seen = ts
         /\ tm.since = ts \/ (tm.since = tl.since /\ tl.candidate # NoState)
         /\ IF Stabilises(tl, s, ts)
            THEN tm.confirmed = s /\ tm.since = tl.since /\ tl.candidate # NoState
            ELSE tm.confirmed = tl.confirmed
<1> USE DEF Timeline
<1>0. s # NoState /\ tl.since \in Nat /\ tl.seen \in Nat /\ Later(tl.seen, ts) = ts
  BY DEF KnownStates, NoState, Later
<1>1. CASE s # tl.candidate
  BY <1>0, <1>1 DEF AfterObserve, Stabilises
<1>2. CASE Stabilises(tl, s, ts)
  BY <1>0, <1>2 DEF AfterObserve, Confirm, Stabilises
<1>3. CASE s = tl.candidate /\ ~Stabilises(tl, s, ts)
  BY <1>0, <1>3 DEF AfterObserve
<1> QED BY <1>1, <1>2, <1>3

\* A transition that the tracker emits is the youngest of those on their way.
LEMMA EnqueueKeepsOrder ==
  ASSUME TypeOK, pending = <<>>, InOrderOfDate, RowsAreOlder,
         NEW tr \in Transition, Enqueue(tr), UNCHANGED <<inflight, rows>>,
         timeline.candidate # NoState, timeline.since <= tr.at,
         timeline'.candidate # NoState, timeline'.confirmed = tr.new, timeline'.since = tr.at,
         timeline'.seen \in Nat, fed' \in Nat,
         tr.at <= timeline'.seen, timeline'.seen <= fed', fed <= fed'
  PROVE  InOrderOfDate' /\ RowsAreOlder' /\ (pending' = <<>> => NewestIsCurrent')
<1>0. tr.at \in Nat
  BY DEF Transition
<1>1. CASE pending' # <<>> /\ queue' = queue
  BY <1>0, <1>1, Dates DEF InOrderOfDate, RowsAreOlder
<1>2. CASE queue' = Append(queue, tr) /\ UNCHANGED pending
  <2>1. /\ Len(queue') = Len(queue) + 1 /\ DOMAIN queue' = 1..Len(queue) + 1
        /\ \A i \in DOMAIN queue : queue'[i] = queue[i]
        /\ queue'[Len(queue) + 1] = tr /\ queue' # <<>>
    <3>1. queue \in Seq(Transition) /\ DOMAIN queue = 1..Len(queue) /\ Len(queue) \in Nat
      BY Dates DEF TypeOK
    <3>2. /\ queue' \in Seq(Transition) /\ Len(queue') = Len(queue) + 1
          /\ \A i \in 1..Len(queue) : queue'[i] = queue[i]
          /\ queue'[Len(queue) + 1] = tr
      BY <1>2, <3>1, AppendProperties
    <3>3. DOMAIN queue' = 1..Len(queue) + 1
      BY <3>2, LenProperties
    <3>4. queue' # <<>>
      BY <3>1, <3>2, EmptySeq
    <3> QED BY <3>1, <3>2, <3>3, <3>4
  <2>2. \A i \in DOMAIN queue' :
          (i \in DOMAIN queue /\ queue'[i] = queue[i]) \/ (i = Len(queue) + 1 /\ queue'[i] = tr)
    BY <2>1, Dates
  <2>3. InOrderOfDate'
    <3>1. \A i \in DOMAIN queue' : queue'[i].at <= tr.at
      BY <1>0, <2>2, Dates DEF InOrderOfDate
    <3>2. \A i, j \in DOMAIN queue' : i < j => queue'[i].at <= queue'[j].at
      BY <1>0, <2>2, <3>1, Dates DEF InOrderOfDate
    <3>3. inflight # <<>> => /\ inflight[1].at <= tr.at
                            /\ \A i \in DOMAIN queue' : inflight[1].at <= queue'[i].at
      BY <1>0, <2>2, Dates DEF InOrderOfDate
    <3> QED BY <3>1, <3>2, <3>3 DEF InOrderOfDate
  <2>4. RowsAreOlder'
    BY <1>0, <2>2, Dates DEF RowsAreOlder
  <2>5. NewestIsCurrent'
    BY <2>1 DEF NewestIsCurrent
  <2> QED BY <2>3, <2>4, <2>5
<1>3. <<tr>> # <<>>
  OBVIOUS
<1> QED BY <1>1, <1>2, <1>3 DEF Enqueue

\* A unit that meets only open rows older than itself leaves its own as the open one.
LEMMA RunUnitOpens ==
  ASSUME NEW rs, rs \subseteq Row, NEW n, NEW tr \in Transition, \A r \in rs : r.open => r.start <= tr.at
  PROVE  /\ \A r \in RunUnit(rs, tr, n) : r.open => r.start = tr.at
         /\ \E r \in RunUnit(rs, tr, n) : r.open /\ r.state = tr.new
<1> DEFINE new == [id |-> n, state |-> tr.new, start |-> tr.at, open |-> TRUE, end |-> 0]
<1>1. \A r \in CloseState(rs, tr.at) : ~r.open
  BY DEF CloseState, Row
<1>2. RunUnit(rs, tr, n) = CloseState(rs, tr.at) \cup {new}
  BY <1>1 DEF RunUnit, OpenState
<1>3. new.open /\ new.state = tr.new /\ new.start = tr.at
  OBVIOUS
<1> HIDE DEF new
<1> QED BY <1>1, <1>2, <1>3

LEMMA CalmObserve ==
  ASSUME TypeOK, NEW s \in Observable, NEW ts \in Times, DetectorObserves(s, ts), ts >= fed,
         InOrderOfDate, RowsAreOlder, NewestIsCurrent
  PROVE  InOrderOfDate' /\ RowsAreOlder' /\ (pending' = <<>> => NewestIsCurrent')
<1>0. /\ s \in KnownStates /\ ts \in Nat /\ pending = <<>>
      /\ timeline.since <= timeline.seen /\ timeline.seen <= ts
      /\ timeline.since \in Nat /\ timeline.seen \in Nat /\ fed \in Nat
      /\ timeline \in Timeline /\ UNCHANGED <<inflight, rows>>
  BY InstanceAssumption, Dates DEF InOrderOfDate, DetectorObserves, writer, table
<1>1. /\ timeline'.candidate # NoState /\ timeline'.since \in Nat /\ timeline'.seen = ts
      /\ timeline'.since = ts \/ (timeline'.since = timeline.since /\ timeline.candidate # NoState)
      /\ IF Stabilises(timeline, s, ts)
         THEN /\ timeline'.confirmed = s /\ timeline'.since = timeline.since
              /\ timeline.candidate # NoState
         ELSE timeline'.confirmed = timeline.confirmed
  BY <1>0, ObserveMoves DEF DetectorObserves
<1>2. fed' = ts
  BY <1>0 DEF DetectorObserves, Later
<1>3. CASE Stabilises(timeline, s, ts)
  <2> DEFINE tr == Emitted(timeline, s, timeline.since)
  <2>1. tr \in Transition /\ tr.at = timeline.since /\ tr.new = s
    BY <1>0 DEF Emitted, Transition, Timeline
  <2>2. Enqueue(tr)
    BY <1>3 DEF DetectorObserves
  <2> HIDE DEF tr
  <2> QED BY <1>0, <1>1, <1>2, <1>3, <2>1, <2>2, EnqueueKeepsOrder
<1>4. CASE ~Stabilises(timeline, s, ts)
  <2>1. UNCHANGED <<pending, queue>> /\ timeline'.confirmed = timeline.confirmed
    BY <1>1, <1>4 DEF DetectorObserves
  <2>2. timeline.since <= timeline'.since
    BY <1>0, <1>1
  <2>3. InOrderOfDate'
    <3>1. \A i \in DOMAIN queue : queue[i].at <= timeline'.since
      BY <1>1, <2>2, <1>0, Dates DEF InOrderOfDate
    <3>2. inflight # <<>> => inflight[1].at <= timeline'.since
      BY <1>1, <2>2, <1>0, Dates DEF InOrderOfDate
    <3> QED BY <1>0, <1>1, <1>2, <2>1, <3>1, <3>2 DEF InOrderOfDate
  <2>4. RowsAreOlder'
    <3>1. \A r \in rows : r.open => r.start <= ts /\ r.start <= timeline'.since
      BY <1>0, <1>1, <2>2, Dates DEF RowsAreOlder
    <3> QED BY <1>0, <1>2, <2>1, <3>1 DEF RowsAreOlder
  <2>5. NewestIsCurrent'
    BY <1>0, <2>1 DEF NewestIsCurrent
  <2> QED BY <2>3, <2>4, <2>5
<1> QED BY <1>3, <1>4

LEMMA CalmTick ==
  ASSUME TypeOK, NEW now \in Times, DetectorTicks(now), InOrderOfDate, RowsAreOlder
  PROVE  InOrderOfDate' /\ RowsAreOlder' /\ (pending' = <<>> => NewestIsCurrent')
<1> DEFINE tr == Emitted(timeline, "DOWN", timeline.seen)
<1>0. /\ timeline.since <= timeline.seen /\ timeline.seen <= fed
      /\ timeline.since \in Nat /\ timeline.seen \in Nat /\ fed \in Nat
      /\ timeline \in Timeline /\ UNCHANGED <<inflight, rows, fed>>
      /\ pending = <<>> /\ timeline.candidate # NoState
  BY Dates DEF InOrderOfDate, DetectorTicks, writer, table
<1>1. tr \in Transition /\ tr.at = timeline.seen /\ tr.new = "DOWN"
  BY <1>0 DEF Emitted, Transition, Timeline, KnownStates
<1>2. /\ timeline'.candidate = "DOWN" /\ timeline'.confirmed = "DOWN"
      /\ timeline'.since = timeline.seen /\ timeline'.seen = timeline.seen
  BY <1>0 DEF DetectorTicks, AfterTick, Confirm, Timeline
<1>3. Enqueue(tr)
  BY DEF DetectorTicks
<1>4. "DOWN" # NoState
  BY DEF NoState
<1> HIDE DEF tr
<1> QED BY <1>0, <1>1, <1>2, <1>3, <1>4, EnqueueKeepsOrder

LEMMA CalmTake ==
  ASSUME TypeOK, Take, InOrderOfDate, RowsAreOlder
  PROVE  InOrderOfDate' /\ RowsAreOlder' /\ (NewestIsCurrent => NewestIsCurrent')
<1>1. /\ queue # <<>> /\ inflight = <<>> /\ inflight' = <<Head(queue)>> /\ queue' = Tail(queue)
      /\ UNCHANGED <<timeline, fed, rows>>
  BY DEF Take, detector, table
<1>2. /\ Len(queue) \in Nat \ {0} /\ DOMAIN queue' = 1..Len(queue) - 1
      /\ Len(queue') = Len(queue) - 1 /\ (queue' = <<>> <=> Len(queue) = 1)
      /\ \A i \in 1..Len(queue) - 1 : queue'[i] = queue[i + 1]
      /\ inflight' # <<>> /\ inflight'[1] = queue[1]
  <2>1. queue \in Seq(Transition) /\ DOMAIN queue = 1..Len(queue) /\ Len(queue) \in Nat
    BY Dates DEF TypeOK
  <2>2. Len(queue) # 0
    BY <1>1, <2>1, EmptySeq
  <2>3. /\ queue' \in Seq(Transition) /\ Len(queue') = Len(queue) - 1
        /\ \A i \in 1..Len(queue') : queue'[i] = queue[i + 1]
    BY <1>1, <2>1, HeadTailProperties
  <2>4. DOMAIN queue' = 1..Len(queue') /\ (queue' = <<>> <=> Len(queue') = 0)
    BY <2>3, LenProperties, EmptySeq
  <2>5. inflight' # <<>> /\ inflight'[1] = queue[1]
    BY <1>1, <2>1, <2>2
  <2> QED BY <2>1, <2>2, <2>3, <2>4, <2>5
<1>3. DOMAIN queue = 1..Len(queue)
  BY Dates
<1>4. 1 \in DOMAIN queue /\ \A i \in DOMAIN queue' :
        i + 1 \in DOMAIN queue /\ 1 < i + 1 /\ queue'[i] = queue[i + 1] /\ i \in Int
  BY <1>2, <1>3
<1>5. InOrderOfDate'
  <2>1. \A i, j \in DOMAIN queue' : i < j => queue'[i].at <= queue'[j].at
    BY <1>4 DEF InOrderOfDate
  <2>2. \A i \in DOMAIN queue' : queue'[i].at <= timeline.since /\ queue[1].at <= queue'[i].at
    BY <1>4 DEF InOrderOfDate
  <2> QED BY <1>1, <1>2, <1>4, <2>1, <2>2 DEF InOrderOfDate
<1>6. RowsAreOlder'
  BY <1>1, <1>2, <1>4 DEF RowsAreOlder
<1>7. ASSUME NewestIsCurrent PROVE NewestIsCurrent'
  <2>1. CASE Len(queue) = 1
    BY <1>1, <1>2, <1>7, <2>1 DEF NewestIsCurrent
  <2>2. CASE Len(queue) # 1
    <3>1. queue'[Len(queue')] = queue[Len(queue)] /\ queue' # <<>>
      BY <1>2, <2>2
    <3> QED BY <1>1, <1>7, <3>1 DEF NewestIsCurrent
  <2> QED BY <2>1, <2>2
<1> QED BY <1>5, <1>6, <1>7

\* The transaction of a unit, whether the writer learns of it or will repeat it.
LEMMA CalmCommit ==
  ASSUME TypeOK, inflight # <<>>, Committed, UNCHANGED <<timeline, fed, queue>>,
         inflight' \in {inflight, <<>>}, InOrderOfDate, RowsAreOlder
  PROVE  /\ InOrderOfDate' /\ RowsAreOlder'
         /\ NewestIsCurrent => NewestIsCurrent'
<1>1. /\ inflight[1] \in Transition /\ Head(inflight) = inflight[1]
      /\ rows \subseteq Row /\ timeline.since \in Nat /\ timeline.seen \in Nat /\ fed \in Nat
      /\ inflight[1].at \in Nat
  BY Dates DEF TypeOK
<1>2. rows' = RunUnit(rows, inflight[1], nextId)
  BY <1>1 DEF Committed
<1>3. /\ \A r \in rows' : r.open => r.start = inflight[1].at
      /\ \E r \in rows' : r.open /\ r.state = inflight[1].new
  <2>1. \A r \in rows : r.open => r.start <= inflight[1].at
    BY DEF RowsAreOlder
  <2>2. PICK tr \in Transition : tr = inflight[1]
    BY <1>1
  <2>3. /\ \A r \in RunUnit(rows, tr, nextId) : r.open => r.start = tr.at
        /\ \E r \in RunUnit(rows, tr, nextId) : r.open /\ r.state = tr.new
    BY <1>1, <2>1, <2>2, RunUnitOpens
  <2> QED BY <1>2, <2>2, <2>3
<1>4. InOrderOfDate'
  BY DEF InOrderOfDate
<1>5. RowsAreOlder'
  <2>1. /\ inflight[1].at <= fed /\ inflight[1].at <= timeline.since
        /\ \A i \in DOMAIN queue : inflight[1].at <= queue[i].at
    BY <1>1 DEF InOrderOfDate
  <2> QED BY <1>1, <1>3, <2>1 DEF RowsAreOlder
<1>6. ASSUME NewestIsCurrent PROVE NewestIsCurrent'
  BY <1>3, <1>6 DEF NewestIsCurrent
<1> QED BY <1>4, <1>5, <1>6

LEMMA CalmStep == TypeOK /\ CalmInv /\ [Next]_vars => CalmInv'
<1> SUFFICES ASSUME TypeOK, CalmInv, [Next]_vars, calm'
             PROVE  InOrderOfDate' /\ RowsAreOlder' /\ (pending' = <<>> => NewestIsCurrent')
  BY DEF CalmInv
<1>1. calm
  BY DEF Next, DetectorObserves, DetectorTicks, MakeRoom, Restart, Take, Write, AttemptFails, Prune, vars
<1>2. InOrderOfDate /\ RowsAreOlder /\ (pending = <<>> => NewestIsCurrent)
  BY <1>1 DEF CalmInv
<1>3. ASSUME NEW s \in Observable, NEW ts \in Times, DetectorObserves(s, ts)
      PROVE  InOrderOfDate' /\ RowsAreOlder' /\ (pending' = <<>> => NewestIsCurrent')
  <2>1. ts >= fed /\ pending = <<>>
    BY <1>3 DEF DetectorObserves
  <2> QED BY <1>2, <1>3, <2>1, CalmObserve
<1>4. ASSUME NEW now \in Times, DetectorTicks(now)
      PROVE  InOrderOfDate' /\ RowsAreOlder' /\ (pending' = <<>> => NewestIsCurrent')
  BY <1>2, <1>4, CalmTick
<1>5. CASE Restart
  <2>1. /\ queue' = <<>> /\ inflight' = <<>> /\ timeline' = NewTimeline /\ UNCHANGED <<fed, rows>>
    BY <1>5 DEF Restart, table
  <2>2. DOMAIN queue' = {} /\ fed \in Nat
    BY <2>1, Dates
  <2> QED BY <1>2, <2>1, <2>2 DEF InOrderOfDate, RowsAreOlder, NewestIsCurrent, NewTimeline
<1>6. CASE Take
  <2>1. pending' = pending
    BY <1>6 DEF Take, detector
  <2> QED BY <1>2, <1>6, <2>1, CalmTake
<1>7. CASE Write
  <2>1. /\ inflight # <<>> /\ Committed /\ inflight' = <<>> /\ UNCHANGED <<timeline, fed, queue, pending>>
    BY <1>7 DEF Write, Done, detector
  <2> QED BY <1>2, <2>1, CalmCommit
<1>8. CASE AttemptFails
  <2>1. /\ inflight # <<>> /\ inflight' = inflight /\ UNCHANGED <<timeline, fed, queue, pending>>
        /\ Committed \/ UNCHANGED rows
    BY <1>8 DEF AttemptFails, detector, table
  <2>2. CASE Committed
    BY <1>2, <2>1, <2>2, CalmCommit
  <2>3. CASE UNCHANGED rows
    BY <1>2, <2>1, <2>3 DEF InOrderOfDate, RowsAreOlder, NewestIsCurrent
  <2> QED BY <2>1, <2>2, <2>3
<1>9. ASSUME NEW cutoff \in Times, Prune(cutoff)
      PROVE  InOrderOfDate' /\ RowsAreOlder' /\ (pending' = <<>> => NewestIsCurrent')
  <2>1. /\ \A r \in rows : r.open => r \in rows'
        /\ \A r \in rows' : r \in rows
        /\ UNCHANGED <<timeline, fed, pending, queue, inflight>>
    BY <1>9 DEF Prune, detector, writer
  <2> QED BY <1>2, <2>1 DEF InOrderOfDate, RowsAreOlder, NewestIsCurrent
<1>10. CASE UNCHANGED vars
  BY <1>2, <1>10 DEF InOrderOfDate, RowsAreOlder, NewestIsCurrent, vars, detector, writer, table
<1>11. ~MakeRoom
  BY DEF MakeRoom
<1> QED BY <1>3, <1>4, <1>5, <1>6, <1>7, <1>8, <1>9, <1>10, <1>11 DEF Next

\* Once the writer has caught up, the open row is the tracker's state, when no sample
\* came late and no unit was lost: also after restarts, repeated units and pruning.
THEOREM OpenRowIsAlwaysCurrent == Spec => []OpenRowIsCurrent
<1>1. Init => CalmInv
  BY DEF Init, CalmInv, InOrderOfDate, RowsAreOlder, NewestIsCurrent, NewTimeline
<1>2. CalmInv => OpenRowIsCurrent
  BY DEF CalmInv, NewestIsCurrent, OpenRowIsCurrent
<1> QED BY <1>1, <1>2, CalmStep, HistoryTypeCorrect, PTL DEF Spec
===============================================================================
