-------------------------- MODULE ReplayServer_proofs --------------------------
(***************************************************************************)
(* Proofs about ReplayServer, for a recording of any length, any seeks and *)
(* any number of requests.                                                 *)
(***************************************************************************)
EXTENDS ReplayServer, TLAPS

(***************************************************************************)
(* Rows                                                                    *)
(***************************************************************************)
LEMMA AfterWraps == ASSUME NEW row \in RowIds PROVE After(row) = (row + 1) % Rows /\ After(row) \in RowIds
<1>1. CASE row + 1 < Rows
  BY <1>1, ReplayAssumption DEF After, RowIds
<1>2. CASE row + 1 = Rows
  BY <1>2, ReplayAssumption DEF After, RowIds
<1> QED
  BY <1>1, <1>2, ReplayAssumption DEF RowIds

LEMMA ClampInRange == ASSUME NEW row \in Int PROVE Clamp(row) \in RowIds
BY ReplayAssumption DEF Clamp, RowIds

LEMMA SeqTypes == ASSUME NEW n \in 0..(SeqBound - 1) PROVE (n + 1) % SeqBound \in 0..(SeqBound - 1)
BY ReplayAssumption

(***************************************************************************)
(* The inductive invariant                                                 *)
(***************************************************************************)
\* While the replay is paused, a sample has been sent or is about to be, not both.
PauseInv ==
  /\ samples <= 1
  /\ paused /\ pc \in {"show", "send"} => samples = 0
  /\ ~paused => samples = 0

\* A sought row waits while its seek is late, or for the next round.
AimInv == late => aim # NoRow /\ pc \in {"show", "send", "stopped"}

\* Where a sought row is on its way.
SeekInv == aim # NoRow =>
  /\ late \/ pc = "advance" => idx = aim
  /\ pc = "read" => idx \in {aim, (aim + 1) % Rows}
  /\ pc \in {"show", "send"} /\ ~late => cur \in {aim, (aim + 1) % Rows}

\* Where the next sample's row and number are, when no seek is outstanding.
RowInv ==
  /\ pc \in {"show", "send"} /\ ~late => cur = idx
  /\ aim = NoRow /\ out.row # NoRow =>
       /\ pc = "advance" => idx = out.row
       /\ pc = "read" => idx = (out.row + 1) % Rows
       /\ pc \in {"show", "send"} => cur = (out.row + 1) % Rows

SeqInv ==
  out.row # NoRow =>
    /\ pc \in {"read", "show"} => seqNo = (out.seq + 1) % SeqBound
    /\ pc = "send" => seq = seqNo /\ seqNo = (out.seq + 1) % SeqBound
    /\ pc = "advance" => seqNo = out.seq

SendInv == pc = "send" => seq = seqNo

IInv == TypeOK /\ PauseInv /\ AimInv /\ SeekInv /\ RowInv /\ SeqInv /\ SendInv

(***************************************************************************)
(* Types                                                                   *)
(***************************************************************************)
LEMMA InitIInv == Init => IInv
<1> SUFFICES ASSUME Init PROVE IInv
  OBVIOUS
<1>1. idx \in RowIds /\ 0 \in 0..(SeqBound - 1) /\ 0 \in 0..MaxSeeks
  BY ReplayAssumption DEF Init, RowIds
<1>2. out \in [row : RowIds \cup {NoRow}, seq : 0..(SeqBound - 1)]
  BY <1>1 DEF Init
<1>3. lock \in BOOLEAN /\ paused \in BOOLEAN /\ stopping \in BOOLEAN /\ late \in BOOLEAN
  BY DEF Init
<1>4. samples \in 0..2 /\ aim \in RowIds \cup {NoRow}
  BY DEF Init
<1>5. TypeOK
  BY <1>1, <1>2, <1>3, <1>4 DEF Init, TypeOK
<1> QED
  BY <1>5 DEF Init, IInv, PauseInv, AimInv, SeekInv, RowInv, SeqInv, SendInv

LEMMA NextTypes == IInv /\ [Next]_vars => TypeOK'
<1> SUFFICES ASSUME IInv, [Next]_vars PROVE TypeOK'
  OBVIOUS
<1> USE DEF IInv, shared, round, observed
<1>1. CASE BeginRound
  BY <1>1 DEF BeginRound, OutsideMain, TypeOK
<1>2. CASE Show
  BY <1>2 DEF Show, OutsideMain, TypeOK
<1>3. CASE Send
  <2>1. samples' \in 0..2
    BY <1>3 DEF Send, TypeOK, PauseInv
  <2> QED
    BY <1>3, <2>1 DEF Send, OutsideMain, TypeOK
<1>4. CASE SendRaises
  BY <1>4 DEF SendRaises, OutsideMain, TypeOK
<1>5. CASE Advance
  <2>1. idx' \in RowIds /\ seqNo' \in 0..(SeqBound - 1)
    BY <1>5, AfterWraps, SeqTypes DEF Advance, TypeOK
  <2> QED
    BY <1>5, <2>1 DEF Advance, OutsideMain, TypeOK
<1>6. CASE Stop
  BY <1>6 DEF Stop, OutsideMain, TypeOK
<1>7. ASSUME NEW row \in SeekTo, Seek(row) PROVE TypeOK'
  <2>1. Clamp(row) \in RowIds /\ seeks' \in 0..MaxSeeks
    BY <1>7, ClampInRange, ReplayAssumption DEF Seek, TypeOK
  <2> QED
    BY <1>7, <2>1 DEF Seek, OutsideRequests, TypeOK
<1>8. CASE Pause \/ Resume
  <2>1. paused' \in BOOLEAN
    BY <1>8 DEF Pause, Resume
  <2>2. samples' \in 0..2
    BY <1>8 DEF Pause, Resume, TypeOK
  <2> QED
    BY <1>8, <2>1, <2>2 DEF Pause, Resume, OutsideRequests, TypeOK
<1>11. CASE AnswerStatus \/ StatusAnswered
  <2>1. lock' \in BOOLEAN
    BY <1>11 DEF AnswerStatus, StatusAnswered
  <2> QED
    BY <1>11, <2>1 DEF AnswerStatus, StatusAnswered, OutsideRequests, TypeOK
<1>12. CASE Signal
  <2>1. stopping' \in BOOLEAN
    BY <1>12 DEF Signal
  <2> QED
    BY <1>12, <2>1 DEF Signal, TypeOK
<1>9. ASSUME NEW s \in Speeds, SetSpeed(s) PROVE TypeOK'
  BY <1>9 DEF SetSpeed, OutsideRequests, TypeOK
<1>10. CASE UNCHANGED vars
  BY <1>10 DEF vars, TypeOK
<1> QED
  BY <1>1, <1>2, <1>3, <1>4, <1>5, <1>6, <1>7, <1>8, <1>9, <1>10, <1>11, <1>12 DEF Next, SleepPaused

(***************************************************************************)
(* Rounds and requests                                                     *)
(***************************************************************************)
Rest == PauseInv /\ AimInv /\ SeekInv /\ RowInv /\ SeqInv /\ SendInv

LEMMA MainKeeps ==
  ASSUME IInv, BeginRound \/ Show \/ Send \/ SendRaises \/ Advance \/ Stop
  PROVE  Rest'
<1> USE DEF IInv, Rest, shared, round, observed, OutsideMain
<1>1. CASE BeginRound
  BY <1>1 DEF BeginRound, TypeOK, PauseInv, AimInv, SeekInv, RowInv, SeqInv, SendInv
<1>2. CASE Show
  BY <1>2 DEF Show, TypeOK, PauseInv, AimInv, SeekInv, RowInv, SeqInv, SendInv
<1>3. CASE Send
  <2>1. PauseInv'
    BY <1>3 DEF Send, TypeOK, PauseInv
  <2>2. AimInv'
    BY <1>3 DEF Send, TypeOK, AimInv
  <2>3. RowInv'
    BY <1>3 DEF Send, TypeOK, AimInv, RowInv
  <2>4. SeqInv' /\ SendInv'
    BY <1>3 DEF Send, TypeOK, SeqInv, SendInv
  <2>5. SeekInv'
    BY <1>3 DEF Send, TypeOK, AimInv, SeekInv
  <2> QED
    BY <2>1, <2>2, <2>3, <2>4, <2>5
<1>4. CASE SendRaises
  BY <1>4 DEF SendRaises, TypeOK, PauseInv, AimInv, SeekInv, RowInv, SeqInv, SendInv
<1>5. CASE Advance
  <2>1. After(idx) = (idx + 1) % Rows
    BY AfterWraps DEF TypeOK
  <2>2. PauseInv' /\ AimInv' /\ SendInv'
    BY <1>5 DEF Advance, TypeOK, PauseInv, AimInv, SendInv
  <2>3. RowInv'
    BY <1>5, <2>1 DEF Advance, TypeOK, RowInv
  <2>4. SeqInv'
    BY <1>5 DEF Advance, TypeOK, SeqInv
  <2>5. SeekInv'
    BY <1>5, <2>1 DEF Advance, AimInv, SeekInv
  <2> QED
    BY <2>2, <2>3, <2>4, <2>5
<1>6. CASE Stop
  BY <1>6 DEF Stop, TypeOK, PauseInv, AimInv, SeekInv, RowInv, SeqInv, SendInv
<1> QED
  BY <1>1, <1>2, <1>3, <1>4, <1>5, <1>6

LEMMA RequestKeeps ==
  ASSUME IInv,
         \/ \E row \in SeekTo : Seek(row)
         \/ Pause \/ Resume \/ (\E s \in Speeds : SetSpeed(s))
         \/ AnswerStatus \/ StatusAnswered \/ Signal
  PROVE  Rest'
<1> USE DEF IInv, Rest, shared, round, observed, OutsideRequests
<1>1. ASSUME NEW row \in SeekTo, Seek(row) PROVE Rest'
  <2>1. Clamp(row) \in RowIds /\ NoRow \notin RowIds
    BY ClampInRange, ReplayAssumption DEF NoRow, RowIds
  <2>2. PauseInv' /\ SeqInv' /\ SendInv'
    BY <1>1 DEF Seek, PauseInv, SeqInv, SendInv
  <2>3. AimInv' /\ SeekInv' /\ RowInv'
    BY <1>1, <2>1 DEF Seek, AimInv, SeekInv, RowInv
  <2> QED
    BY <2>2, <2>3
<1>2. CASE Pause
  <2>1. PauseInv'
    BY <1>2 DEF Pause, TypeOK, PauseInv
  <2> QED
    BY <1>2, <2>1 DEF Pause, AimInv, SeekInv, RowInv, SeqInv, SendInv
<1>3. CASE Resume
  BY <1>3 DEF Resume, PauseInv, AimInv, SeekInv, RowInv, SeqInv, SendInv
<1>4. ASSUME NEW s \in Speeds, SetSpeed(s) PROVE Rest'
  BY <1>4 DEF SetSpeed, PauseInv, AimInv, SeekInv, RowInv, SeqInv, SendInv
<1>5. CASE AnswerStatus \/ StatusAnswered
  BY <1>5 DEF AnswerStatus, StatusAnswered, PauseInv, AimInv, SeekInv, RowInv, SeqInv, SendInv
<1>6. CASE Signal
  BY <1>6 DEF Signal, PauseInv, AimInv, SeekInv, RowInv, SeqInv, SendInv
<1> QED
  BY <1>1, <1>2, <1>3, <1>4, <1>5, <1>6

LEMMA NextIInv == IInv /\ [Next]_vars => IInv'
<1> SUFFICES ASSUME IInv, [Next]_vars PROVE IInv'
  OBVIOUS
<1>1. TypeOK'
  BY NextTypes
<1>2. CASE UNCHANGED vars
  BY <1>1, <1>2 DEF vars, shared, round, observed, IInv, PauseInv, AimInv, SeekInv, RowInv, SeqInv, SendInv
<1>3. CASE Next
  BY <1>1, <1>2, <1>3, MainKeeps, RequestKeeps DEF Next, SleepPaused, IInv, Rest
<1> QED
  BY <1>2, <1>3

LEMMA SpecIInv == Spec => []IInv
BY InitIInv, NextIInv, PTL DEF Spec

(***************************************************************************)
(* Theorems                                                                *)
(***************************************************************************)

\* The main thread never reads a row outside the recording, whatever is sought while
\* it is about to wrap around, and the shared state keeps its types.
THEOREM ReplayTypeCorrect == Spec => []TypeOK
<1>1. IInv => TypeOK
  BY DEF IInv
<1> QED
  BY <1>1, SpecIInv, PTL

\* A pause request is followed by at most the sample of the round under way.
THEOREM PauseAlwaysHolds == Spec => []PauseHolds
<1>1. IInv => PauseHolds
  BY DEF IInv, PauseInv, PauseHolds
<1> QED
  BY <1>1, SpecIInv, PTL

\* Without a seek consecutive samples carry consecutive rows and numbers, for a
\* recording of any length.
THEOREM SamplesAreConsecutive == Spec => NoSampleSkipped
<1> DEFINE A == out' # out /\ out.row # NoRow /\ aim = NoRow =>
                  /\ out'.row = (out.row + 1) % Rows
                  /\ out'.seq = (out.seq + 1) % SeqBound
<1>1. IInv /\ [Next]_vars => [A]_vars
  <2> SUFFICES ASSUME IInv, Next, out' # out, out.row # NoRow, aim = NoRow
               PROVE  out'.row = (out.row + 1) % Rows /\ out'.seq = (out.seq + 1) % SeqBound
    BY DEF vars, observed
  <2>1. Send
    BY DEF Next, BeginRound, SleepPaused, Show, SendRaises, Advance, Stop, Seek, Pause, Resume,
           SetSpeed, AnswerStatus, StatusAnswered, Signal, OutsideRequests, observed, vars
  <2>2. pc = "send" /\ out' = [row |-> cur, seq |-> seq]
    BY <2>1 DEF Send
  <2> QED
    BY <2>2 DEF IInv, RowInv, SeqInv
<1> QED
  BY <1>1, SpecIInv, PTL DEF Spec, NoSampleSkipped

\* A seek is never lost: the first round that begins after it sends the row sought or,
\* when it came between a round's sending and its advancing, the next one.
THEOREM SeeksLand == Spec => SeekLands
<1> DEFINE A == out' # out /\ aim # NoRow /\ ~late => out'.row \in {aim, (aim + 1) % Rows}
<1>1. IInv /\ [Next]_vars => [A]_vars
  <2> SUFFICES ASSUME IInv, Next, out' # out, aim # NoRow, ~late
               PROVE  out'.row \in {aim, (aim + 1) % Rows}
    BY DEF vars, observed
  <2>1. Send
    BY DEF Next, BeginRound, SleepPaused, Show, SendRaises, Advance, Stop, Seek, Pause, Resume,
           SetSpeed, AnswerStatus, StatusAnswered, Signal, OutsideRequests, observed, vars
  <2> QED
    BY <2>1 DEF Send, IInv, SeekInv
<1> QED
  BY <1>1, SpecIInv, PTL DEF Spec, SeekLands
===============================================================================
