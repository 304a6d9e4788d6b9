----------------------------- MODULE ReplayServer -----------------------------
(***************************************************************************)
(* replay_daq_to_kafka.py: the main thread replays the rows of a recording *)
(* to Kafka, round and round, while HTTP threads pause, resume and seek.   *)
(* They share ReplayState under its lock.                                  *)
(*                                                                         *)
(* One round of the main thread takes the lock three times: it reads the   *)
(* playback state, it shows the row it is about to send, and after sending *)
(* it advances.  The requests come in between.  A request is one step but  *)
(* for the status, which answers its client with the lock held.            *)
(*                                                                         *)
(* `out', `samples', `aim' and `late' are kept for the properties.         *)
(***************************************************************************)
EXTENDS Integers

CONSTANTS Rows,       \* total_records
          StartRows,  \* bound: values of --start-row
          MaxSamples, \* a value of --max-samples; the other one is 0, no limit
          Speeds,     \* bound: the playback speeds, as clamped
          SeekTo,     \* bound: the rows asked for in seeks
          MaxSeeks,   \* bound: seeks
          SeqBound    \* bound: sequence numbers are counted modulo SeqBound

ASSUME ReplayAssumption ==
  /\ Rows \in Nat \ {0} /\ StartRows \subseteq 0..(Rows - 1) /\ SeekTo \subseteq Int
  /\ MaxSamples \in Nat /\ MaxSeeks \in Nat /\ SeqBound \in Nat /\ SeqBound > MaxSamples + 1

RowIds == 0..(Rows - 1)
NoRow == -1

VARIABLES idx, speed, paused, seqNo, latest,  \* ReplayState
          lock,      \* held by a status request that is being answered
          pc,        \* where the main thread is
          cur, pace, \* curr_idx and spd of this round
          seq,       \* seq_no of this round
          limit,     \* --max-samples
          stopping,  \* GracefulShutdown.shutdown
          seeks,
          out,       \* the last sample sent
          samples,   \* samples sent since the replay was paused
          aim, late  \* the row last sought; whether a round is under way that
                     \* has read an older position

shared == <<idx, speed, paused, seqNo, latest>>
round == <<cur, pace, seq, limit>>
observed == <<out, samples, aim, late>>
vars == <<shared, lock, pc, round, stopping, seeks, observed>>

TypeOK ==
  /\ idx \in RowIds /\ speed \in Speeds /\ paused \in BOOLEAN
  /\ seqNo \in 0..(SeqBound - 1) /\ latest \in RowIds
  /\ lock \in BOOLEAN
  /\ pc \in {"read", "show", "send", "advance", "stopped"}
  /\ cur \in RowIds /\ pace \in Speeds /\ seq \in 0..(SeqBound - 1)
  /\ limit \in {0, MaxSamples} /\ stopping \in BOOLEAN /\ seeks \in 0..MaxSeeks
  /\ out \in [row : RowIds \cup {NoRow}, seq : 0..(SeqBound - 1)]
  /\ samples \in 0..2 /\ aim \in RowIds \cup {NoRow} /\ late \in BOOLEAN

Init ==
  /\ idx \in StartRows /\ latest = idx /\ speed \in Speeds /\ paused = FALSE /\ seqNo = 0
  /\ lock = FALSE /\ pc = "read" /\ cur = idx /\ pace = speed /\ seq = 0
  /\ limit \in {0, MaxSamples} /\ stopping = FALSE /\ seeks = 0
  /\ out = [row |-> NoRow, seq |-> 0] /\ samples = 0 /\ aim = NoRow /\ late = FALSE

(***************************************************************************)
(* The main thread                                                         *)
(***************************************************************************)
OutsideMain == UNCHANGED <<lock, stopping, seeks>>

\* Defect: a paused round sleeps longer, but goes on.
MutBeginRoundPaused ==
  /\ pc = "read" /\ ~stopping /\ ~lock
  /\ pc' = "show" /\ cur' = idx /\ pace' = speed
  /\ UNCHANGED <<shared, seq, limit, observed>> /\ OutsideMain

\* A round begins unless the replay is paused: then the thread sleeps and looks again.
BeginRound ==
  /\ pc = "read" /\ ~stopping /\ ~lock /\ ~paused
  /\ pc' = "show" /\ cur' = idx /\ pace' = speed
  /\ UNCHANGED <<shared, seq, limit, observed>> /\ OutsideMain

SleepPaused == pc = "read" /\ ~stopping /\ ~lock /\ paused /\ UNCHANGED vars

Show ==
  /\ pc = "show" /\ ~lock /\ pc' = "send"
  /\ latest' = cur /\ seq' = seqNo
  /\ UNCHANGED <<idx, speed, paused, seqNo, cur, pace, limit, observed>> /\ OutsideMain

Send ==
  /\ pc = "send" /\ pc' = "advance"
  /\ out' = [row |-> cur, seq |-> seq]
  /\ samples' = IF paused THEN samples + 1 ELSE 0
  /\ IF late THEN late' = FALSE /\ UNCHANGED aim ELSE aim' = NoRow /\ UNCHANGED late
  /\ UNCHANGED <<shared, round>> /\ OutsideMain

\* produce() raises when the local queue is full; nothing catches it.
SendRaises ==
  /\ pc = "send" /\ pc' = "stopped"
  /\ UNCHANGED <<shared, round, observed>> /\ OutsideMain

\* Defect: the first row is taken for a header.
MutAfterSkips(row) == IF row + 1 >= Rows THEN 1 ELSE row + 1

\* Defect: the replay stays at its end.
MutAfterStays(row) == IF row + 1 >= Rows THEN row ELSE row + 1

After(row) == IF row + 1 >= Rows THEN 0 ELSE row + 1

\* Defect: the position advances from the row of this round.
MutAdvanceFromCurrent ==
  /\ pc = "advance" /\ ~lock
  /\ seqNo' = (seqNo + 1) % SeqBound /\ idx' = After(cur)
  /\ pc' = IF limit > 0 /\ seq >= limit THEN "stopped" ELSE "read"
  /\ UNCHANGED <<speed, paused, latest, round, observed>> /\ OutsideMain

\* The position advances from where it is by now.  The limit is compared with the
\* number of the sample that was sent, and numbers start at 0.
Advance ==
  /\ pc = "advance" /\ ~lock
  /\ seqNo' = (seqNo + 1) % SeqBound /\ idx' = After(idx)
  /\ pc' = IF limit > 0 /\ seq >= limit THEN "stopped" ELSE "read"
  /\ UNCHANGED <<speed, paused, latest, round, observed>> /\ OutsideMain

\* Defect: the shutdown flag is looked at by rounds only.
MutStopUnpaused ==
  /\ pc = "read" /\ stopping /\ ~paused /\ pc' = "stopped"
  /\ UNCHANGED <<shared, round, observed>> /\ OutsideMain

Stop ==
  /\ pc = "read" /\ stopping /\ pc' = "stopped"
  /\ UNCHANGED <<shared, round, observed>> /\ OutsideMain

(***************************************************************************)
(* HTTP requests and signals                                               *)
(***************************************************************************)
OutsideRequests == pc # "stopped" /\ UNCHANGED <<seqNo, pc, round, stopping, out>>

Clamp(row) == IF row < 0 THEN 0 ELSE IF row > Rows - 1 THEN Rows - 1 ELSE row

Seek(row) ==
  /\ ~lock /\ seeks < MaxSeeks /\ seeks' = seeks + 1
  /\ idx' = Clamp(row) /\ latest' = Clamp(row)
  /\ aim' = Clamp(row) /\ late' = (pc \in {"show", "send"})
  /\ UNCHANGED <<speed, paused, lock, samples>> /\ OutsideRequests

Pause ==
  /\ ~lock /\ paused' = TRUE
  /\ samples' = IF paused THEN samples ELSE 0
  /\ UNCHANGED <<idx, speed, latest, lock, seeks, aim, late>> /\ OutsideRequests

Resume ==
  /\ ~lock /\ paused' = FALSE /\ samples' = 0
  /\ UNCHANGED <<idx, speed, latest, lock, seeks, aim, late>> /\ OutsideRequests

SetSpeed(s) ==
  /\ ~lock /\ speed' = s
  /\ UNCHANGED <<idx, paused, latest, lock, seeks, samples, aim, late>> /\ OutsideRequests

AnswerStatus ==
  /\ ~lock /\ lock' = TRUE
  /\ UNCHANGED <<idx, speed, paused, latest, seeks, samples, aim, late>> /\ OutsideRequests

StatusAnswered ==
  /\ lock /\ lock' = FALSE
  /\ UNCHANGED <<idx, speed, paused, latest, seeks, samples, aim, late>> /\ OutsideRequests

Signal ==
  /\ ~stopping /\ stopping' = TRUE
  /\ UNCHANGED <<shared, lock, pc, round, seeks, observed>>

Main == BeginRound \/ Show \/ Send \/ Advance \/ Stop

Next ==
  \/ BeginRound \/ SleepPaused \/ Show \/ Send \/ SendRaises \/ Advance \/ Stop
  \/ \E row \in SeekTo : Seek(row)
  \/ Pause \/ Resume \/ \E s \in Speeds : SetSpeed(s)
  \/ AnswerStatus \/ StatusAnswered \/ Signal

Spec == Init /\ [][Next]_vars

\* The main thread gets the lock again and again although status requests compete for
\* it, and a client takes its answer.
Fairness == SF_vars(Main) /\ WF_vars(StatusAnswered)

FairSpec == Spec /\ Fairness

(***************************************************************************)
(* Properties                                                              *)
(***************************************************************************)

\* main(), one row per sample: without a seek in between, the samples are consecutive
\* rows with consecutive numbers, across the end of the recording, pauses and
\* speed changes.
NoSampleSkipped ==
  [][out' # out /\ out.row # NoRow /\ aim = NoRow =>
       /\ out'.row = (out.row + 1) % Rows
       /\ out'.seq = (out.seq + 1) % SeqBound]_vars

\* do_POST, pause: once the request is answered at most the sample of the round under
\* way is still sent, until a resume.
PauseHolds == paused => samples <= 1

\* do_POST, seek, "jumped to row": the first sample whose round begins after the
\* request is the row sought, or the one behind it when the request came between
\* a round's sending and its advancing.
SeekLands ==
  [][out' # out /\ aim # NoRow /\ ~late => out'.row \in {aim, (aim + 1) % Rows}]_vars

\* The replay loops: unless it is stopped or paused for good, every row is sent again
\* and again, whatever is sought and however the lock is fought for.
EveryRowIsReplayed ==
  [](pc # "stopped") /\ <>[]~paused => \A row \in RowIds : []<>(out.row = row)

\* GracefulShutdown: a shutdown request ends the main thread, also while it is paused.
ShutdownStops == stopping ~> pc = "stopped"
===============================================================================
