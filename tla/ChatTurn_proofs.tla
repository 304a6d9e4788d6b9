---------------------------- MODULE ChatTurn_proofs ----------------------------
(***************************************************************************)
(* Proofs about ChatTurn, for any characters, answers of any length, any   *)
(* number of tool calls and any set of components.  What a recursive       *)
(* function computes is proved by the smallest counterexample.             *)
(***************************************************************************)
EXTENDS ChatTurn, TLAPS, SequenceTheorems, WellFoundedInduction

(***************************************************************************)
(* A turn ends with words                                                  *)
(***************************************************************************)

\* What has been emitted of an answer was sent to the user in this turn, and no answer
\* is begun with the mark of the one before it: so the end of an answer that trusts the
\* mark instead of sending an apology is right.
MarkIsTrue ==
  /\ emitted => Streaming /\ phase \in said
  /\ NoSilentTurn

LEMMA SentIsPhase ==
  ASSUME NEW f, NEW g
  PROVE  Sent(f, g) \in {{}, {phase}} /\ (Sent(f, g) # {} => Sent(f, g) = {phase})
BY DEF Sent

LEMMA PhasesAreWords == \A p \in {"answer", "summary"} : p \notin Widgets
BY DEF Widgets

LEMMA MarkContent ==
  ASSUME MarkIsTrue, NEW chunk, Content(chunk) PROVE MarkIsTrue'
<1>1. Streaming /\ phase' = phase /\ Streaming'
  BY DEF Content, Streaming
<1>2. emitted' => phase \in said'
  BY DEF Content, Emits, Sent, MarkIsTrue
<1>3. phase # "done"
  BY <1>1 DEF Streaming
<1> QED BY <1>1, <1>2, <1>3 DEF MarkIsTrue, NoSilentTurn

LEMMA MarkAnswerEnds ==
  ASSUME MarkIsTrue, NEW reason, AnswerEnds(reason) PROVE MarkIsTrue'
<1>1. ~emitted'
  BY DEF AnswerEnds, NewText
<1>2. CASE calls # <<>>
  BY <1>1, <1>2 DEF AnswerEnds, MarkIsTrue, NoSilentTurn
<1>3. CASE calls = <<>> /\ Visible
  <2>1. "answer" \in said \cup Flushed
    BY <1>3, SentIsPhase DEF AnswerEnds, Visible, Flushed, MarkIsTrue
  <2>2. "answer" \in said'
    BY <2>1 DEF AnswerEnds
  <2> QED BY <1>1, <2>2, PhasesAreWords DEF MarkIsTrue, NoSilentTurn
<1>4. CASE calls = <<>> /\ ~Visible
  <2>1. "narrower" \in said' \/ "rephrase" \in said'
    BY <1>4 DEF AnswerEnds
  <2> QED BY <1>1, <2>1 DEF MarkIsTrue, NoSilentTurn, Widgets
<1> QED BY <1>2, <1>3, <1>4

LEMMA MarkSummaryEnds ==
  ASSUME MarkIsTrue, SummaryEnds PROVE MarkIsTrue'
<1>1. ~emitted'
  BY DEF SummaryEnds, NewAnswer, NewText
<1>2. CASE Visible
  <2>1. "summary" \in said \cup Flushed
    BY <1>2, SentIsPhase DEF SummaryEnds, Visible, Flushed, MarkIsTrue
  <2>2. "summary" \in said'
    BY <2>1 DEF SummaryEnds
  <2> QED BY <1>1, <2>2, PhasesAreWords DEF MarkIsTrue, NoSilentTurn
<1>3. CASE ~Visible
  <2>1. "synthesis_error" \in said'
    BY <1>3 DEF SummaryEnds
  <2> QED BY <1>1, <2>1 DEF MarkIsTrue, NoSilentTurn, Widgets
<1> QED BY <1>2, <1>3

LEMMA MarkStep == MarkIsTrue /\ [Next]_vars => MarkIsTrue'
<1> SUFFICES ASSUME MarkIsTrue, [Next]_vars PROVE MarkIsTrue'
  OBVIOUS
<1> USE DEF MarkIsTrue, NoSilentTurn, Streaming
<1>1. CASE Ask
  BY <1>1 DEF Ask, stream
<1>2. CASE Resolve
  BY <1>2 DEF Resolve, stream, Widgets
<1>3. ASSUME NEW chunk, Content(chunk) PROVE MarkIsTrue'
  BY <1>3, MarkContent
<1>4. ASSUME NEW i \in 1..MaxCalls, Fragment(i) PROVE MarkIsTrue'
  BY <1>4 DEF Fragment
<1>5. ASSUME NEW reason, AnswerEnds(reason) PROVE MarkIsTrue'
  BY <1>5, MarkAnswerEnds
<1>6. CASE SummaryEnds
  BY <1>6, MarkSummaryEnds
<1>7. CASE StreamBreaks
  BY <1>7 DEF StreamBreaks, NewAnswer, NewText, Widgets
<1>8. ASSUME NEW tool \in Tools, RunTool(tool) PROVE MarkIsTrue'
  BY <1>8 DEF RunTool, Executing, Returns, stream
<1>9. ASSUME NEW tool \in Tools, ToolRaises(tool) PROVE MarkIsTrue'
  BY <1>9 DEF ToolRaises, NewAnswer, NewText, Widgets
<1>10. CASE RunAnalysis
  BY <1>10 DEF RunAnalysis, Analyse, Executing, Returns, stream
<1>11. CASE Deliver
  BY <1>11 DEF Deliver, NewAnswer, NewText, Widgets
<1>12. CASE Disconnect
  BY <1>12 DEF Disconnect, NewAnswer, NewText
<1>13. ASSUME NEW s \in Components, Expire(s) PROVE MarkIsTrue'
  BY <1>13 DEF Expire, stream
<1>14. CASE UNCHANGED vars
  BY <1>14 DEF vars, stream, models
<1> QED BY <1>1, <1>2, <1>3, <1>4, <1>5, <1>6, <1>7, <1>8, <1>9, <1>10, <1>11, <1>12,
           <1>13, <1>14 DEF Next

\* No turn that the user stays for ends without words, however the answer is cut, broken
\* off or spent on thinking, and whatever the tools return (orchestrator.py:500).
THEOREM NoTurnIsSilent == Spec => []NoSilentTurn
<1>1. Init => MarkIsTrue
  BY DEF Init, MarkIsTrue, NoSilentTurn
<1>2. MarkIsTrue => NoSilentTurn
  BY DEF MarkIsTrue
<1> QED BY <1>1, <1>2, MarkStep, PTL DEF Spec

(***************************************************************************)
(* A model is trained once in its life                                     *)
(***************************************************************************)

\* A component without a model in the cache has not been charged with a training since
\* the last expiry; the first analysis that trains one keeps it, even if it then fails.
CacheIsCharged ==
  /\ cache \subseteq Components
  /\ trained \in [Components -> {0, 1}]
  /\ \A s \in Components : s \notin cache => trained[s] = 0

LEMMA ChargeAnalysis ==
  ASSUME CacheIsCharged, NEW fit \in SUBSET Components, NEW latest, Analyse(fit, latest)
  PROVE  CacheIsCharged'
<1>1. cache' = cache \cup fit
  BY DEF Analyse, Kept
<1>2. \A s \in Components : trained'[s] = trained[s] + IF s \in fit \ cache THEN 1 ELSE 0
  BY DEF Analyse
<1>3. \A s \in Components : trained'[s] \in {0, 1} /\ (s \notin cache' => trained'[s] = 0)
  <2> TAKE s \in Components
  <2>1. CASE s \in fit \ cache
    BY <1>1, <1>2, <2>1 DEF CacheIsCharged
  <2>2. CASE s \notin fit \ cache
    BY <1>1, <1>2, <2>2 DEF CacheIsCharged
  <2> QED BY <2>1, <2>2
<1>4. trained' = [s \in Components |-> trained'[s]]
  BY DEF Analyse
<1>5. trained' \in [Components -> {0, 1}]
  BY <1>3, <1>4
<1> QED BY <1>1, <1>3, <1>5 DEF CacheIsCharged

LEMMA ChargeStep == CacheIsCharged /\ [Next]_vars => CacheIsCharged'
<1> SUFFICES ASSUME CacheIsCharged, [Next]_vars PROVE CacheIsCharged'
  OBVIOUS
<1>1. CASE RunAnalysis
  <2>1. PICK wanted \in {{}, Components} \cup {{s} : s \in Components} :
          \E fit \in SUBSET wanted, latest \in SUBSET wanted : Analyse(fit, latest)
    BY <1>1 DEF RunAnalysis
  <2>2. wanted \subseteq Components
    BY <2>1
  <2> QED BY <2>1, <2>2, ChargeAnalysis
<1>2. ASSUME NEW s \in Components, Expire(s) PROVE CacheIsCharged'
  BY <1>2 DEF Expire, CacheIsCharged
<1>3. CASE UNCHANGED models
  BY <1>3 DEF models, CacheIsCharged
<1> QED BY <1>1, <1>2, <1>3 DEF Next, vars, models, Ask, Resolve, Content, Fragment, AnswerEnds,
           SummaryEnds, StreamBreaks, RunTool, ToolRaises, Deliver, Disconnect

\* From its training to its expiry a component's model is the only one trained, whichever
\* analyses succeed, fail or repeat (anomaly_service.py:205-223).
THEOREM ModelsAreTrainedOnce == Spec => []TrainedOnce
<1>1. Init => CacheIsCharged
  BY DEF Init, CacheIsCharged
<1>2. CacheIsCharged => TrainedOnce
  BY DEF CacheIsCharged, TrainedOnce
<1> QED BY <1>1, <1>2, ChargeStep, PTL DEF Spec

(***************************************************************************)
(* Texts, and where a tag begins in them                                   *)
(***************************************************************************)

LEMMA LeastNumber ==
  ASSUME NEW T, T \subseteq Nat, T # {}
  PROVE  \E n \in T : \A m \in T : n <= m
<1> DEFINE R == OpToRel(<, Nat)
<1>1. IsWellFoundedOn(R, Nat)
  BY NatLessThanWellFounded
<1>2. \A x, y \in Nat : <<x, y>> \in R <=> x < y
  BY DEF OpToRel
<1> HIDE DEF R
<1>3. PICK n \in T : \A m \in T : ~(<<m, n>> \in R)
  BY <1>1, WFMin
<1>4. \A m \in T : ~(m < n)
  BY <1>2, <1>3, Zenon
<1> QED BY <1>4

Matches(tag, str, i) ==
  i \in 1..(Len(str) - Len(tag) + 1) /\ \A k \in 1..Len(tag) : str[i + k - 1] = tag[k]

LEMMA TagFacts ==
  \A tag \in {START, END} : tag \in Seq({"<", "/", "t"}) /\ Len(tag) \in {2, 3}
<1>1. START \in Seq({"<", "/", "t"}) /\ Len(START) = 2
  BY DEF START
<1>2. END \in Seq({"<", "/", "t"}) /\ Len(END) = 3
  BY DEF END
<1> QED BY <1>1, <1>2

Text == Seq(Chars)

LEMMA TextFacts ==
  /\ \A s \in Text : Len(s) \in Nat /\ \A i \in 1..Len(s) : s[i] \in Chars
  /\ \A s, t \in Text :
       /\ s \o t \in Text /\ Len(s \o t) = Len(s) + Len(t)
       /\ \A i \in 1..(Len(s) + Len(t)) :
            (s \o t)[i] = IF i <= Len(s) THEN s[i] ELSE t[i - Len(s)]
  /\ \A s, t, u \in Text : (s \o t) \o u = s \o (t \o u)
<1>1. \A s \in Text : Len(s) \in Nat /\ \A i \in 1..Len(s) : s[i] \in Chars
  BY LenProperties, ElementOfSeq DEF Text
<1>2. ASSUME NEW s \in Text, NEW t \in Text
      PROVE  /\ s \o t \in Text /\ Len(s \o t) = Len(s) + Len(t)
             /\ \A i \in 1..(Len(s) + Len(t)) :
                  (s \o t)[i] = IF i <= Len(s) THEN s[i] ELSE t[i - Len(s)]
  BY ConcatProperties DEF Text
<1>3. ASSUME NEW s \in Text, NEW t \in Text, NEW u \in Text
      PROVE  (s \o t) \o u = s \o (t \o u)
  BY ConcatAssociative DEF Text
<1> QED BY <1>1, <1>2, <1>3

LEMMA TextConcat ==
  ASSUME NEW s \in Text, NEW t \in Text
  PROVE  /\ s \o t \in Text /\ Len(s \o t) = Len(s) + Len(t)
         /\ Len(s) \in Nat /\ Len(t) \in Nat
         /\ \A i \in 1..(Len(s) + Len(t)) :
              (s \o t)[i] = IF i <= Len(s) THEN s[i] ELSE t[i - Len(s)]
BY TextFacts

LEMMA MatchIsSubSeq ==
  ASSUME NEW str \in Text, NEW tag \in {START, END},
         NEW i \in 1..(Len(str) - Len(tag) + 1)
  PROVE  SubSeq(str, i, i + Len(tag) - 1) = tag <=> Matches(tag, str, i)
<1> DEFINE C == Chars \cup {"<", "/", "t"}
           sub == SubSeq(str, i, i + Len(tag) - 1)
<1>1. tag \in Seq(C) /\ Len(tag) \in {2, 3}
  BY TagFacts, SeqMonotonic
<1>2. Len(str) \in Nat /\ \A j \in 1..Len(str) : str[j] \in Chars
  BY TextFacts
<1>5. \A j \in i..(i + Len(tag) - 1) : j \in 1..Len(str) /\ str[j] \in C
  BY <1>1, <1>2
<1>3. sub \in Seq(C) /\ Len(sub) = Len(tag) /\ \A k \in 1..Len(tag) : sub[k] = str[i + k - 1]
  BY <1>1, <1>5, SubSeqProperties
<1>4. sub = tag <=> \A k \in 1..Len(tag) : sub[k] = tag[k]
  BY <1>1, <1>3, SeqEqual
<1> QED BY <1>3, <1>4 DEF Matches

LEMMA FindFacts ==
  ASSUME NEW str \in Text, NEW tag \in {START, END}
  PROVE  \/ Find(tag, str) = 0 /\ \A i : ~Matches(tag, str, i)
         \/ /\ Find(tag, str) \in Nat \ {0} /\ Matches(tag, str, Find(tag, str))
            /\ \A i \in Nat : i < Find(tag, str) => ~Matches(tag, str, i)
<1> DEFINE at == {i \in 1..(Len(str) - Len(tag) + 1) : SubSeq(str, i, i + Len(tag) - 1) = tag}
<1>1. \A i : i \in at <=> Matches(tag, str, i)
  BY MatchIsSubSeq DEF Matches
<1>2. Find(tag, str) = IF at = {} THEN 0 ELSE Min(at)
  BY DEF Find
<1>3. at \subseteq Nat \ {0}
  OBVIOUS
<1> HIDE DEF at
<1>4. CASE at = {}
  BY <1>1, <1>2, <1>4
<1>5. CASE at # {}
  <2>1. \E n \in at : \A m \in at : n <= m
    BY <1>3, <1>5, LeastNumber
  <2>2. Min(at) \in at /\ \A m \in at : Min(at) <= m
    BY <2>1 DEF Min
  <2>3. \A i \in Nat : i < Min(at) => i \notin at
    <3>1. SUFFICES ASSUME NEW i \in Nat, i \in at PROVE ~(i < Min(at))
      OBVIOUS
    <3>2. Min(at) <= i /\ Min(at) \in Nat
      BY <1>3, <2>2, <3>1
    <3> QED BY <3>2
  <2> QED BY <1>1, <1>2, <1>3, <1>5, <2>2, <2>3
<1> QED BY <1>4, <1>5

\* Which value Find has.
LEMMA FindIs ==
  ASSUME NEW str \in Text, NEW tag \in {START, END}
  PROVE  /\ (\A i \in Nat : ~Matches(tag, str, i)) => Find(tag, str) = 0
         /\ \A j \in Nat \ {0} :
              Matches(tag, str, j) /\ (\A i \in Nat : i < j => ~Matches(tag, str, i))
                => Find(tag, str) = j
BY FindFacts

\* An occurrence lies in the first part of a text, or in the second, as it does there.
LEMMA MatchConcat ==
  ASSUME NEW p \in Text, NEW u \in Text, NEW tag \in {START, END}, NEW i \in Nat \ {0}
  PROVE  /\ i + Len(tag) - 1 <= Len(p) => (Matches(tag, p \o u, i) <=> Matches(tag, p, i))
         /\ Matches(tag, p \o u, Len(p) + i) <=> Matches(tag, u, i)
<1>0. Len(tag) \in {2, 3} /\ Len(p) \in Nat /\ Len(u) \in Nat /\ Len(p \o u) = Len(p) + Len(u)
  BY TagFacts, TextFacts
<1>1. \A k \in 1..Len(p) : (p \o u)[k] = p[k]
  BY <1>0, TextFacts
<1>2. \A k \in 1..Len(u) : (p \o u)[Len(p) + k] = u[k]
  <2> TAKE k \in 1..Len(u)
  <2>1. Len(p) + k \in 1..(Len(p) + Len(u)) /\ ~(Len(p) + k <= Len(p)) /\ (Len(p) + k) - Len(p) = k
    BY <1>0
  <2> QED BY <2>1, TextFacts
<1>3. ASSUME i + Len(tag) - 1 <= Len(p)
      PROVE  Matches(tag, p \o u, i) <=> Matches(tag, p, i)
  <2>1. \A k \in 1..Len(tag) : i + k - 1 \in 1..Len(p)
    BY <1>0, <1>3
  <2>2. i \in 1..(Len(p) - Len(tag) + 1) /\ i \in 1..(Len(p \o u) - Len(tag) + 1)
    BY <1>0, <1>3
  <2> QED BY <1>1, <2>1, <2>2 DEF Matches
<1>4. Matches(tag, p \o u, Len(p) + i) <=> Matches(tag, u, i)
  <2>1. Len(p) + i \in 1..(Len(p \o u) - Len(tag) + 1) <=> i \in 1..(Len(u) - Len(tag) + 1)
    BY <1>0
  <2>2. ASSUME i \in 1..(Len(u) - Len(tag) + 1), NEW k \in 1..Len(tag)
        PROVE  (p \o u)[Len(p) + i + k - 1] = u[i + k - 1]
    <3>1. i + k - 1 \in 1..Len(u) /\ Len(p) + i + k - 1 = Len(p) + (i + k - 1)
      BY <1>0, <2>2
    <3> QED BY <1>2, <3>1
  <2> QED BY <2>1, <2>2 DEF Matches
<1> QED BY <1>3, <1>4

LEMMA FindInFront ==
  ASSUME NEW p \in Text, NEW u \in Text, NEW tag \in {START, END}, Find(tag, p) # 0
  PROVE  Find(tag, p \o u) = Find(tag, p)
<1> DEFINE j == Find(tag, p)
<1>1. j \in Nat \ {0} /\ Matches(tag, p, j) /\ \A i \in Nat : i < j => ~Matches(tag, p, i)
  BY FindFacts
<1>2. Len(tag) \in {2, 3} /\ Len(p) \in Nat /\ p \o u \in Text
  BY TagFacts, TextFacts
<1> HIDE DEF j
<1>3. j + Len(tag) - 1 <= Len(p)
  BY <1>1, <1>2 DEF Matches
<1>4. Matches(tag, p \o u, j)
  <2>1. j \in Nat \ {0} /\ Matches(tag, p, j)
    BY <1>1
  <2> QED BY <2>1, <1>2, <1>3, MatchConcat
<1>5. \A i \in Nat : i < j => ~Matches(tag, p \o u, i)
  <2> SUFFICES ASSUME NEW i \in Nat, i < j, Matches(tag, p \o u, i) PROVE FALSE
    OBVIOUS
  <2>1. i \in Nat \ {0}
    BY DEF Matches
  <2>2. i + Len(tag) - 1 <= Len(p)
    BY <1>1, <1>2, <1>3
  <2>3. Matches(tag, p, i)
    BY <1>2, <2>1, <2>2, MatchConcat
  <2> QED BY <1>1, <2>3
<1>6. Find(tag, p \o u) = j
  BY <1>1, <1>2, <1>4, <1>5, FindIs
<1> QED BY <1>6 DEF j

LEMMA FindBehind ==
  ASSUME NEW p \in Text, NEW u \in Text, NEW tag \in {START, END},
         \A i \in 1..Len(p) : ~Matches(tag, p \o u, i)
  PROVE  Find(tag, p \o u) = IF Find(tag, u) = 0 THEN 0 ELSE Len(p) + Find(tag, u)
<1> DEFINE j == Find(tag, u)
<1>1. Len(p) \in Nat /\ p \o u \in Text
  BY TextFacts
<1>2. \A i \in Nat : Matches(tag, p \o u, i) => i - Len(p) \in Nat \ {0} /\ Matches(tag, u, i - Len(p))
  <2> SUFFICES ASSUME NEW i \in Nat, Matches(tag, p \o u, i)
               PROVE  i - Len(p) \in Nat \ {0} /\ Matches(tag, u, i - Len(p))
    OBVIOUS
  <2>1. i # 0
    BY DEF Matches
  <2>2. i \notin 1..Len(p)
    OBVIOUS
  <2>3. PICK k \in Nat \ {0} : i = Len(p) + k /\ k = i - Len(p)
    BY <1>1, <2>1, <2>2
  <2>4. Matches(tag, u, k)
    BY <2>3, MatchConcat
  <2> QED BY <2>3, <2>4
<1>3. CASE j = 0
  <2>1. \A i : ~Matches(tag, u, i)
    BY <1>3, FindFacts
  <2> QED BY <1>1, <1>2, <1>3, <2>1, FindIs
<1>4. CASE j # 0
  <2>1. j \in Nat \ {0} /\ Matches(tag, u, j) /\ \A i \in Nat : i < j => ~Matches(tag, u, i)
    BY <1>4, FindFacts
  <2> HIDE DEF j
  <2>2. Len(p) + j \in Nat \ {0} /\ Matches(tag, p \o u, Len(p) + j)
    BY <1>1, <2>1, MatchConcat
  <2>3. \A i \in Nat : i < Len(p) + j => ~Matches(tag, p \o u, i)
    <3> SUFFICES ASSUME NEW i \in Nat, i < Len(p) + j, Matches(tag, p \o u, i) PROVE FALSE
      OBVIOUS
    <3>1. i - Len(p) \in Nat /\ i - Len(p) < j
      BY <1>1, <1>2, <2>1
    <3> QED BY <1>2, <2>1, <3>1
  <2>4. Find(tag, p \o u) = Len(p) + j
    BY <1>1, <2>2, <2>3, FindIs
  <2> QED BY <1>4, <2>4 DEF j
<1> QED BY <1>3, <1>4

\* What is passed on holds no start of a tag, whatever comes behind the tail held back.
LEMMA NoMatchAcross ==
  ASSUME NEW p \in Text, NEW r \in Text, NEW x \in Text, NEW tag \in {START, END},
         Find(tag, p \o r) = 0, Len(r) = Len(tag) - 1
  PROVE  \A i \in 1..Len(p) : ~Matches(tag, p \o (r \o x), i)
<1> TAKE i \in 1..Len(p)
<1>1. Len(tag) \in {2, 3} /\ Len(p) \in Nat /\ p \o r \in Text /\ Len(p \o r) = Len(p) + Len(r)
  BY TagFacts, TextFacts
<1>2. i \in Nat \ {0} /\ i + Len(tag) - 1 <= Len(p \o r)
  BY <1>1
<1>3. p \o (r \o x) = (p \o r) \o x
  BY TextFacts
<1>4. ~Matches(tag, p \o r, i)
  BY <1>1, FindFacts
<1> QED BY <1>1, <1>2, <1>3, <1>4, MatchConcat

(***************************************************************************)
(* Cutting a text in two                                                   *)
(***************************************************************************)
First(s, n) == SubSeq(s, 1, n)
From(s, n) == SubSeq(s, n + 1, Len(s))

LEMMA TextEqual ==
  \A s, t \in Text : Len(s) = Len(t) /\ (\A i \in 1..Len(s) : s[i] = t[i]) => s = t
BY SeqEqual DEF Text

LEMMA CutFacts ==
  ASSUME NEW s \in Text, NEW n \in 0..Len(s)
  PROVE  /\ First(s, n) \in Text /\ Len(First(s, n)) = n
         /\ \A i \in 1..n : First(s, n)[i] = s[i]
         /\ From(s, n) \in Text /\ Len(From(s, n)) = Len(s) - n
         /\ \A i \in 1..(Len(s) - n) : From(s, n)[i] = s[n + i]
         /\ s = First(s, n) \o From(s, n)
<1>0. Len(s) \in Nat /\ \A i \in 1..Len(s) : s[i] \in Chars
  BY TextFacts
<1>1. First(s, n) \in Text /\ Len(First(s, n)) = n /\ \A i \in 1..n : First(s, n)[i] = s[i]
  <2>1. \A i \in 1..n : s[i] \in Chars
    BY <1>0
  <2>2. /\ SubSeq(s, 1, n) \in Seq(Chars) /\ Len(SubSeq(s, 1, n)) = IF 1 <= n THEN n - 1 + 1 ELSE 0
        /\ \A i \in 1..(n - 1 + 1) : SubSeq(s, 1, n)[i] = s[1 + i - 1]
    BY <1>0, <2>1, SubSeqProperties
  <2> QED BY <1>0, <2>2 DEF First, Text
<1>2. /\ From(s, n) \in Text /\ Len(From(s, n)) = Len(s) - n
      /\ \A i \in 1..(Len(s) - n) : From(s, n)[i] = s[n + i]
  <2> DEFINE m == n + 1
             l == Len(s)
  <2>1. m \in Int /\ l \in Int /\ \A i \in m..l : s[i] \in Chars
    BY <1>0
  <2> HIDE DEF m, l
  <2>2. /\ SubSeq(s, m, l) \in Seq(Chars)
        /\ \A i \in 1..(l - m + 1) : SubSeq(s, m, l)[i] = s[m + i - 1]
    BY <2>1, SubSeqProperties
  <2>6. Len(SubSeq(s, m, l)) = IF m <= l THEN l - m + 1 ELSE 0
    BY <2>1, SubSeqProperties
  <2>3. l - m + 1 = Len(s) - n /\ \A i \in Nat : m + i - 1 = n + i
    BY <1>0 DEF m, l
  <2>4. Len(SubSeq(s, m, l)) = Len(s) - n
    <3>1. CASE n = l
      BY <1>0, <2>6, <3>1 DEF m, l
    <3>2. CASE n # l
      BY <1>0, <2>6, <3>2 DEF m, l
    <3> QED BY <3>1, <3>2
  <2>5. \A i \in 1..(Len(s) - n) : SubSeq(s, m, l)[i] = s[n + i]
    BY <1>0, <2>2, <2>3
  <2> QED BY <2>2, <2>4, <2>5 DEF From, Text, m, l
<1>3. s = First(s, n) \o From(s, n)
  <2> DEFINE a == First(s, n)
             b == From(s, n)
             c == a \o b
  <2>0. a \in Text /\ b \in Text /\ Len(a) = n /\ Len(b) = Len(s) - n
    BY <1>1, <1>2
  <2> HIDE DEF a, b
  <2>1. /\ c \in Text /\ Len(c) = Len(s)
        /\ \A i \in 1..Len(s) : c[i] = IF i <= n THEN a[i] ELSE b[i - n]
    <3>1. /\ c \in Text /\ Len(c) = Len(a) + Len(b)
          /\ \A i \in 1..(Len(a) + Len(b)) : c[i] = IF i <= Len(a) THEN a[i] ELSE b[i - Len(a)]
      BY <2>0, TextConcat
    <3>2. Len(a) + Len(b) = Len(s)
      BY <1>0, <2>0
    <3> QED BY <2>0, <3>1, <3>2
  <2> USE DEF a, b
  <2> HIDE DEF c
  <2>2. ASSUME NEW i \in 1..Len(s) PROVE c[i] = s[i]
    <3>1. CASE i <= n
      BY <1>0, <1>1, <2>1, <3>1
    <3>2. CASE i > n
      <4>1. PICK k \in 1..(Len(s) - n) : k = i - n /\ n + k = i
        BY <1>0, <3>2
      <4> QED BY <1>0, <1>2, <2>1, <3>2, <4>1
    <3> QED BY <1>0, <3>1, <3>2
  <2>3. c = s
    BY <2>1, <2>2, TextEqual
  <2> QED BY <2>3 DEF c
<1> QED BY <1>1, <1>2, <1>3

\* A text has only one cut at each place.
LEMMA OneCut ==
  ASSUME NEW p \in Text, NEW u \in Text
  PROVE  First(p \o u, Len(p)) = p /\ From(p \o u, Len(p)) = u
<1> DEFINE s == p \o u
           n == Len(p)
<1>0. /\ s \in Text /\ Len(s) = n + Len(u) /\ n \in Nat /\ Len(u) \in Nat
      /\ \A i \in 1..(n + Len(u)) : s[i] = IF i <= n THEN p[i] ELSE u[i - n]
  BY TextConcat
<1> HIDE DEF s, n
<1>1. n \in 0..Len(s) /\ \A i \in 1..n : s[i] = p[i]
  BY <1>0
<1>2. First(s, n) = p
  <2>1. First(s, n) \in Text /\ Len(First(s, n)) = n /\ \A i \in 1..n : First(s, n)[i] = p[i]
    BY <1>0, <1>1, CutFacts
  <2> QED BY <2>1, TextEqual DEF n
<1>3. From(s, n) = u
  <2>1. /\ From(s, n) \in Text /\ Len(From(s, n)) = Len(u)
        /\ \A i \in 1..Len(u) : From(s, n)[i] = s[n + i]
    <3>1. Len(s) - n = Len(u)
      BY <1>0
    <3>2. /\ From(s, n) \in Text /\ Len(From(s, n)) = Len(s) - n
          /\ \A i \in 1..(Len(s) - n) : From(s, n)[i] = s[n + i]
      BY <1>0, <1>1, CutFacts
    <3> QED BY <3>1, <3>2
  <2>2. ASSUME NEW i \in 1..Len(u) PROVE s[n + i] = u[i]
    <3>1. PICK k \in 1..(n + Len(u)) : k = n + i /\ ~(k <= n) /\ k - n = i
      BY <1>0
    <3> QED BY <1>0, <3>1
  <2> QED BY <2>1, <2>2, TextEqual
<1> QED BY <1>2, <1>3 DEF s, n

\* Cutting within the first part, or within the second part.
LEMMA CutOfConcat ==
  ASSUME NEW p \in Text, NEW u \in Text
  PROVE  /\ \A n \in 0..Len(p) : /\ First(p \o u, n) = First(p, n)
                                 /\ From(p \o u, n) = From(p, n) \o u
         /\ \A n \in 0..Len(u) : /\ First(p \o u, Len(p) + n) = p \o First(u, n)
                                 /\ From(p \o u, Len(p) + n) = From(u, n)
<1>0. Len(p) \in Nat /\ Len(u) \in Nat
  BY TextFacts
<1>1. ASSUME NEW n \in 0..Len(p)
      PROVE  First(p \o u, n) = First(p, n) /\ From(p \o u, n) = From(p, n) \o u
  <2> DEFINE a == First(p, n)
             b == From(p, n)
  <2>1. a \in Text /\ b \in Text /\ Len(a) = n /\ p = a \o b
    BY CutFacts
  <2> HIDE DEF a, b
  <2>2. p \o u = a \o (b \o u) /\ b \o u \in Text
    BY <2>1, TextFacts
  <2>3. First(a \o (b \o u), Len(a)) = a /\ From(a \o (b \o u), Len(a)) = b \o u
    BY <2>1, <2>2, OneCut
  <2> QED BY <2>1, <2>2, <2>3 DEF a, b
<1>2. ASSUME NEW n \in 0..Len(u)
      PROVE  First(p \o u, Len(p) + n) = p \o First(u, n) /\ From(p \o u, Len(p) + n) = From(u, n)
  <2> DEFINE a == First(u, n)
             b == From(u, n)
  <2>1. a \in Text /\ b \in Text /\ Len(a) = n /\ u = a \o b
    BY CutFacts
  <2> HIDE DEF a, b
  <2>2. p \o u = (p \o a) \o b /\ p \o a \in Text /\ Len(p \o a) = Len(p) + n
    BY <2>1, TextFacts
  <2>3. First((p \o a) \o b, Len(p \o a)) = p \o a /\ From((p \o a) \o b, Len(p \o a)) = b
    BY <2>1, <2>2, OneCut
  <2> QED BY <2>1, <2>2, <2>3 DEF a, b
<1> QED BY <1>1, <1>2

(***************************************************************************)
(* Outside is well defined                                                 *)
(***************************************************************************)

\* The right-hand side of Outside's definition, for any function in its place.
Body(g, prose) ==
  LET open == Find(START, prose)
      after == SubSeq(prose, open + Len(START), Len(prose))
      close == Find(END, after) IN
  CASE open = 0 -> prose
    [] open # 0 /\ close = 0 -> SubSeq(prose, 1, open - 1)
    [] OTHER -> SubSeq(prose, 1, open - 1) \o g[SubSeq(after, close + Len(END), Len(after))]

\* The thinking that begins a text, up to its end, is left out of what follows.
After(prose) == From(prose, Find(START, prose) + 1)
Beyond(prose) == From(prose, Find(END, prose) + 2)
Resumed(g, prose) == IF Find(END, prose) = 0 THEN <<>> ELSE g[Beyond(prose)]
Unfolded(g, prose) ==
  IF Find(START, prose) = 0 THEN prose
  ELSE First(prose, Find(START, prose) - 1) \o Resumed(g, After(prose))

LEMMA FindFits ==
  ASSUME NEW s \in Text, NEW tag \in {START, END}
  PROVE  /\ Find(tag, s) \in Nat /\ Len(s) \in Nat /\ Len(START) = 2 /\ Len(END) = 3
         /\ Find(tag, s) # 0 => Find(tag, s) + Len(tag) - 1 <= Len(s)
<1>1. Len(s) \in Nat /\ Len(START) = 2 /\ Len(END) = 3
  BY TextFacts DEF START, END
<1>2. CASE Find(tag, s) = 0
  BY <1>1, <1>2
<1>3. CASE Find(tag, s) # 0
  <2>1. Find(tag, s) \in Nat \ {0} /\ Matches(tag, s, Find(tag, s))
    BY <1>3, FindFacts
  <2>2. Find(tag, s) \in 1..(Len(s) - Len(tag) + 1)
    BY <2>1 DEF Matches
  <2>3. Len(tag) \in Nat
    BY <1>1
  <2> QED BY <1>1, <2>1, <2>2, <2>3
<1> QED BY <1>2, <1>3

LEMMA FindLeavesRoom ==
  ASSUME NEW s \in Text
  PROVE  /\ Find(START, s) # 0 => Find(START, s) + 1 <= Len(s)
         /\ Find(END, s) # 0 => Find(END, s) + 2 <= Len(s)
<1>1. /\ Find(START, s) \in Nat /\ Len(START) = 2
      /\ Find(START, s) # 0 => Find(START, s) + Len(START) - 1 <= Len(s)
  BY FindFits
<1>2. /\ Find(END, s) \in Nat /\ Len(END) = 3
      /\ Find(END, s) # 0 => Find(END, s) + Len(END) - 1 <= Len(s)
  BY FindFits
<1> QED BY <1>1, <1>2

LEMMA PartsOfText ==
  ASSUME NEW s \in Text
  PROVE  /\ Find(START, s) # 0 =>
              /\ First(s, Find(START, s) - 1) \in Text
              /\ After(s) \in Text /\ Len(After(s)) < Len(s)
         /\ Find(END, s) # 0 => Beyond(s) \in Text /\ Len(Beyond(s)) < Len(s)
<1>1. ASSUME Find(START, s) # 0
      PROVE  First(s, Find(START, s) - 1) \in Text /\ After(s) \in Text /\ Len(After(s)) < Len(s)
  <2> DEFINE n == Find(START, s)
  <2>1. n \in Nat /\ n # 0 /\ n + 1 <= Len(s) /\ Len(s) \in Nat
    BY <1>1, FindFits, FindLeavesRoom
  <2>2. n - 1 \in 0..Len(s) /\ n + 1 \in 0..Len(s)
    BY <2>1
  <2> HIDE DEF n
  <2>3. First(s, n - 1) \in Text /\ From(s, n + 1) \in Text /\ Len(From(s, n + 1)) = Len(s) - (n + 1)
    BY <2>2, CutFacts
  <2>4. Len(From(s, n + 1)) < Len(s)
    BY <2>1, <2>3
  <2> QED BY <2>3, <2>4 DEF After, n
<1>2. ASSUME Find(END, s) # 0
      PROVE  Beyond(s) \in Text /\ Len(Beyond(s)) < Len(s)
  <2> DEFINE n == Find(END, s)
  <2>1. n \in Nat /\ n # 0 /\ n + 2 <= Len(s) /\ Len(s) \in Nat
    BY <1>2, FindFits, FindLeavesRoom
  <2>2. n + 2 \in 0..Len(s)
    BY <2>1
  <2> HIDE DEF n
  <2>3. From(s, n + 2) \in Text /\ Len(From(s, n + 2)) = Len(s) - (n + 2)
    BY <2>2, CutFacts
  <2>4. Len(From(s, n + 2)) < Len(s)
    BY <2>1, <2>3
  <2> QED BY <2>3, <2>4 DEF Beyond, n
<1> QED BY <1>1, <1>2

LEMMA BodyIsUnfolded ==
  ASSUME NEW g, NEW prose \in Text
  PROVE  Body(g, prose) = Unfolded(g, prose)
<1>1. Find(START, prose) \in Nat /\ Len(START) = 2 /\ Len(END) = 3
  BY FindFits
<1>2. CASE Find(START, prose) = 0
  BY <1>2 DEF Body, Unfolded
<1>3. CASE Find(START, prose) # 0
  <2> DEFINE after == SubSeq(prose, Find(START, prose) + Len(START), Len(prose))
             front == SubSeq(prose, 1, Find(START, prose) - 1)
  <2>1. Find(START, prose) + Len(START) = (Find(START, prose) + 1) + 1
    BY <1>1
  <2>2. after = After(prose)
    BY <2>1 DEF After, From
  <2>3. After(prose) \in Text
    BY <1>3, PartsOfText
  <2>4. front = First(prose, Find(START, prose) - 1) /\ front \in Text
    BY <1>3, PartsOfText DEF First
  <2>5. Body(g, prose) = IF Find(END, after) = 0 THEN front
                        ELSE front \o g[SubSeq(after, Find(END, after) + Len(END), Len(after))]
    BY <1>3 DEF Body
  <2> HIDE DEF after, front
  <2>6. Find(END, After(prose)) \in Nat
    BY <2>3, FindFits
  <2>7. Find(END, After(prose)) + Len(END) = (Find(END, After(prose)) + 2) + 1
    BY <1>1, <2>6
  <2>8. SubSeq(after, Find(END, after) + Len(END), Len(after)) = Beyond(After(prose))
    BY <2>2, <2>7 DEF Beyond, From
  <2>9. front \o <<>> = front
    BY <2>4, ConcatEmptySeq DEF Text
  <2> QED BY <1>3, <2>2, <2>4, <2>5, <2>8, <2>9 DEF Unfolded, Resumed
<1> QED BY <1>2, <1>3

\* Which functions will do in the place of Outside for the texts shorter than n.
Shorter(n) == {t \in Text : Len(t) < n}
Serves(g, n) == \A t \in Shorter(n) : g[t] = Unfolded(g, t)

LEMMA UnfoldedReadsShorter ==
  ASSUME NEW g, NEW h, NEW t \in Text, \A u \in Shorter(Len(t)) : g[u] = h[u]
  PROVE  Unfolded(g, t) = Unfolded(h, t)
<1>1. CASE Find(START, t) = 0
  BY <1>1 DEF Unfolded
<1>2. CASE Find(START, t) # 0
  <2>1. After(t) \in Text /\ Len(After(t)) < Len(t) /\ Len(t) \in Nat /\ Len(After(t)) \in Nat
    BY <1>2, PartsOfText, TextFacts
  <2>2. CASE Find(END, After(t)) = 0
    BY <2>2 DEF Unfolded, Resumed
  <2>3. CASE Find(END, After(t)) # 0
    <3>1. Beyond(After(t)) \in Text /\ Len(Beyond(After(t))) < Len(After(t)) /\ Len(Beyond(After(t))) \in Nat
      BY <2>1, <2>3, PartsOfText, TextFacts
    <3>2. Beyond(After(t)) \in Shorter(Len(t))
      BY <2>1, <3>1 DEF Shorter
    <3> QED BY <3>2 DEF Unfolded, Resumed
  <2> QED BY <2>2, <2>3
<1> QED BY <1>1, <1>2

LEMMA SomeFunctionServes == \A n \in Nat : \E g : Serves(g, n)
<1> DEFINE T == {n \in Nat : ~\E g : Serves(g, n)}
<1> SUFFICES ASSUME T # {} PROVE FALSE
  OBVIOUS
<1>1. PICK n \in T : \A m \in T : n <= m
  BY LeastNumber
<1>2. n \in Nat /\ ~\E g : Serves(g, n)
  OBVIOUS
<1>3. n # 0
  <2>1. \A t \in Text : ~(Len(t) < 0)
    BY TextFacts
  <2> QED BY <1>2, <2>1 DEF Serves, Shorter
<1>4. n - 1 \in Nat /\ n - 1 \notin T
  BY <1>1, <1>2, <1>3
<1>5. PICK g : Serves(g, n - 1)
  BY <1>4
<1> DEFINE h == [t \in Shorter(n) |-> Unfolded(g, t)]
<1>6. ASSUME NEW t \in Shorter(n) PROVE h[t] = Unfolded(h, t)
  <2>1. t \in Text /\ Len(t) \in Nat /\ Len(t) < n
    BY TextFacts DEF Shorter
  <2>2. ASSUME NEW u \in Shorter(Len(t)) PROVE g[u] = h[u]
    <3>1. u \in Text /\ Len(u) \in Nat /\ Len(u) < Len(t)
      BY TextFacts DEF Shorter
    <3>2. Len(u) < n - 1 /\ Len(u) < n
      BY <1>2, <2>1, <3>1
    <3>3. u \in Shorter(n - 1) /\ u \in Shorter(n)
      BY <3>1, <3>2 DEF Shorter
    <3>4. h[u] = Unfolded(g, u)
      BY <3>3
    <3> QED BY <1>5, <3>3, <3>4 DEF Serves
  <2> HIDE DEF h
  <2>3. Unfolded(g, t) = Unfolded(h, t)
    BY <2>1, <2>2, UnfoldedReadsShorter
  <2> QED BY <2>3 DEF h
<1> QED BY <1>2, <1>6 DEF Serves

\* All that serve agree.
LEMMA ServingAgree ==
  ASSUME NEW m \in Nat, NEW n \in Nat, NEW g, NEW h, Serves(g, m), Serves(h, n)
  PROVE  \A t \in Shorter(m) \cap Shorter(n) : g[t] = h[t]
<1> DEFINE Bad == {t \in Shorter(m) \cap Shorter(n) : g[t] # h[t]}
           T == {k \in Nat : \E t \in Bad : Len(t) = k}
<1> SUFFICES ASSUME Bad # {} PROVE FALSE
  OBVIOUS
<1>1. T \subseteq Nat /\ T # {}
  BY TextFacts DEF Shorter
<1>2. PICK k \in T : \A l \in T : k <= l
  BY <1>1, LeastNumber
<1>3. PICK t \in Bad : Len(t) = k
  OBVIOUS
<1>4. t \in Text /\ k \in Nat
  BY DEF Shorter
<1>5. ASSUME NEW u \in Shorter(Len(t)), g[u] # h[u] PROVE FALSE
  <2>1. u \in Text /\ Len(u) \in Nat /\ Len(u) < k
    BY <1>3, TextFacts DEF Shorter
  <2>2. u \in Shorter(m) /\ u \in Shorter(n)
    BY <1>3, <1>4, <2>1 DEF Shorter
  <2>3. Len(u) \in T
    BY <1>5, <2>1, <2>2
  <2> QED BY <1>2, <1>4, <2>1, <2>3
<1>6. Unfolded(g, t) = Unfolded(h, t)
  BY <1>4, <1>5, UnfoldedReadsShorter
<1> QED BY <1>3, <1>6 DEF Serves

LEMMA OutsideExists == \E g : g = [prose \in Text |-> Body(g, prose)]
<1> DEFINE some(n) == CHOOSE g : Serves(g, n)
           F == [t \in Text |-> some(Len(t) + 1)[t]]
<1>1. \A n \in Nat : Serves(some(n), n)
  BY SomeFunctionServes
<1> HIDE DEF some
<1>2. ASSUME NEW t \in Text PROVE F[t] = Body(F, t)
  <2> DEFINE n == Len(t) + 1
             g == some(n)
  <2>0. Len(t) \in Nat
    BY TextFacts
  <2>1. n \in Nat /\ t \in Shorter(n) /\ Len(t) \in Nat
    BY <2>0 DEF Shorter
  <2>2. Serves(g, n)
    BY <1>1, <2>1
  <2>3. F[t] = Unfolded(g, t)
    BY <2>1, <2>2 DEF Serves
  <2>4. ASSUME NEW u \in Shorter(Len(t)) PROVE g[u] = F[u]
    <3>1. u \in Text /\ Len(u) \in Nat /\ Len(u) < Len(t)
      BY TextFacts DEF Shorter
    <3>2. u \in Shorter(Len(u) + 1) /\ u \in Shorter(n) /\ Len(u) + 1 \in Nat
      BY <2>1, <3>1 DEF Shorter
    <3>3. Serves(some(Len(u) + 1), Len(u) + 1)
      BY <1>1, <3>2
    <3> HIDE DEF g, n
    <3>4. g[u] = some(Len(u) + 1)[u]
      BY <2>1, <2>2, <3>2, <3>3, ServingAgree
    <3> QED BY <3>1, <3>4
  <2> HIDE DEF F
  <2>5. Unfolded(g, t) = Unfolded(F, t)
    BY <2>4, UnfoldedReadsShorter
  <2> QED BY <2>3, <2>5, BodyIsUnfolded
<1>3. F = [t \in Text |-> Body(F, t)]
  <2>1. F = [t \in Text |-> F[t]]
    OBVIOUS
  <2> HIDE DEF F
  <2>2. [t \in Text |-> F[t]] = [t \in Text |-> Body(F, t)]
    BY <1>2
  <2> QED BY <2>1, <2>2
<1> HIDE DEF F
<1> QED BY <1>3

\* The equation that Outside is defined by.
LEMMA OutsideUnfolds == \A prose \in Text : Outside[prose] = Unfolded(Outside, prose)
<1>1. Outside = CHOOSE g : g = [prose \in Text |-> Body(g, prose)]
  BY DEF Outside, Body, Text
<1>2. Outside = [prose \in Text |-> Body(Outside, prose)]
  BY <1>1, OutsideExists
<1>3. \A prose \in Text : Outside[prose] = Body(Outside, prose)
  BY <1>2
<1> QED BY <1>3, BodyIsUnfolded

LEMMA OutsideIsText == \A prose \in Text : Outside[prose] \in Text
<1> DEFINE T == {k \in Nat : \E t \in Text : Len(t) = k /\ Outside[t] \notin Text}
<1> SUFFICES ASSUME T # {} PROVE FALSE
  BY TextFacts
<1>1. PICK k \in T : \A l \in T : k <= l
  BY LeastNumber
<1>2. PICK t \in Text : Len(t) = k /\ Outside[t] \notin Text
  OBVIOUS
<1>3. \A u \in Text : Len(u) < k => Outside[u] \in Text
  <2> SUFFICES ASSUME NEW u \in Text, Len(u) < k, Outside[u] \notin Text PROVE FALSE
    OBVIOUS
  <2>1. Len(u) \in Nat /\ Len(u) \in T
    BY TextFacts
  <2> QED BY <1>1, <2>1
<1>4. Find(START, t) # 0
  BY <1>2, OutsideUnfolds DEF Unfolded
<1>5. /\ First(t, Find(START, t) - 1) \in Text /\ After(t) \in Text
      /\ Len(After(t)) < k /\ Len(After(t)) \in Nat /\ k \in Nat
  BY <1>2, <1>4, PartsOfText, TextFacts
<1>6. Resumed(Outside, After(t)) \in Text
  <2>1. CASE Find(END, After(t)) = 0
    BY <2>1, EmptySeq DEF Resumed, Text
  <2>2. CASE Find(END, After(t)) # 0
    <3>1. Beyond(After(t)) \in Text /\ Len(Beyond(After(t))) < Len(After(t)) /\ Len(Beyond(After(t))) \in Nat
      BY <1>5, <2>2, PartsOfText, TextFacts
    <3>2. Outside[Beyond(After(t))] \in Text
      BY <1>3, <1>5, <3>1
    <3> QED BY <2>2, <3>2 DEF Resumed
  <2> QED BY <2>1, <2>2
<1>7. Unfolded(Outside, t) \in Text
  BY <1>4, <1>5, <1>6, TextConcat DEF Unfolded
<1> QED BY <1>2, <1>7, OutsideUnfolds

(***************************************************************************)
(* What the filter does with a text that goes on                           *)
(***************************************************************************)

\* What is still to be shown of a text, within a thinking or outside of one.
Ahead(inThink, prose) == IF inThink THEN Resumed(Outside, prose) ELSE Outside[prose]

LEMMA AheadIsText == \A s \in Text, inThink \in BOOLEAN : Ahead(inThink, s) \in Text
<1> SUFFICES ASSUME NEW s \in Text PROVE Ahead(TRUE, s) \in Text /\ Ahead(FALSE, s) \in Text
  OBVIOUS
<1>1. Resumed(Outside, s) \in Text
  <2>1. <<>> \in Text
    BY EmptySeq DEF Text
  <2>2. Find(END, s) # 0 => Outside[Beyond(s)] \in Text
    BY PartsOfText, OutsideIsText
  <2> QED BY <2>1, <2>2 DEF Resumed
<1> QED BY <1>1, OutsideIsText DEF Ahead

\* A thinking begins in the part that is there.
LEMMA AheadOpens ==
  ASSUME NEW b \in Text, NEW x \in Text, Find(START, b) # 0
  PROVE  Ahead(FALSE, b \o x) =
           First(b, Find(START, b) - 1) \o Ahead(TRUE, From(b, Find(START, b) + 1) \o x)
<1> DEFINE n == Find(START, b)
<1>1. n \in Nat /\ n # 0 /\ n + 1 <= Len(b) /\ Len(b) \in Nat /\ b \o x \in Text
  BY FindFits, FindLeavesRoom, TextConcat
<1>2. Find(START, b \o x) = n
  BY FindInFront
<1>3. n - 1 \in 0..Len(b) /\ n + 1 \in 0..Len(b)
  BY <1>1
<1> HIDE DEF n
<1>4. First(b \o x, n - 1) = First(b, n - 1) /\ From(b \o x, n + 1) = From(b, n + 1) \o x
  BY <1>3, CutOfConcat
<1>5. Outside[b \o x] = First(b \o x, n - 1) \o Resumed(Outside, From(b \o x, n + 1))
  BY <1>1, <1>2, OutsideUnfolds DEF Unfolded, After
<1> QED BY <1>4, <1>5 DEF Ahead, n

\* A thinking ends in the part that is there.
LEMMA AheadCloses ==
  ASSUME NEW b \in Text, NEW x \in Text, Find(END, b) # 0
  PROVE  Ahead(TRUE, b \o x) = Ahead(FALSE, From(b, Find(END, b) + 2) \o x)
<1> DEFINE n == Find(END, b)
<1>1. n \in Nat /\ n # 0 /\ n + 2 <= Len(b) /\ Len(b) \in Nat
  BY FindFits, FindLeavesRoom
<1>2. Find(END, b \o x) = n
  BY FindInFront
<1>3. n + 2 \in 0..Len(b)
  BY <1>1
<1> HIDE DEF n
<1>4. From(b \o x, n + 2) = From(b, n + 2) \o x
  BY <1>3, CutOfConcat
<1> QED BY <1>1, <1>2, <1>4 DEF Ahead, Resumed, Beyond, n

\* Nothing begins in the part that is there, except perhaps in its tail p is cut off from.
LEMMA AheadOfSafe ==
  ASSUME NEW p \in Text, NEW r \in Text, NEW x \in Text,
         Find(START, p \o r) = 0, Len(r) = Len(START) - 1
  PROVE  Ahead(FALSE, p \o (r \o x)) = p \o Ahead(FALSE, r \o x)
<1> DEFINE u == r \o x
           n == Find(START, u)
<1>1. u \in Text /\ p \o u \in Text /\ Len(p) \in Nat /\ Len(u) \in Nat
  BY TextConcat
<1>2. \A i \in 1..Len(p) : ~Matches(START, p \o u, i)
  BY NoMatchAcross
<1> HIDE DEF u
<1>3. Find(START, p \o u) = IF n = 0 THEN 0 ELSE Len(p) + n
  BY <1>1, <1>2, FindBehind
<1>4. CASE n = 0
  BY <1>1, <1>3, <1>4, OutsideUnfolds DEF Unfolded, Ahead, u
<1>5. CASE n # 0
  <2>1. n \in Nat /\ n + 1 <= Len(u)
    BY <1>1, <1>5, FindFits, FindLeavesRoom
  <2>2. n - 1 \in 0..Len(u) /\ n + 1 \in 0..Len(u)
    BY <1>1, <1>5, <2>1
  <2>3. Find(START, p \o u) = Len(p) + n /\ Len(p) + n # 0
    BY <1>1, <1>3, <1>5, <2>1
  <2>4. (Len(p) + n) - 1 = Len(p) + (n - 1) /\ (Len(p) + n) + 1 = Len(p) + (n + 1)
    BY <1>1, <2>1
  <2>5. Outside[p \o u] = First(p \o u, (Len(p) + n) - 1)
                            \o Resumed(Outside, From(p \o u, (Len(p) + n) + 1))
    BY <1>1, <2>3, OutsideUnfolds DEF Unfolded, After
  <2>6. Outside[u] = First(u, n - 1) \o Resumed(Outside, From(u, n + 1))
    BY <1>1, <1>5, OutsideUnfolds DEF Unfolded, After
  <2> HIDE DEF n
  <2>7. /\ First(p \o u, Len(p) + (n - 1)) = p \o First(u, n - 1)
        /\ From(p \o u, Len(p) + (n + 1)) = From(u, n + 1)
    BY <1>1, <2>2, CutOfConcat
  <2>8. First(u, n - 1) \in Text /\ From(u, n + 1) \in Text
    BY <1>1, <2>2, CutFacts
  <2>9. Resumed(Outside, From(u, n + 1)) \in Text
    BY <2>8, AheadIsText DEF Ahead
  <2>11. \A a, c \in Text : (p \o a) \o c = p \o (a \o c)
    BY TextFacts
  <2>10. Outside[p \o u] = p \o Outside[u]
    <3>1. Outside[p \o u] = (p \o First(u, n - 1)) \o Resumed(Outside, From(u, n + 1))
      BY <2>4, <2>5, <2>7
    <3>2. (p \o First(u, n - 1)) \o Resumed(Outside, From(u, n + 1))
            = p \o (First(u, n - 1) \o Resumed(Outside, From(u, n + 1)))
      BY <2>8, <2>9, <2>11
    <3> QED BY <2>6, <3>1, <3>2
  <2> QED BY <2>10 DEF Ahead, u
<1> QED BY <1>4, <1>5

LEMMA AheadInThinking ==
  ASSUME NEW p \in Text, NEW r \in Text, NEW x \in Text,
         Find(END, p \o r) = 0, Len(r) = Len(END) - 1
  PROVE  Ahead(TRUE, p \o (r \o x)) = Ahead(TRUE, r \o x)
<1> DEFINE u == r \o x
           n == Find(END, u)
<1>1. u \in Text /\ p \o u \in Text /\ Len(p) \in Nat /\ Len(u) \in Nat
  BY TextConcat
<1>2. \A i \in 1..Len(p) : ~Matches(END, p \o u, i)
  BY NoMatchAcross
<1> HIDE DEF u
<1>3. Find(END, p \o u) = IF n = 0 THEN 0 ELSE Len(p) + n
  BY <1>1, <1>2, FindBehind
<1>4. CASE n = 0
  BY <1>3, <1>4 DEF Ahead, Resumed, u
<1>5. CASE n # 0
  <2>1. n \in Nat /\ n + 2 <= Len(u)
    BY <1>1, <1>5, FindFits, FindLeavesRoom
  <2>2. n + 2 \in 0..Len(u)
    BY <1>1, <1>5, <2>1
  <2>3. Find(END, p \o u) = Len(p) + n /\ Len(p) + n # 0 /\ (Len(p) + n) + 2 = Len(p) + (n + 2)
    BY <1>1, <1>3, <1>5, <2>1
  <2> HIDE DEF n
  <2>4. From(p \o u, Len(p) + (n + 2)) = From(u, n + 2)
    BY <1>1, <2>2, CutOfConcat
  <2>5. Beyond(p \o u) = Beyond(u)
    BY <2>3, <2>4 DEF Beyond, n
  <2> QED BY <1>5, <2>3, <2>5 DEF Ahead, Resumed, u, n
<1> QED BY <1>4, <1>5

LEMMA Associates ==
  \A s, t, u \in Text : s \o (t \o u) = (s \o t) \o u
BY TextFacts

\* However the text goes on, what was shown is the beginning of what is to be shown of
\* all of it, and what the filter remembers is enough to go on from there.
Agree(buffer, inThink, shown, prose) ==
  \A x \in Text : Outside[prose \o x] = shown \o Ahead(inThink, buffer \o x)

\* A step of the filter shows p and goes on with r.
GoesOn(th, b, p, uh, r) == \A x \in Text : Ahead(th, b \o x) = p \o Ahead(uh, r \o x)

LEMMA ShowsAndGoesOn ==
  ASSUME NEW b \in Text, NEW sh \in Text, NEW prose \in Text, NEW p \in Text, NEW r \in Text,
         NEW th \in BOOLEAN, NEW uh \in BOOLEAN, Agree(b, th, sh, prose),
         GoesOn(th, b, p, uh, r)
  PROVE  Agree(r, uh, sh \o p, prose)
<1> DEFINE rest(x) == Ahead(uh, r \o x)
<1>1. ASSUME NEW x \in Text PROVE rest(x) \in Text
  <2>1. r \o x \in Text
    BY TextConcat
  <2> QED BY <2>1, AheadIsText
<1>2. ASSUME NEW x \in Text PROVE Outside[prose \o x] = sh \o (p \o rest(x))
  BY Zenon DEF Agree, GoesOn
<1> HIDE DEF rest
<1>3. ASSUME NEW x \in Text PROVE sh \o (p \o rest(x)) = (sh \o p) \o rest(x)
  BY <1>1, Associates
<1>4. ASSUME NEW x \in Text PROVE Outside[prose \o x] = (sh \o p) \o rest(x)
  BY <1>2, <1>3, Zenon
<1> QED BY <1>4, Zenon DEF Agree, rest

LEMMA OpeningKeeps ==
  ASSUME NEW b \in Text, NEW sh \in Text, NEW prose \in Text, Agree(b, FALSE, sh, prose),
         Find(START, b) # 0
  PROVE  /\ From(b, Find(START, b) + 1) \in Text /\ Len(From(b, Find(START, b) + 1)) < Len(b)
         /\ sh \o First(b, Find(START, b) - 1) \in Text
         /\ Agree(From(b, Find(START, b) + 1), TRUE, sh \o First(b, Find(START, b) - 1), prose)
<1>1. PICK p \in Text, r \in Text :
        /\ p = First(b, Find(START, b) - 1) /\ r = From(b, Find(START, b) + 1) /\ Len(r) < Len(b)
  BY PartsOfText DEF After
<1>2. ASSUME NEW x \in Text PROVE Ahead(FALSE, b \o x) = p \o Ahead(TRUE, r \o x)
  BY <1>1, AheadOpens
<1>3. GoesOn(FALSE, b, p, TRUE, r)
  BY <1>2 DEF GoesOn
<1>4. Agree(r, TRUE, sh \o p, prose)
  BY <1>3, ShowsAndGoesOn
<1>5. sh \o p \in Text
  BY TextConcat
<1> QED BY <1>1, <1>4, <1>5

LEMMA ClosingKeeps ==
  ASSUME NEW b \in Text, NEW sh \in Text, NEW prose \in Text, Agree(b, TRUE, sh, prose),
         Find(END, b) # 0
  PROVE  /\ From(b, Find(END, b) + 2) \in Text /\ Len(From(b, Find(END, b) + 2)) < Len(b)
         /\ Agree(From(b, Find(END, b) + 2), FALSE, sh, prose)
<1>1. PICK r \in Text : r = From(b, Find(END, b) + 2) /\ Len(r) < Len(b)
  BY PartsOfText DEF Beyond
<1>2. ASSUME NEW x \in Text PROVE Ahead(TRUE, b \o x) = Ahead(FALSE, r \o x)
  BY <1>1, AheadCloses
<1> QED BY <1>1, <1>2 DEF Agree

LEMMA PassingAgrees ==
  ASSUME NEW p \in Text, NEW r \in Text, NEW sh \in Text, NEW prose \in Text,
         Agree(p \o r, FALSE, sh, prose), Find(START, p \o r) = 0, Len(r) = Len(START) - 1
  PROVE  Agree(r, FALSE, sh \o p, prose)
<1>1. ASSUME NEW x \in Text PROVE Ahead(FALSE, (p \o r) \o x) = p \o Ahead(FALSE, r \o x)
  <2>1. (p \o r) \o x = p \o (r \o x)
    BY TextFacts
  <2>2. Ahead(FALSE, p \o (r \o x)) = p \o Ahead(FALSE, r \o x)
    BY AheadOfSafe
  <2> QED BY <2>1, <2>2, Zenon
<1>2. p \o r \in Text
  BY TextConcat
<1>3. GoesOn(FALSE, p \o r, p, FALSE, r)
  BY <1>1 DEF GoesOn
<1> QED BY <1>2, <1>3, ShowsAndGoesOn

LEMMA ForgettingAgrees ==
  ASSUME NEW p \in Text, NEW r \in Text, NEW sh \in Text, NEW prose \in Text,
         Agree(p \o r, TRUE, sh, prose), Find(END, p \o r) = 0, Len(r) = Len(END) - 1
  PROVE  Agree(r, TRUE, sh, prose)
<1>1. ASSUME NEW x \in Text PROVE Ahead(TRUE, (p \o r) \o x) = Ahead(TRUE, r \o x)
  <2>1. (p \o r) \o x = p \o (r \o x)
    BY TextFacts
  <2>2. Ahead(TRUE, p \o (r \o x)) = Ahead(TRUE, r \o x)
    BY AheadInThinking
  <2> QED BY <2>1, <2>2, Zenon
<1> QED BY <1>1 DEF Agree

(***************************************************************************)
(* The filter                                                              *)
(***************************************************************************)
Filter == [buffer : Text, inThink : BOOLEAN, shown : Text]
Follows(f, prose) == f \in Filter /\ Agree(f.buffer, f.inThink, f.shown, prose)

LEMMA FollowsIs ==
  ASSUME NEW r \in Text, NEW q \in Text, NEW th \in BOOLEAN, NEW prose, Agree(r, th, q, prose)
  PROVE  Follows([buffer |-> r, inThink |-> th, shown |-> q], prose)
BY DEF Follows, Filter

\* One round ends a part of the text,
LEMMA RoundEndsPart ==
  ASSUME NEW f, NEW prose \in Text, Follows(f, prose), Find(Tag(f), f.buffer) # 0
  PROVE  Follows(ScanOnce(f), prose) /\ Len(ScanOnce(f).buffer) < Len(f.buffer)
<1> DEFINE b == f.buffer
<1>0. /\ b \in Text /\ f.shown \in Text /\ f.inThink \in BOOLEAN
      /\ Len(START) = 2 /\ Len(END) = 3
  BY DEF Follows, Filter, START, END
<1>1. CASE ~f.inThink
  <2>1. Tag(f) = START /\ Find(START, b) # 0 /\ Find(START, b) \in Nat /\ Agree(b, FALSE, f.shown, prose)
    BY <1>0, <1>1, FindFits DEF Tag, Follows
  <2>2. Find(START, b) + 2 = (Find(START, b) + 1) + 1
    BY <2>1
  <2>3. ScanOnce(f) = [buffer |-> From(b, Find(START, b) + 1), inThink |-> TRUE,
                       shown |-> f.shown \o First(b, Find(START, b) - 1)]
    BY <1>0, <1>1, <2>1, <2>2 DEF ScanOnce, Rest, Pass, From, First
  <2>4. PICK r \in Text, q \in Text :
          /\ r = From(b, Find(START, b) + 1) /\ q = f.shown \o First(b, Find(START, b) - 1)
          /\ Len(r) < Len(b) /\ Agree(r, TRUE, q, prose)
    BY <1>0, <2>1, OpeningKeeps
  <2> HIDE DEF b
  <2>5. ScanOnce(f) = [buffer |-> r, inThink |-> TRUE, shown |-> q]
    BY <2>3, <2>4
  <2>6. Follows([buffer |-> r, inThink |-> TRUE, shown |-> q], prose)
    BY <2>4, FollowsIs, Zenon
  <2>7. Follows(ScanOnce(f), prose) /\ ScanOnce(f).buffer = r
    BY <2>5, <2>6
  <2> QED BY <2>4, <2>7 DEF b
<1>2. CASE f.inThink
  <2>1. Tag(f) = END /\ Find(END, b) # 0 /\ Find(END, b) \in Nat /\ Agree(b, TRUE, f.shown, prose)
    BY <1>0, <1>2, FindFits DEF Tag, Follows
  <2>2. Find(END, b) + 3 = (Find(END, b) + 2) + 1
    BY <2>1
  <2>3. ScanOnce(f) = [buffer |-> From(b, Find(END, b) + 2), inThink |-> FALSE, shown |-> f.shown]
    BY <1>0, <1>2, <2>1, <2>2 DEF ScanOnce, Rest, Pass, From
  <2>4. PICK r \in Text :
          r = From(b, Find(END, b) + 2) /\ Len(r) < Len(b) /\ Agree(r, FALSE, f.shown, prose)
    BY <1>0, <2>1, ClosingKeeps
  <2> HIDE DEF b
  <2>5. ScanOnce(f) = [buffer |-> r, inThink |-> FALSE, shown |-> f.shown]
    BY <2>3, <2>4
  <2>6. Follows([buffer |-> r, inThink |-> FALSE, shown |-> f.shown], prose)
    BY <1>0, <2>4, FollowsIs, Zenon
  <2>7. Follows(ScanOnce(f), prose) /\ ScanOnce(f).buffer = r
    BY <2>5, <2>6
  <2> QED BY <2>4, <2>7 DEF b
<1> QED BY <1>0, <1>1, <1>2

\* or passes on what cannot be the start of a tag,
LEMMA RoundPasses ==
  ASSUME NEW f, NEW prose \in Text, Follows(f, prose), Find(Tag(f), f.buffer) = 0,
         Len(f.buffer) - HeldBack(f) > 0
  PROVE  Follows(ScanOnce(f), prose) /\ Len(ScanOnce(f).buffer) < Len(f.buffer)
<1> DEFINE b == f.buffer
           k == Len(b) - HeldBack(f)
<1>0. /\ b \in Text /\ f.shown \in Text /\ f.inThink \in BOOLEAN /\ Len(b) \in Nat
      /\ Len(START) = 2 /\ Len(END) = 3
  BY TextFacts DEF Follows, Filter, START, END
<1>1. HeldBack(f) \in {1, 2} /\ HeldBack(f) = Len(Tag(f)) - 1
  BY <1>0 DEF HeldBack, Tag
<1>2. k \in 0..Len(b) /\ Len(b) - k = HeldBack(f) /\ HeldBack(f) < Len(b)
  <2> DEFINE l == Len(b)
             h == HeldBack(f)
  <2>1. l \in Nat /\ h \in {1, 2} /\ l - h > 0 /\ k = l - h
    BY <1>0, <1>1
  <2> HIDE DEF l, h, k
  <2>2. k \in 0..l /\ l - k = h /\ h < l
    BY <2>1
  <2> QED BY <2>2 DEF l, h
<1>3. ScanOnce(f) = [f EXCEPT !.buffer = From(b, k),
                              !.shown = IF f.inThink THEN f.shown ELSE f.shown \o First(b, k)]
  BY DEF ScanOnce, Rest, Pass, From, First
<1> HIDE DEF k, b
<1>c. /\ First(b, k) \in Text /\ From(b, k) \in Text /\ Len(From(b, k)) = Len(b) - k
      /\ b = First(b, k) \o From(b, k)
  BY <1>0, <1>2, CutFacts
<1>4. PICK p \in Text, r \in Text :
        p = First(b, k) /\ r = From(b, k) /\ Len(r) = HeldBack(f) /\ b = p \o r
  BY <1>2, <1>c
<1> USE DEF b
<1>5. PICK q \in Text : q = IF f.inThink THEN f.shown ELSE f.shown \o p
  BY <1>0, TextConcat
<1>6. ScanOnce(f) = [f EXCEPT !.buffer = r, !.shown = q]
  BY <1>3, <1>4, <1>5
<1>7. /\ ScanOnce(f) \in Filter /\ ScanOnce(f).buffer = r
      /\ ScanOnce(f).inThink = f.inThink /\ ScanOnce(f).shown = q
  BY <1>0, <1>6 DEF Filter, Follows
<1>8. Agree(r, f.inThink, q, prose)
  <2>1. CASE ~f.inThink
    <3>1. /\ Agree(p \o r, FALSE, f.shown, prose) /\ Find(START, p \o r) = 0
          /\ Len(r) = Len(START) - 1 /\ q = f.shown \o p
      BY <1>0, <1>1, <1>4, <1>5, <2>1 DEF Follows, Tag
    <3> QED BY <1>0, <2>1, <3>1, PassingAgrees
  <2>2. CASE f.inThink
    <3>1. /\ Agree(p \o r, TRUE, f.shown, prose) /\ Find(END, p \o r) = 0
          /\ Len(r) = Len(END) - 1 /\ q = f.shown
      BY <1>0, <1>1, <1>4, <1>5, <2>2 DEF Follows, Tag
    <3> QED BY <1>0, <2>2, <3>1, ForgettingAgrees
  <2> QED BY <2>1, <2>2
<1> QED BY <1>2, <1>4, <1>7, <1>8 DEF Follows

\* or leaves the filter as it is, with no tag in the buffer.
LEMMA ScanOnceKeeps ==
  ASSUME NEW f, NEW prose \in Text, Follows(f, prose)
  PROVE  /\ Follows(ScanOnce(f), prose)
         /\ \/ ScanOnce(f) = f /\ Find(Tag(f), f.buffer) = 0
            \/ Len(ScanOnce(f).buffer) < Len(f.buffer)
<1>1. CASE Find(Tag(f), f.buffer) # 0
  BY <1>1, RoundEndsPart
<1>2. CASE Find(Tag(f), f.buffer) = 0 /\ Len(f.buffer) - HeldBack(f) > 0
  BY <1>2, RoundPasses
<1>3. CASE Find(Tag(f), f.buffer) = 0 /\ ~(Len(f.buffer) - HeldBack(f) > 0)
  <2>1. ScanOnce(f) = f
    BY <1>3 DEF ScanOnce
  <2> QED BY <1>3, <2>1
<1> QED BY <1>1, <1>2, <1>3

\* The rounds of Scan, and the functions that describe their first n.
Rounds(f, l) == CHOOSE g : g = [n \in 0..l |-> IF n = 0 THEN f ELSE ScanOnce(g[n - 1])]
Describes(g, f, n) == \A m \in 0..n : g[m] = IF m = 0 THEN f ELSE ScanOnce(g[m - 1])

LEMMA RoundsAreDescribed == ASSUME NEW f, NEW n \in Nat PROVE \E g : Describes(g, f, n)
<1> DEFINE T == {n_1 \in Nat : ~\E g : Describes(g, f, n_1)}
<1> SUFFICES ASSUME T # {} PROVE FALSE
  OBVIOUS
<1>1. PICK k \in T : \A m \in T : k <= m
  BY LeastNumber
<1>2. k \in Nat /\ ~\E g : Describes(g, f, k)
  OBVIOUS
<1>3. CASE k = 0
  <2>1. Describes([m \in 0..0 |-> f], f, 0)
    BY DEF Describes
  <2> QED BY <1>2, <1>3, <2>1
<1>4. CASE k # 0
  <2>1. k - 1 \in Nat /\ k - 1 \notin T
    BY <1>1, <1>2, <1>4
  <2>2. PICK g : Describes(g, f, k - 1)
    BY <2>1
  <2> DEFINE h == [m \in 0..k |-> IF m = 0 THEN f ELSE ScanOnce(g[m - 1])]
  <2>3. ASSUME NEW m \in 0..k PROVE h[m] = IF m = 0 THEN f ELSE ScanOnce(h[m - 1])
    <3>1. CASE m = 0
      BY <3>1
    <3>2. CASE m # 0
      <4>1. m - 1 \in 0..k /\ m - 1 \in 0..(k - 1)
        BY <1>2, <2>3, <3>2
      <4>2. h[m - 1] = IF m - 1 = 0 THEN f ELSE ScanOnce(g[m - 1 - 1])
        BY <4>1
      <4>3. g[m - 1] = IF m - 1 = 0 THEN f ELSE ScanOnce(g[m - 1 - 1])
        BY <2>2, <4>1 DEF Describes
      <4>4. h[m] = ScanOnce(g[m - 1])
        BY <3>2
      <4> QED BY <3>2, <4>2, <4>3, <4>4, Zenon
    <3> QED BY <3>1, <3>2
  <2> HIDE DEF h
  <2> QED BY <1>2, <2>3 DEF Describes
<1> QED BY <1>3, <1>4

LEMMA RoundsUnfold ==
  ASSUME NEW f, NEW l \in Nat
  PROVE  \A n \in 0..l : Rounds(f, l)[n] = IF n = 0 THEN f ELSE ScanOnce(Rounds(f, l)[n - 1])
<1>1. PICK g : Describes(g, f, l)
  BY RoundsAreDescribed
<1> DEFINE F == [n \in 0..l |-> g[n]]
<1>2. ASSUME NEW n \in 0..l PROVE F[n] = IF n = 0 THEN f ELSE ScanOnce(F[n - 1])
  <2>1. g[n] = IF n = 0 THEN f ELSE ScanOnce(g[n - 1])
    BY <1>1 DEF Describes
  <2>2. n # 0 => n - 1 \in 0..l
    OBVIOUS
  <2> QED BY <2>1, <2>2
<1>3. F = [n \in 0..l |-> IF n = 0 THEN f ELSE ScanOnce(F[n - 1])]
  BY <1>2
<1> HIDE DEF F
<1>4. Rounds(f, l) = [n \in 0..l |-> IF n = 0 THEN f ELSE ScanOnce(Rounds(f, l)[n - 1])]
  BY <1>3, Zenon DEF Rounds
<1> QED BY <1>4

\* After n rounds nothing is left to do, or the buffer has lost n characters.
LEMMA RoundsFollow ==
  ASSUME NEW f, NEW prose \in Text, Follows(f, prose), NEW n \in 0..Len(f.buffer)
  PROVE  /\ Follows(Rounds(f, Len(f.buffer))[n], prose)
         /\ \/ Find(Tag(Rounds(f, Len(f.buffer))[n]), Rounds(f, Len(f.buffer))[n].buffer) = 0
            \/ Len(Rounds(f, Len(f.buffer))[n].buffer) + n <= Len(f.buffer)
<1> DEFINE l == Len(f.buffer)
           R == Rounds(f, l)
           Good(m) == /\ Follows(R[m], prose)
                      /\ \/ ScanOnce(R[m]) = R[m] /\ Find(Tag(R[m]), R[m].buffer) = 0
                         \/ Len(R[m].buffer) + m <= l
<1>0. l \in Nat
  BY TextFacts DEF Follows, Filter
<1>1. \A m \in 0..l : R[m] = IF m = 0 THEN f ELSE ScanOnce(R[m - 1])
  BY <1>0, RoundsUnfold
<1> HIDE DEF R
<1>2. Good(0)
  <2>1. R[0] = f
    BY <1>0, <1>1
  <2> QED BY <1>0, <2>1
<1>3. ASSUME NEW m \in 0..l, m # 0, Good(m - 1) PROVE Good(m)
  <2>1. R[m] = ScanOnce(R[m - 1])
    BY <1>1, <1>3
  <2>2. PICK g : g = R[m - 1]
    OBVIOUS
  <2>3. /\ Follows(g, prose)
        /\ \/ ScanOnce(g) = g /\ Find(Tag(g), g.buffer) = 0
           \/ Len(g.buffer) + (m - 1) <= l
    BY <1>3, <2>2
  <2>4. /\ Follows(ScanOnce(g), prose)
        /\ \/ ScanOnce(g) = g /\ Find(Tag(g), g.buffer) = 0
           \/ Len(ScanOnce(g).buffer) < Len(g.buffer)
    BY <2>3, ScanOnceKeeps
  <2>5. R[m] = ScanOnce(g)
    BY <2>1, <2>2
  <2>6. Len(g.buffer) \in Nat /\ Len(ScanOnce(g).buffer) \in Nat
    BY <2>3, <2>4, TextFacts DEF Follows, Filter
  <2>7. CASE ScanOnce(g) = g /\ Find(Tag(g), g.buffer) = 0
    BY <2>4, <2>5, <2>7
  <2>8. CASE Len(g.buffer) + (m - 1) <= l /\ Len(ScanOnce(g).buffer) < Len(g.buffer)
    <3>1. Len(ScanOnce(g).buffer) + m <= l
      BY <1>0, <2>6, <2>8
    <3> QED BY <2>4, <2>5, <3>1
  <2> QED BY <2>3, <2>4, <2>7, <2>8
<1> HIDE DEF Good
<1> DEFINE T == {m \in 0..l : ~Good(m)}
<1>4. T = {}
  <2> SUFFICES ASSUME T # {} PROVE FALSE
    OBVIOUS
  <2>1. PICK k \in T : \A m \in T : k <= m
    <3>1. T \subseteq Nat
      BY <1>0
    <3> QED BY <3>1, LeastNumber
  <2>2. k \in 0..l /\ ~Good(k)
    OBVIOUS
  <2>3. k # 0
    BY <1>2, <2>2
  <2>4. k - 1 \in 0..l /\ ~(k <= k - 1)
    BY <1>0, <2>2, <2>3
  <2>5. Good(k - 1)
    BY <2>1, <2>4
  <2> QED BY <1>3, <2>2, <2>3, <2>5
<1>5. Good(n)
  BY <1>4
<1> QED BY <1>5 DEF Good, R

\* Scan leaves no tag in the buffer.
LEMMA ScanFollows ==
  ASSUME NEW f, NEW prose \in Text, Follows(f, prose)
  PROVE  Follows(Scan(f), prose) /\ Find(Tag(Scan(f)), Scan(f).buffer) = 0
<1> DEFINE l == Len(f.buffer)
<1>0. l \in Nat /\ l \in 0..l
  BY TextFacts DEF Follows, Filter
<1>1. Scan(f) = Rounds(f, l)[l]
  BY DEF Scan, Rounds
<1>2. PICK g : g = Rounds(f, l)[l]
  OBVIOUS
<1>3. Follows(g, prose) /\ (Find(Tag(g), g.buffer) = 0 \/ Len(g.buffer) + l <= l)
  BY <1>0, <1>2, RoundsFollow
<1>4. ASSUME Len(g.buffer) + l <= l PROVE Find(Tag(g), g.buffer) = 0
  <2>1. g.buffer \in Text /\ Tag(g) \in {START, END}
    BY <1>3 DEF Follows, Filter, Tag
  <2>2. Len(g.buffer) \in Nat
    BY <2>1, TextFacts
  <2>3. Len(g.buffer) = 0
    <3> DEFINE c == Len(g.buffer)
    <3>1. c \in Nat /\ l \in Nat /\ c + l <= l
      BY <1>0, <1>4, <2>2
    <3> HIDE DEF c, l
    <3>2. c = 0
      BY <3>1
    <3> QED BY <3>2 DEF c
  <2>4. \A i : ~Matches(Tag(g), g.buffer, i)
    <3>1. Len(Tag(g)) \in {2, 3}
      BY <2>1, TagFacts
    <3> QED BY <2>3, <3>1 DEF Matches
  <2> QED BY <2>1, <2>4, FindIs
<1> QED BY <1>1, <1>2, <1>3, <1>4

LEMMA FeedFollows ==
  ASSUME NEW f, NEW prose \in Text, Follows(f, prose), NEW chunk \in Text
  PROVE  /\ Follows(feed(f, chunk), prose \o chunk)
         /\ Find(Tag(feed(f, chunk)), feed(f, chunk).buffer) = 0
<1>0. f.buffer \in Text /\ f.shown \in Text /\ f.inThink \in BOOLEAN /\ f \in Filter
      /\ Agree(f.buffer, f.inThink, f.shown, prose)
  BY DEF Follows, Filter
<1>1. PICK b \in Text : b = f.buffer \o chunk
  BY <1>0, TextConcat
<1>2. Agree(b, f.inThink, f.shown, prose \o chunk)
  <2> SUFFICES ASSUME NEW x \in Text
               PROVE  Outside[(prose \o chunk) \o x] = f.shown \o Ahead(f.inThink, b \o x)
    BY DEF Agree
  <2>1. chunk \o x \in Text
    BY TextConcat
  <2>2. Outside[prose \o (chunk \o x)] = f.shown \o Ahead(f.inThink, f.buffer \o (chunk \o x))
    BY <1>0, <2>1 DEF Agree
  <2>3. \A s, t, u \in Text : (s \o t) \o u = s \o (t \o u)
    BY TextFacts
  <2>4. (prose \o chunk) \o x = prose \o (chunk \o x)
    BY <2>3
  <2>5. PICK c \in Text : c = f.buffer
    BY <1>0
  <2>6. (c \o chunk) \o x = c \o (chunk \o x)
    BY <2>3
  <2> QED BY <1>1, <2>2, <2>4, <2>5, <2>6
<1>3. [f EXCEPT !.buffer = @ \o chunk] = [buffer |-> b, inThink |-> f.inThink, shown |-> f.shown]
  <2>1. \A g \in Filter : [g EXCEPT !.buffer = b]
                             = [buffer |-> b, inThink |-> g.inThink, shown |-> g.shown]
    BY DEF Filter
  <2> QED BY <1>0, <1>1, <2>1
<1>4. Follows([buffer |-> b, inThink |-> f.inThink, shown |-> f.shown], prose \o chunk)
  BY <1>0, <1>2, FollowsIs
<1>5. prose \o chunk \in Text
  BY TextConcat
<1> QED BY <1>3, <1>4, <1>5, ScanFollows DEF feed

LEMMA NewFilterFollows ==
  Follows(NewFilter, <<>>) /\ Find(Tag(NewFilter), NewFilter.buffer) = 0 /\ <<>> \in Text
<1>1. <<>> \in Text
  BY EmptySeq DEF Text
<1>2. ASSUME NEW x \in Text PROVE <<>> \o x = x
  BY ConcatEmptySeq DEF Text
<1>3. Agree(<<>>, FALSE, <<>>, <<>>)
  BY <1>2, OutsideIsText DEF Agree, Ahead
<1>4. Follows([buffer |-> <<>>, inThink |-> FALSE, shown |-> <<>>], <<>>)
  BY <1>1, <1>3, FollowsIs
<1>5. Find(START, <<>>) = 0
  <2>1. \A i : ~Matches(START, <<>>, i)
    BY DEF Matches, START
  <2> QED BY <1>1, <2>1, FindIs
<1> QED BY <1>1, <1>4, <1>5 DEF NewFilter, Tag

\* A filter with no tag in its buffer has shown, or shows at the end, what is to be shown.
LEMMA FollowingHides ==
  ASSUME NEW f, NEW prose \in Text, Follows(f, prose), Find(Tag(f), f.buffer) = 0
  PROVE  IsPrefix(f.shown, Outside[prose]) /\ flush(f).shown = Outside[prose]
<1> DEFINE o == Outside[prose]
<1>0. f.buffer \in Text /\ f.shown \in Text /\ f.inThink \in BOOLEAN /\ f \in Filter
      /\ Agree(f.buffer, f.inThink, f.shown, prose) /\ <<>> \in Text
  BY NewFilterFollows DEF Follows, Filter
<1>1. ASSUME NEW s \in Text PROVE s \o <<>> = s
  BY ConcatEmptySeq DEF Text
<1>2. Outside[prose] = f.shown \o Ahead(f.inThink, f.buffer)
  <2>1. Outside[prose \o <<>>] = f.shown \o Ahead(f.inThink, f.buffer \o <<>>)
    BY <1>0 DEF Agree
  <2>2. prose \o <<>> = prose /\ f.buffer \o <<>> = f.buffer
    BY <1>0, <1>1
  <2> QED BY <2>1, <2>2
<1>3. Ahead(f.inThink, f.buffer) = IF f.inThink THEN <<>> ELSE f.buffer
  BY <1>0, OutsideUnfolds DEF Ahead, Resumed, Unfolded, Tag
<1>4. flush(f).shown = Outside[prose]
  <2>1. flush(f).shown = IF f.inThink THEN f.shown ELSE f.shown \o First(f.buffer, Len(f.buffer))
    BY <1>0 DEF flush, Pass, First, Filter
  <2>2. First(f.buffer, Len(f.buffer)) = f.buffer
    <3>1. f.buffer \o <<>> = f.buffer
      BY <1>0, <1>1
    <3>2. First(f.buffer \o <<>>, Len(f.buffer)) = f.buffer
      BY <1>0, OneCut
    <3> QED BY <3>1, <3>2
  <2> QED BY <1>0, <1>1, <1>2, <1>3, <2>1, <2>2
<1>5. PICK a \in Text : a = Ahead(f.inThink, f.buffer)
  BY <1>0, AheadIsText
<1>6. Len(f.shown) <= Len(f.shown \o a) /\ First(f.shown \o a, Len(f.shown)) = f.shown
  <2>1. /\ Len(f.shown \o a) = Len(f.shown) + Len(a)
        /\ Len(f.shown) \in Nat /\ Len(a) \in Nat
    BY <1>0, TextConcat
  <2>2. First(f.shown \o a, Len(f.shown)) = f.shown
    BY <1>0, OneCut
  <2>3. Len(f.shown) <= Len(f.shown \o a)
    BY <2>1
  <2> QED BY <2>2, <2>3
<1>7. First(f.shown, Len(f.shown)) = f.shown
  <2>1. f.shown \o <<>> = f.shown
    BY <1>0, <1>1
  <2>2. First(f.shown \o <<>>, Len(f.shown)) = f.shown
    BY <1>0, OneCut
  <2> QED BY <2>1, <2>2
<1>8. IsPrefix(f.shown, Outside[prose])
  BY <1>2, <1>5, <1>6, <1>7 DEF IsPrefix, First
<1> QED BY <1>4, <1>8

(***************************************************************************)
(* Thinking is hidden                                                      *)
(***************************************************************************)

\* The filter keeps up with the answer and has no whole tag waiting in its buffer.
FilterFollows ==
  text \in Text /\ Follows(filter, text) /\ Find(Tag(filter), filter.buffer) = 0

LEMMA ChunkIsText ==
  ASSUME NEW chunk \in UNION {[1..n -> Chars] : n \in 1..MaxText} PROVE chunk \in Text
<1>1. PICK n \in 1..MaxText : chunk \in [1..n -> Chars]
  OBVIOUS
<1>2. n \in Nat
  BY ChatAssumption
<1> QED BY <1>1, <1>2, SeqDef DEF Text

LEMMA FollowsStep == FilterFollows /\ [Next]_vars => FilterFollows'
<1> SUFFICES ASSUME FilterFollows, [Next]_vars PROVE FilterFollows'
  OBVIOUS
<1>1. CASE text' = <<>> /\ filter' = NewFilter
  BY <1>1, NewFilterFollows DEF FilterFollows
<1>2. CASE UNCHANGED <<text, filter>>
  BY <1>2 DEF FilterFollows
<1>3. ASSUME NEW chunk \in UNION {[1..n -> Chars] : n \in 1..MaxText}, Content(chunk)
      PROVE  FilterFollows'
  <2>1. chunk \in Text /\ text \o chunk \in Text
    BY ChunkIsText, TextConcat DEF FilterFollows
  <2>2. text' = text \o chunk /\ filter' = feed(filter, chunk)
    BY <1>3 DEF Content
  <2>3. /\ Follows(feed(filter, chunk), text \o chunk)
        /\ Find(Tag(feed(filter, chunk)), feed(filter, chunk).buffer) = 0
    BY <2>1, FeedFollows DEF FilterFollows
  <2> QED BY <2>1, <2>2, <2>3 DEF FilterFollows
<1>4. CASE \/ Ask \/ Resolve \/ RunAnalysis \/ UNCHANGED vars
           \/ \E i \in 1..MaxCalls : Fragment(i)
           \/ \E tool \in Tools : RunTool(tool)
           \/ \E s \in Components : Expire(s)
  BY <1>2, <1>4 DEF Ask, Resolve, RunAnalysis, Analyse, Fragment, RunTool, Expire, stream, vars
<1>5. CASE \/ SummaryEnds \/ StreamBreaks \/ Deliver \/ Disconnect
           \/ \E finish_reason \in {"stop", "length"} : AnswerEnds(finish_reason)
           \/ \E tool \in Tools : ToolRaises(tool)
  BY <1>1, <1>5 DEF SummaryEnds, StreamBreaks, Deliver, Disconnect, AnswerEnds, ToolRaises,
     NewAnswer, NewText
<1> QED BY <1>3, <1>4, <1>5 DEF Next

\* However an answer of any length is cut into chunks, the user is shown nothing but what
\* stands outside the tags, and all of it if the answer ends here (orchestrator.py:76-121).
THEOREM ThinkingIsAlwaysHidden == Spec => []ThinkingIsHidden
<1>1. Init => FilterFollows
  BY NewFilterFollows DEF Init, FilterFollows
<1>2. FilterFollows => ThinkingIsHidden
  BY FollowingHides DEF FilterFollows, ThinkingIsHidden
<1> QED BY <1>1, <1>2, FollowsStep, PTL DEF Spec
===============================================================================
