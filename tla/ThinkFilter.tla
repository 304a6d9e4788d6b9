------------------------------ MODULE ThinkFilter ------------------------------
(***************************************************************************)
(* _ThinkTagFilter of the chat orchestrator: text arrives in chunks, and   *)
(* what stands between <think> and </think> is not passed on.  A text is a *)
(* sequence of characters; "t" stands for the common end of the two tags.  *)
(***************************************************************************)
EXTENDS Integers, Sequences, SequencesExt

CONSTANT Chars   \* the characters the model writes

START == <<"<", "t">>
END == <<"<", "/", "t">>

\* Where tag begins in str for the first time, or 0.
Find(tag, str) ==
  LET at == {i \in 1..(Len(str) - Len(tag) + 1) : SubSeq(str, i, i + Len(tag) - 1) = tag} IN
  IF at = {} THEN 0 ELSE Min(at)

\* shown is what feed and flush have returned so far.
NewFilter == [buffer |-> <<>>, inThink |-> FALSE, shown |-> <<>>]

Tag(f) == IF f.inThink THEN END ELSE START
Pass(f, upTo) == IF f.inThink THEN f.shown ELSE f.shown \o SubSeq(f.buffer, 1, upTo)
Rest(f, from) == SubSeq(f.buffer, from, Len(f.buffer))

\* Defect: nothing is held back.
MutHeldBack(f) == 0

\* A tail that could be the start of the tag is held back.
HeldBack(f) == Len(Tag(f)) - 1

\* The body of feed's loop: what is left alone is left alone from then on.
ScanOnce(f) ==
  LET found == Find(Tag(f), f.buffer)
      safe == Len(f.buffer) - HeldBack(f) IN
  CASE found # 0 -> [buffer |-> Rest(f, found + Len(Tag(f))),
                     inThink |-> ~f.inThink,
                     shown |-> Pass(f, found - 1)]
    [] found = 0 /\ safe > 0 -> [f EXCEPT !.buffer = Rest(f, safe + 1), !.shown = Pass(f, safe)]
    [] OTHER -> f

\* One round per character is enough, since a round that changes f shortens the buffer.
Scan(f) ==
  LET rounds[n \in 0..Len(f.buffer)] == IF n = 0 THEN f ELSE ScanOnce(rounds[n - 1])
  IN  rounds[Len(f.buffer)]

feed(f, chunk) == Scan([f EXCEPT !.buffer = @ \o chunk])

flush(f) == [f EXCEPT !.buffer = <<>>, !.shown = Pass(f, Len(f.buffer))]

(***************************************************************************)
(* What the filter is for, said of the whole text                          *)
(***************************************************************************)
Outside[text \in Seq(Chars)] ==
  LET open == Find(START, text)
      after == SubSeq(text, open + Len(START), Len(text))
      close == Find(END, after) IN
  CASE open = 0 -> text
    [] open # 0 /\ close = 0 -> SubSeq(text, 1, open - 1)
    [] OTHER -> SubSeq(text, 1, open - 1) \o Outside[SubSeq(after, close + Len(END), Len(after))]
===============================================================================
