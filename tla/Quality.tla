------------------------------ MODULE Quality ------------------------------
(* L7: what a finished film is worth.  quality_gate.py asks a language model *)
(* for five points of the text, critic_engine.py a vision model for five    *)
(* points of some frames.  An answer has points (field -> number), the      *)
(* fields that hold words instead of numbers, and whether the model wants   *)
(* the film made again.  Totals are in hundredths of a point.               *)
EXTENDS Captions

Fields    == 1..5
NoAnswer  == [points |-> <<>>, words |-> {}, again |-> FALSE]
Bounded(x, top) == Higher(0, Lower(top, x))
Weighted(points, weights) == Total([i \in Fields |-> points[i] * weights[i]])

TopTotal      == 10000
PassThreshold == 7000
Passes(total) == total >= PassThreshold
\* What is kept of a total: tenths of a point.  69.96 becomes 70.0 and has
\* not passed.
Kept(total) == (total + 5) \div 10
KeptScores  == -250..1000

-----------------------------------------------------------------------------
(* score_content.                                                           *)

ContentWeights == <<30, 25, 20, 15, 10>>

\* The rhythm of the text, marks in so many seconds: two to four in ten seconds
\* are rewarded, less than one is punished; so is a rhythm that is not known.
NoRhythm == [marks |-> 0, secs |-> 0]
RhythmBonus(r) ==
  CASE r.secs > 0 /\ 2 * r.secs <= 10 * r.marks /\ 10 * r.marks <= 4 * r.secs -> 500
    [] r.secs = 0 \/ 10 * r.marks < r.secs -> -500
    [] OTHER -> 0

\* A field that is missing counts 60, and so do all fields of an answer that
\* is no JSON; words in place of a number raise an error.
ContentPoint(a, i) == IF i \in DOMAIN a.points THEN a.points[i] ELSE 60
ContentReads(a)    == a.words = {}

\* What a short text and a missing picture prompt cost.
Deductions(chars, image) ==
  (IF chars < 100 THEN 1000 ELSE 0) + (IF image THEN 0 ELSE 1500)

\* They are taken off after the total was bounded: it may end below zero.
ContentTotal(a, rhythm, chars, image) ==
  Bounded(Weighted([i \in Fields |-> ContentPoint(a, i)], ContentWeights) + RhythmBonus(rhythm), TopTotal)
    - Deductions(chars, image)

-----------------------------------------------------------------------------
(* score_video_with_vl.                                                     *)

VisionWeights == <<22, 26, 20, 16, 16>>
MaxRegenAttempts == 1

\* The tenth of a second at which frame i of n is cut out of a film that is
\* said to last said tenths (nothing: one second).
Keyframe(said, i, n) == LET d == Higher(10, said) IN Lower(d - 1, (d * (2 * i - 1)) \div (2 * n))
\* The frames that a film of len tenths has there.
Frames(said, len, n) == {i \in 1..n : Keyframe(said, i, n) < len}

\* Every field must be there and a number.
VisionReads(a) == Fields \subseteq DOMAIN a.points /\ a.words = {}

Unjudged == [valid |-> FALSE, total |-> 0, passed |-> FALSE, again |-> FALSE]
VisionScore(a, attempt) ==
  LET total == Weighted([i \in Fields |-> Bounded(a.points[i], 100)], VisionWeights)
  IN  [valid |-> TRUE, total |-> total, passed |-> Passes(total),
       again |-> (~Passes(total) \/ a.again) /\ attempt < MaxRegenAttempts]

\* The model is asked once and, when its answer cannot be read, once more.
Judged(first, second, attempt) ==
  CASE VisionReads(first)                          -> VisionScore(first, attempt)
    [] ~VisionReads(first) /\ VisionReads(second)  -> VisionScore(second, attempt)
    [] OTHER                                       -> Unjudged

\* The score of the recorded video, <<>> when there is none: the vision model's
\* if it gave one, otherwise that of the text, <<>> when it failed.
Recorded(vision, content) == IF vision.valid THEN <<Kept(vision.total)>> ELSE content
=============================================================================
