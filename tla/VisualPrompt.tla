--------------------------- MODULE VisualPrompt ---------------------------
(* prompt_safety.py: the prompt sent for a picture or a video, and what is  *)
(* put into it on its way (anchors.py, the style, a reviewer's note).  A    *)
(* prompt is a sequence of comma-separated segments and, at its end, the    *)
(* textless guard in its full or its short form.  A segment has what it     *)
(* begins with (a name), its length, how willingly it is given up ("low"    *)
(* first, "high" last), and whether it says "text-free" where no            *)
(* replacement sees it: next to a Chinese character, or as a word's end.    *)
EXTENDS Sums, Orders, SequencesExt

CONSTANTS
  MaxLen,   \* _PROMPT_MAX_LEN
  Texts     \* what a segment may say

\* what the code itself may put into a prompt
OwnTexts == {"garbled_scene", "garbled_guard", "geometric_light", "blank_glass"}

ASSUME MaxLenAssumption == MaxLen \in Nat /\ MaxLen > 400
ASSUME TextsAssumption == OwnTexts \subseteq Texts

Segment == [text : Texts, len : Nat, rank : {"low", "plain", "medium", "high"},
            textFree : BOOLEAN]
Prompt  == [body : Seq(Segment), guard : {"none", "full", "short"}]

GuardLen(g) == CASE g = "full" -> 317 [] g = "short" -> 129 [] OTHER -> 0

SegmentLens(s) == [i \in DOMAIN s |-> s[i].len]
\* characters of the segments joined by ", "
BodyLen(s) == IF s = <<>> THEN 0 ELSE Total(SegmentLens(s)) + 2 * (Len(s) - 1)
PromptLen(p) ==
  BodyLen(p.body) + GuardLen(p.guard)
    + (IF p.body # <<>> /\ p.guard # "none" THEN 2 ELSE 0)

\* The segments of s at those places.
Parts(s, places) ==
  LET index == Ascending(places)
  IN  [k \in DOMAIN index |-> s[index[k]]]

\* A segment said before is left out.
Deduped(s) == Parts(s, {i \in DOMAIN s : \A j \in 1..(i - 1) : s[j].text # s[i].text})

\* The places of s in the order in which segments are given up: the last
\* ones first, willing ones before others, those in keep only when nothing
\* else is left; the first segment never.
GivenUp(s, willing, kept) ==
  LET class(i) == CASE s[i].rank \in kept -> 3 [] s[i].rank \in willing -> 1 [] OTHER -> 2
      sooner(i, j) == class(i) < class(j) \/ (class(i) = class(j) /\ i > j)
  IN  Ordered(2..Len(s), sooner)

\* s without the first k segments to be given up
Without(s, order, k) == Parts(s, DOMAIN s \ {order[i] : i \in 1..k})

FitsBudget(p) == PromptLen(p) <= MaxLen

\* Giving up segments of p one at a time, in order, until it fits or until only
\* floor of them are left.
Shortened(p, order, floor) ==
  LET most == IF Len(p.body) > floor THEN Len(p.body) - floor ELSE 0
      after(k) == [p EXCEPT !.body = Without(p.body, order, k)]
      enough == {k \in 0..most : FitsBudget(after(k)) \/ k = most}
  IN  after(CHOOSE k \in enough : \A j \in enough : k <= j)

Short(p) == IF p.guard = "full" THEN [p EXCEPT !.guard = "short"] ELSE p

Smaller(a, b) == IF a <= b THEN a ELSE b

\* The first segment cut to what the guard leaves of the budget.
CutHead(p) ==
  LET budget == MaxLen - GuardLen(p.guard) - 2
  IN  [p EXCEPT !.body = <<[p.body[1] EXCEPT !.len = Smaller(@, budget)]>>]

\* Without a guard the prompt, down to two segments, is cut at the budget.
Cut(p) ==
  LET room == MaxLen - p.body[1].len - 2
      head == [p.body[1] EXCEPT !.len = Smaller(@, MaxLen)]
  IN  [p EXCEPT !.body = IF Len(p.body) = 1 \/ room <= 0 THEN <<head>>
                         ELSE <<head, [p.body[2] EXCEPT !.len = Smaller(@, room)]>>]

FitVisualPrompt(prompt) ==
  LET p == [prompt EXCEPT !.body = Deduped(prompt.body)]
      q == Short(p)
      two == Shortened(q, GivenUp(q.body, {"low"}, {"high"}), 2)
      one == Shortened(two, GivenUp(two.body, {"low", "plain", "medium"}, {"high"}), 1)
  IN  CASE FitsBudget(p) -> p
        [] ~FitsBudget(p) /\ FitsBudget(q) -> q
        [] ~FitsBudget(p) /\ ~FitsBudget(q) /\ FitsBudget(two) -> two
        [] ~FitsBudget(two) /\ two.guard = "none" -> Cut(two)
        [] OTHER -> IF Len(one.body) > 1 THEN one ELSE CutHead(one)

\* The guard's own words are text triggers: sanitising a prompt that already
\* has the guard garbles it into ordinary segments.
Residue == <<[text |-> "garbled_scene", len |-> 23, rank |-> "low", textFree |-> FALSE],
             [text |-> "garbled_guard", len |-> 356, rank |-> "plain", textFree |-> FALSE]>>

\* The segments of a prompt to which something is added: its guard has become
\* some of them.
Opened(p) == p.body \o (IF p.guard = "none" THEN <<>> ELSE Residue)

\* Words that still say "text-free" are taken for a guard.
GuardFor(s) == IF \E i \in DOMAIN s : s[i].textFree THEN "none" ELSE "full"

\* sanitize_visual_prompt: the words that invite text are replaced (a segment
\* keeps its name and its length), the guard is appended, and the whole is
\* fitted.
Sanitized(p) ==
  IF p.body = <<>> /\ p.guard = "none" THEN p
  ELSE FitVisualPrompt([body |-> Opened(p), guard |-> GuardFor(Opened(p))])

StrongerSegments ==
  <<[text |-> "geometric_light", len |-> 60, rank |-> "plain", textFree |-> FALSE],
    [text |-> "blank_glass", len |-> 140, rank |-> "plain", textFree |-> FALSE]>>

\* _stronger_textless_prompt: the full guard is taken off first, the short one
\* is not.
Stronger(p) ==
  Sanitized([body |-> (IF p.guard = "short" THEN Opened(p) ELSE p.body) \o StrongerSegments,
             guard |-> "none"])

\* More segments after a prompt, behind the guard it may have: a reviewer's
\* note, or what the style adds for a picture.
Extended(p, more) == [body |-> Opened(p) \o more, guard |-> "none"]

-----------------------------------------------------------------------------
(* Anchors: what the first clip fixes for the ones after it.                *)

\* The words that set the scene, in segments of their own if they hold
\* commas; and for each character the segments that would name it and the
\* length of its description.
Anchor == [scene : Seq(Segment),
           cast  : Seq([in : SUBSET Texts, len : Nat, textFree : BOOLEAN])]

Lengthened(g, more, said) == [g EXCEPT !.len = @ + more, !.textFree = @ \/ said]

\* A character is described where it is first named.  (A description's own
\* commas do not divide the segment here.)
Described(s, cast) ==
  LET here(i, c) == s[i].text \in cast[c].in /\ \A j \in 1..(i - 1) : s[j].text \notin cast[c].in
      more(i) == Total([c \in DOMAIN cast |-> IF here(i, c) THEN cast[c].len ELSE 0])
      said(i) == \E c \in DOMAIN cast : here(i, c) /\ cast[c].textFree
  IN  [i \in DOMAIN s |-> Lengthened(s[i], more(i), said(i))]

\* Two segments with no comma between them.
Merged(f, g) ==
  LET ranks == {f.rank, g.rank}
  IN  [text |-> f.text, len |-> f.len + 1 + g.len, textFree |-> f.textFree \/ g.textFree,
       rank |-> CASE "high" \in ranks -> "high"
                  [] "high" \notin ranks /\ "low" \in ranks -> "low"
                  [] ranks \cap {"high", "low"} = {} /\ "medium" \in ranks -> "medium"
                  [] OTHER -> "plain"]

\* s with its segments n and n + 1 in one
Joined(s, n) ==
  [i \in 1..(Len(s) - 1) |->
     IF i < n THEN s[i] ELSE IF i = n THEN Merged(s[n], s[n + 1]) ELSE s[i + 1]]

\* The scene goes in front of a prompt that does not begin with it already,
\* without a comma; then the characters are described.
Prefixed(p, a) ==
  IF a.scene # <<>> /\ p.body[1].text # a.scene[1].text
  THEN Joined(Described(a.scene \o p.body, a.cast), Len(a.scene))
  ELSE Described(p.body, a.cast)

\* mutant: the scene is put behind the prompt
AnchoredBehind(p, a) == [p EXCEPT !.body = Described(@ \o a.scene, a.cast)]
\* inject_anchors_into_prompt
Anchored(p, a) == [p EXCEPT !.body = Prefixed(p, a)]
=============================================================================
