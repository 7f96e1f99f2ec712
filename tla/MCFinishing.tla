--------------------------- MODULE MCFinishing ---------------------------
(* Instances of Finishing for TLC.                                          *)
EXTENDS Finishing

\* Two clips, the second without text; two clips of five and ten seconds whose
\* phrases need cutting; one clip without any text, its narration apart.
MCBoards ==
  {[clips |-> <<[text |-> <<14, 9>>, summary |-> <<6>>], [text |-> <<>>, summary |-> <<>>],
                [text |-> <<31>>, summary |-> <<>>]>>, narration |-> <<14, 9, 31>>],
   [clips |-> <<[text |-> <<15, 20>>, summary |-> <<>>], [text |-> <<16, 30>>, summary |-> <<8>>]>>,
    narration |-> <<15, 20, 16, 30>>],
   [clips |-> <<[text |-> <<>>, summary |-> <<>>]>>, narration |-> <<12, 3, 17>>],
   [clips |-> <<[text |-> <<>>, summary |-> <<7>>]>>, narration |-> <<>>]}

MCDrifts == {-75, -20, -9, 4, 10, 13, 31, 79, 100, 160}

W(id, chars, start, end, float, tail) ==
  [id |-> id, chars |-> chars, start |-> start, end |-> end, float |-> float, tail |-> tail]
\* In milliseconds, with a repeated word and a pause; in seconds, the first
\* start written as a whole number; one word that outlasts the others.
MCRawWords ==
  {<<W("a", 6, 0, 400000, FALSE, "none"), W("b", 5, 420000, 900000, FALSE, "soft"),
     W("b", 5, 420000, 900000, FALSE, "soft"), W("c", 3, 2000000, 2600000, FALSE, "hard"),
     W("d", 4, 2600000, 5200000, FALSE, "none")>>,
   <<W("a", 9, 0, 350, FALSE, "none"), W("b", 14, 360, 2500, TRUE, "none"),
     W("c", 2, 2600, 9100, TRUE, "none")>>,
   <<W("c", 2, 900000, 1500000, FALSE, "none"), W("a", 5, 0, 7000000, FALSE, "hard"),
     W("", 0, 0, 0, FALSE, "none")>>}

Sfx(delay, dur, file) == [delay |-> delay, dur |-> dur, file |-> file]
MCEffects == {<<>>, <<Sfx(0, 30, 0)>>, <<Sfx(0, 30, 0), Sfx(20, 30, 60)>>}

\* A good film, a poor one to be made again, a score in words.
MCRhythms == {NoRhythm, [marks |-> 6, secs |-> 20]}
MCAnswers ==
  {NoAnswer, [points |-> <<75, 70, 80, 75, 72>>, words |-> {}, again |-> TRUE],
   [points |-> <<0, 4, 120, 0, 0>>, words |-> {1}, again |-> FALSE]}
=============================================================================
