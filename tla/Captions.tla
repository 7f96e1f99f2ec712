----------------------------- MODULE Captions -----------------------------
(* Where the captions of a video stand.  A text is a sequence of phrases    *)
(* (their characters, without the punctuation that ends each); a caption is *)
(* a piece of text from start to end, in hundredths of a second; a word of  *)
(* the voice stands from start to end in milliseconds.                      *)
EXTENDS Sums, Orders, SequencesExt

Lower(x, y) == IF x < y THEN x ELSE y
Higher(x, y) == IF x > y THEN x ELSE y
Chars(text) == Total(text) + Len(text)

MaxChars == 15

\* _split_caption_text: a piece ends with its phrase or at MaxChars.
Pieces(phrase) ==
  LET n == (phrase + MaxChars - 1) \div MaxChars
  IN  [i \in 1..n |-> IF i < n THEN MaxChars ELSE phrase - (n - 1) * MaxChars]
Chunks(text) == FlattenSeq([i \in DOMAIN text |-> Pieces(text[i])])

-----------------------------------------------------------------------------
(* Captions from the clips of the plan: each clip has its text, its summary *)
(* (shown when there is no text) and its seconds.                           *)

Shown(c) == IF c.text # <<>> THEN c.text ELSE c.summary
Captioned(c) == Shown(c) # <<>> /\ c.dur > 0

\* the captions of clip c, the k-th, from cursor on; punctuation alone is one
ClipCaptions(c, k, cursor) ==
  LET n == Higher(1, Len(Chunks(Shown(c))))
      at(i) == cursor + (i * c.dur * 100) \div n
  IN  [i \in 1..n |-> [clip |-> k, start |-> at(i - 1), end |-> at(i)]]

\* mutant: the clip's own time is counted before its captions
CursorLate(clips, k) ==
  Total([i \in 1..k |-> IF Captioned(clips[i]) THEN clips[i].dur * 100 ELSE 0])
\* A clip without text takes no time: the next one's captions start where the
\* last shown one's ended.
Cursor(clips, k) ==
  Total([i \in 1..(k - 1) |-> IF Captioned(clips[i]) THEN clips[i].dur * 100 ELSE 0])

PlanCaptions(clips) ==
  FlattenSeq([k \in DOMAIN clips |->
    IF Captioned(clips[k]) THEN ClipCaptions(clips[k], k, Cursor(clips, k)) ELSE <<>>])

\* Without any text in the plan the narration is spread over the seconds there
\* are, each chunk by its length and for at least MinTime; what begins less
\* than 0.2 s before its end is not shown.
MinTime == 85
TextCaptions(text, total) ==
  LET chunks == Chunks(text)
      n == Len(chunks)
      share(i) == Higher(MinTime, (total * chunks[i]) \div Higher(1, Total(chunks)))
      at[i \in 0..n] == IF i = 0 THEN 0 ELSE IF i = n THEN total
                        ELSE Lower(total, at[i - 1] + share(i))
      shown == {i \in 1..n : at[i - 1] < total /\ at[i] - at[i - 1] >= 20}
      index == Ascending(shown)
  IN  IF total <= 0 THEN <<>>
      ELSE [i \in DOMAIN index |-> [clip |-> 0, start |-> at[index[i] - 1], end |-> at[index[i]]]]

RebuiltCaptions(clips, narration, total) ==
  IF PlanCaptions(clips) # <<>> THEN PlanCaptions(clips) ELSE TextCaptions(narration, total)

\* from_captions_list, for captions that have no times
EvenCaptions(n, total) ==
  [i \in 1..n |-> [clip |-> 0, start |-> ((i - 1) * total) \div n, end |-> (i * total) \div n]]

-----------------------------------------------------------------------------
(* Words of the voice.  The service gives each word's times in a unit of    *)
(* its own choosing: raw is in thousandths of that unit, float tells        *)
(* whether the start was written as a floating-point number.                *)

Tails   == {"hard", "soft", "none"}
RawWord == [id : STRING, chars : Nat, start : Nat, end : Nat, float : BOOLEAN, tail : Tails]
Word    == [id : STRING, chars : Nat, start : Nat, end : Nat, tail : Tails]

\* A floating start below 1000 is taken for seconds, anything else for
\* milliseconds.  A word without text is left out.
SecondsBelow == 1000000
WordFromRaw(r) ==
  LET seconds == r.float /\ r.start < SecondsBelow
      ms(v) == IF seconds THEN v ELSE v \div 1000
  IN  [chars |-> r.chars, start |-> ms(r.start), end |-> ms(r.end), tail |-> r.tail, id |-> r.id]

\* The words of all frames, a repeated word left out, in the order they start.
WordTimestamps(raws) ==
  LET word(i) == WordFromRaw(raws[i])
      again(i) == \E j \in 1..(i - 1) :
                    word(j).id = word(i).id /\ word(j).start = word(i).start
      words == {i \in DOMAIN raws : raws[i].chars > 0 /\ ~again(i)}
      sooner(i, j) == word(i).start < word(j).start \/ (word(i).start = word(j).start /\ i < j)
      index == Ordered(words, sooner)
  IN  [k \in DOMAIN index |-> word(index[k])]

\* Whether the words' times are stretched to a video of target ms: only when
\* they differ by 300 ms and by a twentieth.
Retimes(words, target) ==
  /\ words # <<>> /\ target > 0 /\ Last(words).end > 0
  /\ LET diff == IF target > Last(words).end THEN target - Last(words).end
                 ELSE Last(words).end - target
     IN  diff >= 300 /\ diff * 20 >= Last(words).end

\* the nearest whole number of v * target / source
Scaled(v, target, source) == (2 * v * target + source) \div (2 * source)

\* mutant: a word may start before the one before it ended
RetimedFreely(words, target) ==
  LET source == Last(words).end
  IN  IF Retimes(words, target)
      THEN [i \in DOMAIN words |-> [words[i] EXCEPT
              !.start = Scaled(words[i].start, target, source),
              !.end = IF i = Len(words) THEN target ELSE Scaled(words[i].end, target, source)]]
      ELSE words
\* Word i of words stretched to target: it starts no sooner than the word
\* before it ended, the last one ends with the video.
Retimed(words, target) ==
  LET source == Last(words).end
      n == Len(words)
      new[i \in 0..n] ==
        IF i = 0 THEN [start |-> 0, end |-> 0]
        ELSE LET start == Scaled(words[i].start, target, source)
                 late  == Higher(start, new[i - 1].end)
                 end   == IF i = n THEN target ELSE Higher(start, Scaled(words[i].end, target, source))
             IN  [start |-> late, end |-> Higher(late, end)]
  IN  IF Retimes(words, target)
      THEN [i \in DOMAIN words |-> [words[i] EXCEPT !.start = new[i].start, !.end = new[i].end]]
      ELSE words

\* Whether a new line starts before word w, after a line that ends with word p
\* and has that many characters.
CharsPerLine == 12
Breaks(p, chars, w) ==
  \/ w.start - p.end >= 500
  \/ p.tail = "hard"
  \/ p.tail = "soft" /\ chars >= 10
  \/ chars + w.chars > 22 /\ (p.tail = "soft" \/ chars >= CharsPerLine)

\* _group_words_to_lines: one line is <<first word, last word>>.
Lines(words) ==
  LET n == Len(words)
      \* the first word of the line that holds word i
      head[i \in 1..n] ==
        IF i = 1 THEN 1
        ELSE LET chars == Total([j \in 1..(i - head[i - 1]) |-> words[head[i - 1] + j - 1].chars])
             IN  IF Breaks(words[i - 1], chars, words[i]) THEN i ELSE head[i - 1]
      heads == Ascending({head[i] : i \in 1..n})
  IN  [k \in DOMAIN heads |-> [start |-> words[heads[k]].start,
                               end   |-> words[IF k < Len(heads) THEN heads[k + 1] - 1 ELSE n].end]]
=============================================================================
