----------------------------- MODULE Finishing -----------------------------
(* From the approved clips to the video that is sent: layers L4 and L5 as   *)
(* _finalize_after_visual_clips runs them.  The clips are joined, the       *)
(* narration is spoken, effects and music are mixed in, voice and pictures  *)
(* are compared and, when they differ too much, rescued; captions, a cover  *)
(* and a compression follow.  The speech service, the language model and    *)
(* ffmpeg are the environment.  Times are tenths of a second.               *)
EXTENDS Quality, FiniteSets

CONSTANTS
  Boards,        \* storyboards: [clips |-> sequence of [text, summary], narration |-> text]
  Drifts,        \* by how much a voice may differ from the planned seconds
  RawWords,      \* word times the speech service may send
  Effects,       \* sound effects: sequences of [delay, dur, file]; file 0 is a missing one
  Rhythms,       \* rhythms the plan may have: marks in seconds, or NoRhythm
  Answers,       \* what the models may answer when they are asked for points
  BurnCaptions,  \* enable_burn_captions
  MusicLibrary   \* whether there are files of background music

ASSUME SwitchesAssumption == BurnCaptions \in BOOLEAN /\ MusicLibrary \in BOOLEAN
ASSUME DriftsAssumption == Drifts \subseteq Int
\* There is a clip; the narration is what the clips say.
ASSUME BoardsAssumption ==
  \A b \in Boards : /\ b.clips \in Seq([text : Seq(Nat), summary : Seq(Nat)]) /\ b.clips # <<>>
                    /\ b.narration \in Seq(Nat)
\* A clip has no more captions than five seconds have hundredths (schemas.py:92
\* allows a clip 200 characters); with more, one would stand for no time at all.
ASSUME ShortTextsAssumption ==
  \A b \in Boards : \A i \in DOMAIN b.clips :
    Len(Chunks(b.clips[i].text)) <= 500 /\ Len(Chunks(b.clips[i].summary)) <= 500
\* The speech service lets no word end before it starts.
ASSUME RawWordsAssumption ==
  \A raws \in RawWords : raws \in Seq(RawWord) /\ \A i \in DOMAIN raws : raws[i].start <= raws[i].end
\* Points are whole numbers, of any size.
ASSUME AnswersAssumption ==
  \A a \in Answers : /\ DOMAIN a.points \subseteq Fields /\ a.words \subseteq Fields
                     /\ \A i \in DOMAIN a.points : a.points[i] \in Int
\* A delay below zero counts as none; files have lengths, missing ones 0.
ASSUME EffectsAssumption == Effects \subseteq Seq([delay : Nat, dur : Nat, file : Nat])

-----------------------------------------------------------------------------
(* Durations: what a narration takes to read, at 7.5 characters a second,   *)
(* decides between clips of 5 and of 10 seconds.                            *)

PickDuration(chars) == IF 100 * chars <= 75 * 46 THEN 5 ELSE 10

PlanDurations(clips) ==
  [i \in DOMAIN clips |-> [text |-> clips[i].text, summary |-> clips[i].summary,
                           dur |-> PickDuration(Chars(clips[i].text))]]
\* When planning fails the clips keep the five seconds they were given.
Unplanned(clips) ==
  [i \in DOMAIN clips |-> [text |-> clips[i].text, summary |-> clips[i].summary, dur |-> 5]]

Seconds(clips) == 10 * Total([i \in DOMAIN clips |-> clips[i].dur])

-----------------------------------------------------------------------------
(* Voice and pictures.                                                      *)

Abs(x) == IF x < 0 THEN -x ELSE x

Severity(drift) ==
  CASE Abs(drift) <= 5 -> "pass" [] Abs(drift) > 12 -> "hard_fail" [] OTHER -> "soft_fix"

\* A voice that cannot be measured counts as none: no drift.
Drift(pictures, voice) == IF voice = 0 THEN 0 ELSE voice - pictures

\* The speed, a fraction, that fits a voice to the pictures: between 0.85 and
\* 1.30; pictures that cannot be measured leave it at 1.
Tempo(pictures, voice) ==
  CASE pictures = 0                    -> <<1, 1>>
    [] pictures > 0 /\ 100 * voice > 130 * pictures -> <<130, 100>>
    [] pictures > 0 /\ 100 * voice < 85 * pictures  -> <<85, 100>>
    [] OTHER                           -> <<voice, pictures>>
Sped(len, tempo) == (len * tempo[2]) \div tempo[1]

\* How far the pictures are prolonged for a voice.
PadMax == 50
\* mutant: the difference the wrong way round
PadSwapped(pictures, voice) == Higher(0, Lower(PadMax, pictures - voice))
Pad(pictures, voice) == Higher(0, Lower(PadMax, voice - pictures))

\* The strategies that are tried for a drift, in order.
Strategies(drift) ==
  CASE Abs(drift) <= 30                       -> <<"tempo", "pad", "rewrite">>
    [] Abs(drift) > 30 /\ Abs(drift) <= 80    -> <<"pad", "rewrite">>
    [] Abs(drift) > 80 /\ Abs(drift) <= 150   -> <<"rewrite">>
    [] OTHER                                  -> <<>>

\* characters the rewritten narration may have
RewriteTarget(chars, pictures, voice) == Higher(8, (chars * pictures * 92) \div (voice * 100))

-----------------------------------------------------------------------------
(* A film: its pictures and the tenths of them and of the voice that were   *)
(* cut off, and what can be heard in it.                                    *)

Silent(pictures) == [pictures |-> pictures, cut |-> 0, voice |-> FALSE, lost |-> 0, music |-> FALSE]

\* mix ends with the shorter of the pictures and the first sound (-shortest,
\* amix duration=first).
\* mutant: what is cut is not kept from being negative
SpokenUnclamped(pictures, voice) ==
  [pictures |-> Lower(pictures, voice), cut |-> pictures - voice,
   voice |-> TRUE, lost |-> voice - pictures, music |-> FALSE]
Spoken(pictures, voice) ==
  [pictures |-> Lower(pictures, voice), cut |-> Higher(0, pictures - voice),
   voice |-> TRUE, lost |-> Higher(0, voice - pictures), music |-> FALSE]
Sounding(pictures, first) ==
  [Silent(Lower(pictures, first)) EXCEPT !.cut = Higher(0, pictures - first)]

\* An effect is delayed and then cut to its duration, the delay included.
Sound(e) == IF e.dur > 0 THEN Lower(e.delay + e.file, e.dur) ELSE e.delay + e.file
Heard(effects) == {i \in DOMAIN effects : effects[i].file > 0}

-----------------------------------------------------------------------------
VARIABLES
  pc,        \* what _finalize_after_visual_clips does next
  board,     \* the clips, with their seconds, and the narration
  joined,    \* the joined clips: their seconds, and whether all are in it
  stream,    \* the session with the speech service: how far, audio, words
  voice,     \* voiceover.mp3: its seconds (0: none), how much of the text it says
  sounds,    \* the effects and whether music was found
  film,      \* mixed_path
  rescue,    \* strategies still to be tried
  blind,     \* whether ffprobe or ffmpeg failed since the mix (history)
  burned,    \* whether captions are in the film
  cover,     \* whether there is a cover
  score,     \* quality_score of the recorded video: <<>> or <<tenths of a point>>
  told       \* what the summary says

packed == <<burned, cover, score, told>>
vars == <<pc, board, joined, stream, voice, sounds, film, rescue, blind, packed>>

NoStream == [stage |-> "closed", audio |-> 0, raws |-> <<>>]
NoVoice  == [len |-> 0, parts |-> 0, words |-> <<>>]
NoSounds == [effects |-> <<>>, music |-> FALSE]
\* Whether music is found: the mood the model names, or the default one, must
\* be one the library has files for.
Musics   == {FALSE, MusicLibrary}
Parts    == 2      \* a whole narration comes in this many audio frames

Init ==
  /\ pc = "join"
  /\ \E b \in Boards : \E clips \in {PlanDurations(b.clips), Unplanned(b.clips)} :
       board = [clips |-> clips, narration |-> b.narration]
  /\ joined = [len |-> 0, whole |-> FALSE]
  /\ stream = NoStream /\ voice = NoVoice /\ sounds = NoSounds
  /\ film = Silent(0) /\ rescue = <<>> /\ blind = FALSE
  /\ burned = FALSE /\ cover = FALSE /\ score = <<>> /\ told = {}

\* concat_clips; when it fails the first clip goes on alone.
Join ==
  /\ pc = "join"
  /\ \E whole \in IF Len(board.clips) = 1 THEN {TRUE} ELSE BOOLEAN :
       LET len == IF whole THEN Seconds(board.clips) ELSE 10 * board.clips[1].dur
       IN  joined' = [len |-> len, whole |-> whole] /\ film' = Silent(len)
  /\ IF board.narration = <<>>
     THEN pc' = "sound" /\ UNCHANGED stream
     ELSE pc' = "speak" /\ stream' = [stage |-> "connection", audio |-> 0, raws |-> <<>>]
  /\ UNCHANGED <<board, voice, sounds, rescue, blind, packed>>

-----------------------------------------------------------------------------
(* The session with the speech service: frames arrive until it is finished, *)
(* closed, refused or out of time.                                          *)

\* Without a voice the video goes on: an unknown voice, no credentials, an
\* error frame, a failed session, no audio, or WS_TIMEOUT_SEC seconds.
SpeechFails ==
  /\ pc = "speak"
  /\ pc' = "sound" /\ stream' = NoStream
  /\ UNCHANGED <<board, joined, voice, sounds, film, rescue, blind, packed>>

\* _recv_until: frames that are not waited for are passed over.
Handshake ==
  /\ pc = "speak"
  /\ \/ stream.stage = "connection" /\ stream' = [stream EXCEPT !.stage = "session"]
     \/ stream.stage = "session"    /\ stream' = [stream EXCEPT !.stage = "open"]
  /\ UNCHANGED <<pc, board, joined, voice, sounds, film, rescue, blind, packed>>

AudioFrame ==
  /\ pc = "speak" /\ stream.stage = "open" /\ stream.audio < Parts
  /\ stream' = [stream EXCEPT !.audio = @ + 1]
  /\ UNCHANGED <<pc, board, joined, voice, sounds, film, rescue, blind, packed>>

\* A server frame with a payload; one that tells of a failed connection is
\* kept like the others.
WordsFrame ==
  /\ pc = "speak" /\ stream.stage = "open" /\ stream.raws = <<>>
  /\ stream' \in {[stream EXCEPT !.raws = raws] : raws \in RawWords}
  /\ UNCHANGED <<pc, board, joined, voice, sounds, film, rescue, blind, packed>>

\* The session is finished, or the connection is gone: what has arrived is the
\* voice, whole or not.
SpeechEnds ==
  /\ pc = "speak" /\ stream.stage = "open" /\ stream.audio > 0
  /\ \E d \in Drifts :
       LET len == ((Seconds(board.clips) + d) * stream.audio) \div Parts
       IN  len > 0 /\ voice' = [len |-> len, parts |-> stream.audio,
                                words |-> WordTimestamps(stream.raws)]
  /\ pc' = "sound" /\ stream' = NoStream
  /\ UNCHANGED <<board, joined, sounds, film, rescue, blind, packed>>

\* duration_ms of the voice, in hundredths of a second: where its last word
\* ends, or else its measured length.
SaidLength == IF voice.words # <<>> THEN Last(voice.words).end \div 10 ELSE 10 * voice.len

-----------------------------------------------------------------------------
(* Effects, music and the mix.                                              *)

\* The language model names effects and a mood; an answer that cannot be read
\* gives no effects and the default mood.
ChooseSounds ==
  /\ pc = "sound"
  /\ \E effects \in Effects, music \in Musics :
       /\ sounds' = [effects |-> effects, music |-> music]
       /\ pc' = IF voice.len > 0 \/ effects # <<>> \/ music THEN "mix" ELSE "caption"
  /\ UNCHANGED <<board, joined, stream, voice, film, rescue, blind, packed>>

\* With music, "-stream_loop -1" is put between "-i" and the file it belongs
\* to: ffmpeg takes it for a file name and fails.  A mix that fails leaves the
\* film without any sound.
MixWorks == ~sounds.music

\* The film by its first sound: the voice, the music (as long as the pictures),
\* the first effect there is a file of, or nothing.
MixedWith(effects) ==
  CASE voice.len > 0 -> Spoken(joined.len, voice.len)
    [] voice.len = 0 /\ ~sounds.music /\ Heard(effects) # {} ->
         Sounding(joined.len, Sound(effects[Min(Heard(effects))]))
    [] OTHER -> Silent(joined.len)

Mix ==
  /\ pc = "mix"
  /\ \/ /\ MixWorks
        /\ film' = [MixedWith(sounds.effects) EXCEPT !.music = sounds.music]
        /\ pc' = IF voice.len > 0 THEN "compare" ELSE "caption"
     \/ pc' = "caption" /\ UNCHANGED film
  /\ UNCHANGED <<board, joined, stream, voice, sounds, rescue, blind, packed>>

-----------------------------------------------------------------------------
(* Voice and pictures compared (av_sync), and the rescue (av_sync_rescue).  *)

\* What ffprobe says of a length: it, or nothing.
Probed(len) == {len, 0}
Failed(p, len) == p # len

\* check_and_correct_av_sync.  A correction that fails lets the mix pass.
Compare ==
  /\ pc = "compare"
  /\ \E p \in Probed(joined.len), v \in Probed(voice.len) :
       LET drift == Drift(p, v)
           trims == Severity(drift) = "soft_fix" /\ drift < 0
       IN  /\ blind' = (Failed(p, joined.len) \/ Failed(v, voice.len))
           /\ IF Severity(drift) = "hard_fail"
              THEN pc' = "rescue" /\ rescue' = Strategies(drift)
              ELSE pc' = "caption" /\ UNCHANGED rescue
           /\ \/ trims /\ film' = [film EXCEPT !.pictures = Lower(@, v)]
              \/ UNCHANGED film
  /\ UNCHANGED <<board, joined, stream, voice, sounds, packed>>

\* The rescued film, when the new voice and the pictures are found to agree:
\* p and v are what ffprobe says of them.
\* mutant: only a voice that is too long counts
VerifiedOneSided(p, v) == Drift(p, v) <= 12
Verified(p, v) == Abs(Drift(p, v)) <= 12

Rescued(pictures, len) ==
  /\ pc' = "caption" /\ rescue' = <<>>
  /\ film' = Spoken(pictures, len)

NextStrategy == rescue' = Tail(rescue) /\ UNCHANGED <<pc, film>>

\* Any strategy may raise an error; then the next one is tried.
StrategyFails ==
  /\ pc = "rescue" /\ rescue # <<>>
  /\ NextStrategy /\ blind' = TRUE
  /\ UNCHANGED <<board, joined, stream, voice, sounds, packed>>

\* _try_audio_tempo: the voice faster or slower.
RescueByTempo ==
  /\ pc = "rescue" /\ rescue # <<>> /\ Head(rescue) = "tempo"
  /\ \E p \in Probed(joined.len), v \in Probed(voice.len), q \in Probed(joined.len) :
       LET len == Sped(voice.len, Tempo(p, v))
       IN  \E w \in Probed(len) :
             /\ blind' = (blind \/ <<p, v, q, w>> # <<joined.len, voice.len, joined.len, len>>)
             /\ IF Verified(q, w) THEN Rescued(joined.len, len) ELSE NextStrategy
  /\ UNCHANGED <<board, joined, stream, voice, sounds, packed>>

\* _try_audio_pad: the same, and the last picture stands still for a while.
RescueByPad ==
  /\ pc = "rescue" /\ rescue # <<>> /\ Head(rescue) = "pad"
  /\ \E p \in Probed(joined.len), v \in Probed(voice.len) :
       LET len == Sped(voice.len, Tempo(p, v))
       IN  \E u \in Probed(len) :
             LET padded == joined.len + Pad(p, u)
             IN  \E q \in Probed(padded), w \in Probed(len) :
                   /\ blind' = (blind \/ <<p, v, u, q, w>>
                                           # <<joined.len, voice.len, len, padded, len>>)
                   /\ IF Verified(q, w) THEN Rescued(padded, len) ELSE NextStrategy
  /\ UNCHANGED <<board, joined, stream, voice, sounds, packed>>

\* _try_rewrite: a new narration, never longer than its target, spoken anew;
\* the service takes a little less or more time for it than the old pace.
RescueByRewrite ==
  /\ pc = "rescue" /\ rescue # <<>> /\ Head(rescue) = "rewrite"
  /\ \E p \in Probed(joined.len), v \in Probed(voice.len) :
       IF p = 0 \/ v = 0 THEN NextStrategy /\ blind' = TRUE
       ELSE LET old == Chars(board.narration)
                target == RewriteTarget(old, p, v)
            IN  \E chars \in {target, Lower(target, old)}, slower \in {-10, 0, 10} :
                  LET len == Higher(1, (voice.len * chars) \div old + slower)
                  IN  \E q \in Probed(joined.len), w \in Probed(len) :
                        /\ blind' = (blind \/ q = 0 \/ w = 0)
                        /\ IF Verified(q, w) THEN Rescued(joined.len, len) ELSE NextStrategy
  /\ UNCHANGED <<board, joined, stream, voice, sounds, packed>>

\* mutant: a drift no strategy is tried for is forgotten
RefuseTried ==
  /\ pc = "rescue" /\ rescue = <<"rewrite">>
  /\ pc' = "refused"
  /\ UNCHANGED <<board, joined, stream, voice, sounds, film, rescue, blind, packed>>
\* Nothing helped: the chat is told, nothing is sent.
Refuse ==
  /\ pc = "rescue" /\ rescue = <<>>
  /\ pc' = "refused"
  /\ UNCHANGED <<board, joined, stream, voice, sounds, film, rescue, blind, packed>>

-----------------------------------------------------------------------------
(* Captions, cover, compression, sending and the summary.                   *)

\* The captions of the film: by the plan's clips, or the narration spread over
\* the voice, or over the plan when there is none.
CaptionSeconds == IF SaidLength > 0 THEN SaidLength ELSE 10 * Seconds(board.clips)
BuiltCaptions == RebuiltCaptions(board.clips, board.narration, CaptionSeconds)

\* The words and the effects are not read again: they are forgotten.
Caption ==
  /\ pc = "caption"
  /\ burned' \in {FALSE, BurnCaptions}
  /\ pc' = "cover"
  /\ voice' = [voice EXCEPT !.words = <<>>] /\ sounds' = [sounds EXCEPT !.effects = <<>>]
  /\ UNCHANGED <<board, joined, stream, film, rescue, blind, cover, score, told>>

MakeCover ==
  /\ pc = "cover"
  /\ cover' \in BOOLEAN
  /\ pc' = "judge"
  /\ UNCHANGED <<board, joined, stream, voice, sounds, film, rescue, blind, burned, score, told>>

\* compress and apply_rhythm change none of this.  Then the text and the film
\* are judged; either may fail, and neither keeps the film from being sent.
\* The picture prompt is not empty: it falls back to the scene.
Judge ==
  /\ pc = "judge"
  /\ \E a, first, second \in Answers, rhythm \in Rhythms, said \in {0, film.pictures} :
       LET total   == ContentTotal(a, rhythm, Chars(board.narration), TRUE)
           content == IF ContentReads(a) THEN <<Kept(total)>> ELSE <<>>
           vision  == IF Frames(said, film.pictures, 6) # {} THEN Judged(first, second, 0) ELSE Unjudged
       IN  score' = Recorded(vision, content)
  /\ pc' = "send"
  /\ UNCHANGED <<board, joined, stream, voice, sounds, film, rescue, blind, burned, cover, told>>

Summary(recorded) ==
  {c \in {"voice", "music", "cover", "id"} :
     \/ c = "voice" /\ voice.len > 0
     \/ c = "music" /\ sounds.music
     \/ c = "cover" /\ cover
     \/ c = "id" /\ recorded}

\* send_file may raise: then no summary follows.  Without its record the video
\* has no id, and no score.
SendFilm ==
  /\ pc = "send"
  /\ \/ \E recorded \in BOOLEAN :
          /\ pc' = "done" /\ told' = Summary(recorded)
          /\ score' = IF recorded THEN score ELSE <<>>
     \/ pc' = "raised" /\ UNCHANGED <<score, told>>
  /\ UNCHANGED <<board, joined, stream, voice, sounds, film, rescue, blind, burned, cover>>

Next ==
  \/ Join
  \/ SpeechFails \/ Handshake \/ AudioFrame \/ WordsFrame \/ SpeechEnds
  \/ ChooseSounds \/ Mix \/ Compare
  \/ StrategyFails \/ RescueByTempo \/ RescueByPad \/ RescueByRewrite \/ Refuse
  \/ Caption \/ MakeCover \/ Judge \/ SendFilm

Spec     == Init /\ [][Next]_vars
\* The session with the speech service has a time limit, every other call ends.
FairSpec == Spec /\ WF_vars(Next)

-----------------------------------------------------------------------------
TypeOK ==
  /\ pc \in {"join", "speak", "sound", "mix", "compare", "rescue", "caption", "cover", "judge",
             "send", "done", "refused", "raised"}
  /\ joined.len \in Nat /\ joined.whole \in BOOLEAN
  /\ stream.stage \in {"closed", "connection", "session", "open"} /\ stream.audio \in 0..Parts
  /\ voice.len \in Nat /\ voice.parts \in 0..Parts /\ \A w \in Range(voice.words) : w.end \in Nat
  /\ sounds.effects \in Effects \cup {<<>>} /\ sounds.music \in Musics
  /\ film \in [pictures : Nat, cut : Nat, voice : BOOLEAN, lost : Nat, music : BOOLEAN]
  /\ rescue \in {<<>>, <<"rewrite">>, <<"pad", "rewrite">>, <<"tempo", "pad", "rewrite">>}
  /\ blind \in BOOLEAN /\ burned \in {FALSE, BurnCaptions} /\ cover \in BOOLEAN
  /\ \A n \in Range(score) : n \in KeptScores
  /\ told \subseteq {"voice", "music", "cover", "id"}

Leaving == pc \in {"caption", "cover", "judge", "send", "done"}

\* Whatever the voice's length and whichever rescue was used, a film that is
\* sent with a voice lost at most 1.2 s of the voice and at most 1.2 s of its
\* pictures, unless a measurement failed (av_sync.py, av_sync_rescue.py).
CutIsSmall ==
  Leaving /\ film.voice /\ ~blind => film.lost <= 12 /\ film.cut <= 12

\* Nothing that could be saved is refused: when no call failed, a video whose
\* voice and pictures differ by no more than 8 s is refused only if no speed
\* between 0.85 and 1.30 and no standing picture of up to five seconds brings
\* them within 1.2 s of each other (attempt_rescue).
RefusedForReason ==
  pc = "refused" /\ ~blind /\ Abs(voice.len - joined.len) <= 80 =>
    \A tempo \in 85..130, still \in 0..50 :
      Abs((voice.len * 100) \div tempo - joined.len - still) > 12

\* The seconds, in hundredths, at which clip k stands in the joined film.
ClipStart(k) == 10 * Seconds(SubSeq(board.clips, 1, k - 1))

\* A caption burned into the film stands while its own clip is shown, if every
\* clip before it has text; and captions follow each other without overlapping.
CaptionUnderItsClip ==
  pc = "caption" =>
    LET cs == BuiltCaptions
    IN  /\ \A i \in DOMAIN cs : cs[i].start < cs[i].end
        /\ \A i \in 1..(Len(cs) - 1) : cs[i].end <= cs[i + 1].start
        /\ \A i \in DOMAIN cs :
             LET k == cs[i].clip
             IN  k > 0 /\ (\A j \in 1..k : Captioned(board.clips[j])) =>
                   ClipStart(k) <= cs[i].start /\ cs[i].end <= ClipStart(k + 1)

\* The lines that burn_captions_from_word_timestamps would put on the film (the
\* finishing imports it but burns with burn_captions) stand in the words' order;
\* once stretched to the film they do not overlap, and they end with it unless a
\* word outlasts the last one.
LinesFitFilm ==
  pc = "caption" /\ voice.words # <<>> =>
    LET target == 100 * film.pictures
        words == Retimed(voice.words, target)
        lines == Lines(words)
        longest == \A i \in DOMAIN voice.words : voice.words[i].end <= Last(voice.words).end
    IN  /\ \A i \in 1..(Len(lines) - 1) : lines[i].start <= lines[i + 1].start
        /\ Retimes(voice.words, target) =>
             /\ \A i \in 1..(Len(lines) - 1) : lines[i].end <= lines[i + 1].start
             /\ longest => Last(lines).end = target

\* What the summary says of the film is true of it: "已添加 AI 配音" stands for a
\* voice in the film, "BGM" for music.
SummaryTellsTruth ==
  pc = "done" => /\ "voice" \in told => film.voice
                 /\ "music" \in told => film.music

\* Every finalisation ends: with the film sent, a refusal, or an error.
FinishingEnds == <>(pc \in {"done", "refused", "raised"})
=============================================================================
