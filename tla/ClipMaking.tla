---------------------------- MODULE ClipMaking ----------------------------
(* The video clips of one storyboard, made one after another: layer L3.     *)
(* _start_or_resume_visual_clip_review asks for each clip, generate_clip    *)
(* makes its first picture (or takes the previous clip's last frame), has   *)
(* the provider turn it into a video and looks at the result for unwanted   *)
(* text.  The user's answers between the clips are ClipReview's: here a     *)
(* clip is its last call, with the changes asked for by then, and an error  *)
(* ends the sequence.  The provider is the environment: it answers,         *)
(* refuses, fails or keeps one waiting.  Times are milliseconds, scores     *)
(* hundredths.                                                              *)
EXTENDS VisualPrompt, FiniteSets

CONSTANTS
  Clips,         \* how many clips the storyboard has
  Cameras,       \* the camera movements the storyboard may ask for
  Prompts,       \* the prompts the storyboard may hold
  Anchors,       \* what may be taken from the first clip
  Notes,         \* what a reviewer may have added to a clip's prompt by its last call
  StyleSuffix,   \* what the style adds to a picture's prompt
  HasCamera,     \* whether the configured video model takes camera_control
  HasReference   \* whether a picture of the character exists

ASSUME ClipsAssumption  == Clips \in Nat \ {0}
ASSUME SwitchAssumption == HasCamera \in BOOLEAN /\ HasReference \in BOOLEAN

LegacyTypes == {"push_in", "pull_out", "pan_left", "pan_right",
                "tilt_up", "tilt_down", "orbit", "static"}

\* A storyboard may hold any other name, and any numbers.
Camera == [type : LegacyTypes \cup {"none", "simple", "other"},
           horizontal : Int, vertical : Int, zoom : Int]

ASSUME CamerasAssumption == Cameras \subseteq Camera

\* A clip without a prompt of its own has its scene's words.
ASSUME PromptsAssumption == \A p \in Prompts : p \in Prompt /\ p.body # <<>>

ASSUME AdditionsAssumption ==
  Anchors \subseteq Anchor /\ Notes \subseteq Seq(Segment) /\ StyleSuffix \in Seq(Segment)

\* _TEXT_ARTIFACT_GUARD_BLOCKING: what the inspectors find is only logged.
\* mutant: the guard blocks
BlockingOn == TRUE
Blocking == FALSE
MaxAttempts == 2

-----------------------------------------------------------------------------
(* Camera movements.                                                        *)

NoCamera == [type |-> "none", horizontal |-> 0, vertical |-> 0, zoom |-> 0]

Clamped(v) == IF v > 10 THEN 10 ELSE IF v < -10 THEN -10 ELSE v
\* mutant: the axis keeps its sign
SizeSigned(v) == Clamped(v)
Size(v)    == IF Clamped(v) < 0 THEN -Clamped(v) ELSE Clamped(v)
\* "x or y": the default is used for an axis that is missing or zero
OrDefault(v) == IF v = 0 THEN 5 ELSE v

\* What the storyboard's camera becomes in the clip: only the legacy names
\* pass, three axes are kept, each an integer between -10 and 10.
StoryboardCamera(c) ==
  IF c.type \notin LegacyTypes THEN NoCamera
  ELSE [type |-> c.type, horizontal |-> Clamped(c.horizontal),
        vertical |-> Clamped(c.vertical), zoom |-> Clamped(c.zoom)]

Simple(h, v, z) == [type |-> "simple", horizontal |-> h, vertical |-> v, zoom |-> z]

\* The six-axis form the provider takes; NoCamera is a payload without one.
ProviderCamera(c) ==
  CASE c.type = "push_in"   -> Simple(0, 0, Size(c.zoom))
    [] c.type = "pull_out"  -> Simple(0, 0, -Size(c.zoom))
    [] c.type = "pan_left"  -> Simple(-Size(OrDefault(c.horizontal)), 0, 0)
    [] c.type = "pan_right" -> Simple(Size(OrDefault(c.horizontal)), 0, 0)
    [] c.type = "tilt_up"   -> Simple(0, Size(OrDefault(c.vertical)), 0)
    [] c.type = "tilt_down" -> Simple(0, -Size(OrDefault(c.vertical)), 0)
    [] c.type = "orbit"     -> Simple(Size(c.zoom), 0, 0)
    [] OTHER                -> NoCamera

-----------------------------------------------------------------------------
(* What the inspectors say of a picture.                                    *)

BlockingTypes == {"readable_text", "random_letters", "logo", "watermark",
                  "subtitle", "chart_label", "fake_ui_label"}
SingleFrameTypes == {"readable_text", "logo", "watermark", "subtitle"}

Report == [claimed : BOOLEAN, confidence : {0, 82, 95}, type : STRING, evidence : BOOLEAN]

HasArtifacts(r) ==
  r.claimed /\ r.confidence >= 82 /\ r.type \in BlockingTypes /\ r.evidence

\* The reports an inspection may give: a clean picture or no inspector, a
\* doubtful finding, letters, and a logo.
Reports == {[claimed |-> FALSE, confidence |-> 0,  type |-> "none", evidence |-> FALSE],
            [claimed |-> TRUE,  confidence |-> 82, type |-> "random_letters", evidence |-> TRUE],
            [claimed |-> TRUE,  confidence |-> 95, type |-> "logo", evidence |-> TRUE]}

\* A clip is reported for one frame with a telling artifact, or for two.
VideoReported(rs) ==
  LET bad == {i \in DOMAIN rs : HasArtifacts(rs[i])}
  IN  (\E i \in bad : rs[i].type \in SingleFrameTypes) \/ Cardinality(bad) >= 2

-----------------------------------------------------------------------------
VARIABLES
  pc,        \* what the call in progress does next
  clip,      \* the clip being made
  prompt,    \* its prompt in the storyboard
  notes,     \* the changes its reviewer asked for
  anchors,   \* what later clips take from the first
  frame,     \* the picture its video starts from: a clip number (that clip's
             \* last frame), 0 for a picture of its own, -1 before there is one
  asked,     \* the camera movement the storyboard asks for
  camera,    \* camera_control of its payload
  modes,     \* image_reference values still to be tried
  wait,      \* of the task waited for: time until the next question, and in all
  tries,     \* attempts at a picture and at a video
  score,     \* clip_score of the picture: "none", "low" or "good"
  paid,      \* tasks the provider accepted for this clip
  clipModel, \* whether the scoring model is in memory
  tail,      \* prev_tail_frame: the clip whose last frame was kept, or 0
  made       \* for each clip done: the picture it started from, and its score

words == <<prompt, notes, anchors>>
call == <<words, frame, asked, camera, modes, wait, tries, score, paid>>
vars == <<pc, clip, call, clipModel, tail, made>>

NoWait == [delay |-> 0, waited |-> 0]
NoTries == [frame |-> 0, clip |-> 0]
NothingPaid == [picture |-> 0, video |-> 0]

Init ==
  /\ pc = "next" /\ clip = 0 /\ tail = 0 /\ made = <<>> /\ clipModel = FALSE
  /\ prompt = [body |-> <<>>, guard |-> "none"] /\ notes = <<>> /\ anchors \in Anchors
  /\ frame = -1 /\ asked = NoCamera /\ camera = NoCamera /\ modes = <<>> /\ wait = NoWait
  /\ tries = NoTries /\ score = "none" /\ paid = NothingPaid

Raise ==
  /\ pc' = "failed"
  /\ UNCHANGED <<clip, call, clipModel, tail, made>>

\* The clip's prompt in the review: sanitised, with the anchors unless it is
\* the first clip, and with the reviewer's notes.
Stored ==
  Extended(IF clip = 1 THEN Sanitized(prompt) ELSE Anchored(Sanitized(prompt), anchors), notes)

Modes == IF HasReference THEN <<"subject", "face">> ELSE <<"none">>

\* generate_clip sanitises it again, for the picture with what the style adds.
\* A second attempt asks more firmly for a picture without text.
Firmly(p, again) == IF again THEN Stronger(p) ELSE p
VideoPrompt   == Firmly(FitVisualPrompt(Sanitized(Stored)), tries.clip > 0)
PicturePrompt ==
  Firmly(Firmly(FitVisualPrompt(Sanitized(Extended(Stored, StyleSuffix))), tries.clip > 0),
         tries.frame > 0)

\* _start_or_resume_visual_clip_review calls generate_clip for the next one: a
\* clip whose predecessor's last frame was kept starts from that frame,
\* another one needs a picture of its own.
StartClip ==
  /\ pc = "next" /\ clip < Clips
  /\ pc' = IF tail = 0 THEN "picture" ELSE "submit"
  /\ frame' = IF tail = 0 THEN -1 ELSE tail
  /\ clip' = clip + 1
  /\ prompt' \in Prompts /\ notes' \in Notes
  /\ \E c \in Cameras :
       /\ asked' = c
       /\ camera' = IF HasCamera THEN ProviderCamera(StoryboardCamera(c)) ELSE NoCamera
  /\ modes' = Modes /\ wait' = NoWait /\ tries' = NoTries
  /\ score' = "none" /\ paid' = NothingPaid
  /\ UNCHANGED <<anchors, clipModel, tail, made>>

-----------------------------------------------------------------------------
(* The provider.                                                            *)

\* Times of a poll: the first delay, how it grows, its ceiling, the limit.
PicturePoll == [first |-> 3000, num |-> 3,  den |-> 2,  cap |-> 15000, limit |-> 180000]
VideoPoll   == [first |-> 5000, num |-> 13, den |-> 10, cap |-> 20000, limit |-> 600000]

StartWait(poll) == [delay |-> poll.first, waited |-> 0]
\* mutant: the delay has no ceiling
LongerUncapped(poll, d) == (d * poll.num) \div poll.den
Longer(poll, d) == LET grown == (d * poll.num) \div poll.den
                   IN  IF grown > poll.cap THEN poll.cap ELSE grown

\* generate_image asks for a picture with the reference as a subject; when
\* the provider does not know that value, as a face.
SubmitPicture ==
  /\ pc = "picture"
  /\ \/ /\ pc' = "pollPicture" /\ wait' = StartWait(PicturePoll)
        /\ paid' = [paid EXCEPT !.picture = @ + 1]
        /\ UNCHANGED <<clip, words, frame, asked, camera, modes, tries, score, clipModel, tail, made>>
     \/ /\ Head(modes) = "subject" /\ modes' = Tail(modes)
        /\ UNCHANGED <<pc, clip, words, frame, asked, camera, wait, tries, score, paid,
                       clipModel, tail, made>>
     \/ Raise

\* One question about the task.  The answer may be that it is done, that it
\* failed (or cannot be read), or that it goes on.
Waiting(poll) == wait' = [delay |-> Longer(poll, wait.delay), waited |-> wait.waited + wait.delay]

PollPicture ==
  /\ pc = "pollPicture"
  /\ IF wait.waited >= PicturePoll.limit THEN Raise
     ELSE \/ /\ pc' = "score" /\ frame' = 0 /\ wait' = NoWait /\ modes' = <<>>
             /\ UNCHANGED <<clip, words, asked, camera, tries, score, paid,
                            clipModel, tail, made>>
          \/ Raise
          \/ /\ Waiting(PicturePoll)
             /\ UNCHANGED <<pc, clip, words, frame, asked, camera, modes, tries, score, paid,
                            clipModel, tail, made>>

\* The scoring model is loaded on first use and tried again on the next
\* picture when that fails; without a score the picture passes.
ScorePicture ==
  /\ pc = "score" /\ pc' = "inspect"
  /\ clipModel' \in {clipModel, TRUE}
  /\ score' \in IF clipModel' THEN {"none", "low", "good"} ELSE {"none"}
  /\ UNCHANGED <<clip, words, frame, asked, camera, modes, wait, tries, paid, tail, made>>

Passed == score # "low"

\* What is found in the picture leads to another one only if the guard blocks.
InspectPicture ==
  /\ pc = "inspect"
  /\ \E r \in Reports :
       IF HasArtifacts(r) /\ Blocking /\ tries.frame + 1 < MaxAttempts
       THEN pc' = "picture" /\ modes' = Modes /\ tries' = [tries EXCEPT !.frame = @ + 1]
       ELSE pc' = "submit" /\ UNCHANGED <<modes, tries>>
  /\ UNCHANGED <<clip, words, frame, asked, camera, wait, score, paid, clipModel, tail, made>>

\* image_to_video: a payload with a camera the model refuses (1201) is sent
\* once more without it.
SubmitVideo ==
  /\ pc = "submit"
  /\ \/ /\ pc' = "pollVideo" /\ wait' = StartWait(VideoPoll)
        /\ paid' = [paid EXCEPT !.video = @ + 1]
        /\ UNCHANGED <<clip, words, frame, asked, camera, modes, tries, score, clipModel, tail, made>>
     \/ /\ camera # NoCamera /\ camera' = NoCamera
        /\ UNCHANGED <<pc, clip, words, frame, asked, modes, wait, tries, score, paid,
                       clipModel, tail, made>>
     \/ Raise

PollVideo ==
  /\ pc = "pollVideo"
  /\ IF wait.waited >= VideoPoll.limit THEN Raise
     ELSE \/ /\ pc' = "watch" /\ wait' = NoWait
             /\ UNCHANGED <<clip, words, frame, asked, camera, modes, tries, score, paid,
                            clipModel, tail, made>>
          \/ Raise
          \/ /\ Waiting(VideoPoll)
             /\ UNCHANGED <<pc, clip, words, frame, asked, camera, modes, tries, score, paid,
                            clipModel, tail, made>>

-----------------------------------------------------------------------------
(* The finished clip.                                                       *)

\* The reports on the frames of a clip: none, one or two findings.
FrameReports == {<<>>} \cup {<<r>> : r \in Reports} \cup {<<r, q>> : r \in Reports, q \in Reports}

\* mutant: one too many
MoreClipsOffByOne == clip <= Clips
\* Only a clip that another one follows has its last frame kept, once the user
\* has said to go on.
MoreClips == clip < Clips

\* Frames are cut from the video and looked at; a video whose frames cannot
\* be cut is lost.  A finding repeats the clip only if the guard blocks.
WatchVideo ==
  /\ pc = "watch"
  /\ \/ Raise
     \/ \E rs \in FrameReports :
          IF VideoReported(rs) /\ Blocking
          THEN IF tries.clip + 1 < MaxAttempts
               THEN /\ pc' = "picture" /\ modes' = Modes
                    /\ tries' = [frame |-> 0, clip |-> tries.clip + 1]
                    /\ UNCHANGED <<clip, words, frame, asked, camera, wait, score, paid,
                                   clipModel, tail, made>>
               ELSE Raise
          ELSE /\ pc' = IF MoreClips THEN "tail" ELSE "done"
               /\ made' = Append(made, [frame |-> frame, score |-> score])
               /\ UNCHANGED <<clip, call, clipModel, tail>>

\* What one ffmpeg call leaves behind: a frame, nothing, an error, or an error
\* after something was written.
Extraction == {"frame", "nothing", "error", "torn"}

\* extract_last_frame tries three ways; a call that ends well is believed if
\* there is a file, whoever wrote it.
FrameKept(o) == \E i \in 1..3 : \/ o[i] = "frame"
                                \/ o[i] = "nothing" /\ \E j \in 1..(i - 1) : o[j] = "torn"

\* mutant: an earlier clip's frame stays when this one's cannot be had
KeepTailStale ==
  /\ pc = "tail" /\ pc' = "next"
  /\ \E o \in [1..3 -> Extraction] : tail' = IF FrameKept(o) THEN clip ELSE tail
  /\ UNCHANGED <<clip, call, clipModel, made>>
KeepTail ==
  /\ pc = "tail" /\ pc' = "next"
  /\ \E o \in [1..3 -> Extraction] : tail' = IF FrameKept(o) THEN clip ELSE 0
  /\ UNCHANGED <<clip, call, clipModel, made>>

Next ==
  \/ StartClip
  \/ SubmitPicture
  \/ PollPicture
  \/ ScorePicture
  \/ InspectPicture
  \/ SubmitVideo
  \/ PollVideo
  \/ WatchVideo
  \/ KeepTail

Spec     == Init /\ [][Next]_vars
\* Every question to the provider has an answer or an error within its time.
FairSpec == Spec /\ WF_vars(Next)

-----------------------------------------------------------------------------
TypeOK ==
  /\ pc \in {"next", "picture", "pollPicture", "score", "inspect", "submit",
             "pollVideo", "watch", "tail", "done", "failed"}
  /\ clip \in 0..Clips /\ tail \in 0..Clips /\ frame \in -1..Clips
  /\ camera \in Camera /\ asked \in Camera
  /\ modes \in {<<>>, <<"none">>, <<"subject", "face">>, <<"face">>}
  /\ wait \in [delay : 0..VideoPoll.cap, waited : 0..VideoPoll.limit + VideoPoll.cap]
  /\ tries \in [frame : 0..1, clip : 0..1]
  /\ score \in {"none", "low", "good"}
  /\ paid \in [picture : Nat, video : Nat]
  /\ clipModel \in BOOLEAN
  /\ Len(made) <= clip
  /\ \A k \in DOMAIN made : made[k] \in [frame : 0..Clips, score : {"none", "low", "good"}]

\* The provider is paid at most one picture and one video for a call, however
\* often a reference mode or a camera is refused and whatever the inspectors
\* find (the loops of generate_clip, generate_image and image_to_video).
PaidOnce == paid.picture <= 1 /\ paid.video <= 1

\* Continuity: a clip whose predecessor's last frame was kept starts from that
\* very frame, no picture is paid for it and it carries no score; and a clip
\* with a picture of its own follows a clip whose frame could not be kept.
ChainKept ==
  /\ pc \in {"submit", "pollVideo", "watch"} =>
       IF tail = 0 THEN frame = 0
       ELSE frame = tail /\ tail = clip - 1 /\ paid.picture = 0 /\ score = "none"
  /\ \A k \in DOMAIN made : made[k].frame \in {0, k - 1}

\* The movement that reaches the provider is never opposite to the one named
\* in the storyboard, whatever its numbers, and never beyond the six-axis form.
CameraAsDirected ==
  LET c == camera
      t == asked.type
  IN  /\ \A v \in {c.horizontal, c.vertical, c.zoom} : v \in -10..10
      /\ (c.zoom < 0 => t = "pull_out") /\ (c.zoom > 0 => t = "push_in")
      /\ (c.horizontal < 0 => t = "pan_left") /\ (c.horizontal > 0 => t \in {"pan_right", "orbit"})
      /\ (c.vertical < 0 => t = "tilt_down") /\ (c.vertical > 0 => t = "tilt_up")
      /\ (t \in {"pan_left", "pan_right"} /\ c # NoCamera => c.horizontal # 0)

\* Words that the sanitiser takes for a guard, wherever they come from.
SaysTextFree ==
  \/ \E s \in {prompt.body, notes, anchors.scene, StyleSuffix} : \E i \in DOMAIN s : s[i].textFree
  \/ \E c \in DOMAIN anchors.cast : anchors.cast[c].textFree

\* What the clip's prompts are to begin with.
Beginning ==
  IF clip > 1 /\ anchors.scene # <<>> THEN anchors.scene[1].text ELSE prompt.body[1].text

\* However long the storyboard's prompt and whatever the anchors, the style and
\* the reviewer added to it, what is submitted fits the provider's limit and
\* begins with the scene that the first clip set, or with the storyboard's
\* first segment where there is none; and it forbids text at its end unless its
\* own words were taken for the guard.
PromptFits ==
  pc \in {"picture", "submit"} =>
    \A p \in {PicturePrompt, VideoPrompt} :
      /\ PromptLen(p) <= MaxLen
      /\ p.body[1].text = Beginning
      /\ p.guard = "none" => SaysTextFree

\* Waiting is bounded: every sequence ends, with its clips or with an error.
SequenceEnds == <>(pc \in {"done", "failed"})
=============================================================================
