-------------------------- MODULE ClipMakingProofs --------------------------
(* That the variables of the clip maker keep their types, that the provider is paid once   *)
(* for a picture and once for a video, that the chain of last frames is kept, that the      *)
(* camera moves as the storyboard says, and that every prompt submitted fits the limit and  *)
(* still begins and ends as it should, for any number of clips, cameras and prompts.        *)
EXTENDS ClipMaking, DataProofs, SequenceTheorems

---------------------------------------------------------------------------
(* Where a call is, and what is known of it there.                         *)

Making  == {"picture", "pollPicture", "score", "inspect", "submit", "pollVideo", "watch"}
Between == {"next", "tail", "done"}
Scores  == {"none", "low", "good"}

BaseInv ==
  /\ pc \in Making \cup Between \cup {"failed"}
  /\ clip \in 0..Clips /\ tail \in 0..Clips /\ frame \in -1..Clips
  /\ modes \in {<<>>, <<"none">>, <<"subject", "face">>, <<"face">>}
  /\ tries = NoTries /\ score \in Scores /\ paid \in [picture : Nat, video : Nat]
  /\ clipModel \in BOOLEAN
  /\ made \in Seq([frame : 0..Clips, score : Scores])

Waits == [delay : 0..VideoPoll.cap, waited : 0..VideoPoll.limit + VideoPoll.cap]

\* How long a question may be put off depends on what is waited for.
WaitInv ==
  /\ wait \in Waits
  /\ pc = "pollPicture" => wait.delay <= PicturePoll.cap

\* The tail is that of the clip before; a clip that has none gets a picture, and a task is
\* paid when it is accepted and not again, since nothing leads back to a submission.
ChainInv ==
  /\ pc = "next" => tail \in {0, clip}
  /\ pc \in Making => clip >= 1 /\ tail \in {0, clip - 1}
  /\ pc \in {"picture", "pollPicture", "score", "inspect"} => tail = 0
  /\ pc = "picture" => modes # <<>> /\ paid.picture = 0
  /\ pc \in {"picture", "pollPicture", "score", "inspect", "submit"} => paid.video = 0
  /\ pc \in {"score", "inspect"} => frame = 0
  /\ pc \in {"submit", "pollVideo", "watch"} =>
       IF tail = 0 THEN frame = 0 ELSE frame = tail /\ paid.picture = 0 /\ score = "none"
  /\ paid.picture <= 1 /\ paid.video <= 1

\* One entry for each clip done.
MadeInv ==
  /\ pc \in Between => Len(made) = clip
  /\ pc \in Making => Len(made) = clip - 1
  /\ pc = "failed" => Len(made) <= clip
  /\ \A k \in DOMAIN made : made[k].frame \in {0, k - 1}

CameraInv ==
  /\ asked \in Camera
  /\ camera \in {NoCamera, ProviderCamera(StoryboardCamera(asked))}

ClipsInv == BaseInv /\ WaitInv /\ ChainInv /\ MadeInv /\ CameraInv

---------------------------------------------------------------------------
(* Camera movements.                                                       *)

\* What CameraAsDirected says of a movement c and the name t it was asked for by.
Directed(c, t) ==
  /\ \A v \in {c.horizontal, c.vertical, c.zoom} : v \in -10..10
  /\ (c.zoom < 0 => t = "pull_out") /\ (c.zoom > 0 => t = "push_in")
  /\ (c.horizontal < 0 => t = "pan_left") /\ (c.horizontal > 0 => t \in {"pan_right", "orbit"})
  /\ (c.vertical < 0 => t = "tilt_down") /\ (c.vertical > 0 => t = "tilt_up")
  /\ (t \in {"pan_left", "pan_right"} /\ c # NoCamera => c.horizontal # 0)

\* An axis ends within the six-axis form, and only one that was zero ends as zero.
LEMMA Axis ==
  ASSUME NEW v \in Int
  PROVE  /\ Clamped(v) \in -10..10 /\ Size(v) \in 0..10
         /\ Size(OrDefault(v)) \in 1..10
<1>1. ASSUME NEW w \in Int
      PROVE  Clamped(w) \in -10..10 /\ Size(w) \in 0..10 /\ (w # 0 => Size(w) # 0)
  <2> DEFINE x == Clamped(w)
  <2>1. x \in -10..10 /\ (w # 0 => x # 0)
    BY <1>1 DEF Clamped
  <2>2. Size(w) = IF x < 0 THEN -x ELSE x
    BY DEF Size
  <2> HIDE DEF x
  <2>3. Size(w) \in 0..10 /\ (w # 0 => Size(w) # 0)
    BY <2>1, <2>2
  <2> QED
    BY <2>1, <2>3 DEF x
<1>2. OrDefault(v) \in Int /\ OrDefault(v) # 0
  BY DEF OrDefault
<1>3. Size(OrDefault(v)) \in 0..10 /\ Size(OrDefault(v)) # 0
  BY <1>1, <1>2
<1> QED
  BY <1>1, <1>3

LEMMA NoCameraType ==
  NoCamera \in Camera /\ \A t : Directed(NoCamera, t)
<1>1. NoCamera \in Camera
  BY DEF NoCamera, Camera, LegacyTypes
<1>2. NoCamera.horizontal = 0 /\ NoCamera.vertical = 0 /\ NoCamera.zoom = 0
  BY DEF NoCamera
<1>3. ASSUME NEW t PROVE Directed(NoCamera, t)
  BY <1>2 DEF Directed
<1> QED
  BY <1>1, <1>3

LEMMA SimpleType ==
  ASSUME NEW h \in Int, NEW v \in Int, NEW z \in Int
  PROVE  /\ Simple(h, v, z) \in Camera /\ Simple(h, v, z) # NoCamera
         /\ Simple(h, v, z).horizontal = h /\ Simple(h, v, z).vertical = v
         /\ Simple(h, v, z).zoom = z
BY DEF Simple, Camera, NoCamera

LEMMA Zooms ==
  ASSUME NEW z \in 0..10
  PROVE  /\ Simple(0, 0, z) \in Camera /\ Directed(Simple(0, 0, z), "push_in")
         /\ Simple(0, 0, -z) \in Camera /\ Directed(Simple(0, 0, -z), "pull_out")
         /\ Simple(z, 0, 0) \in Camera /\ Directed(Simple(z, 0, 0), "orbit")
<1>1. Simple(0, 0, z) \in Camera /\ Directed(Simple(0, 0, z), "push_in")
  <2> DEFINE p == Simple(0, 0, z)
  <2>1. p \in Camera /\ p.horizontal = 0 /\ p.vertical = 0 /\ p.zoom = z
    BY SimpleType
  <2> HIDE DEF p
  <2>2. Directed(p, "push_in")
    BY <2>1 DEF Directed
  <2> QED
    BY <2>1, <2>2 DEF p
<1>2. Simple(0, 0, -z) \in Camera /\ Directed(Simple(0, 0, -z), "pull_out")
  <2> DEFINE p == Simple(0, 0, -z)
  <2>1. p \in Camera /\ p.horizontal = 0 /\ p.vertical = 0 /\ p.zoom = -z
    BY SimpleType
  <2> HIDE DEF p
  <2>2. Directed(p, "pull_out")
    BY <2>1 DEF Directed
  <2> QED
    BY <2>1, <2>2 DEF p
<1>3. Simple(z, 0, 0) \in Camera /\ Directed(Simple(z, 0, 0), "orbit")
  <2> DEFINE p == Simple(z, 0, 0)
  <2>1. p \in Camera /\ p.horizontal = z /\ p.vertical = 0 /\ p.zoom = 0
    BY SimpleType
  <2> HIDE DEF p
  <2>2. Directed(p, "orbit")
    BY <2>1 DEF Directed
  <2> QED
    BY <2>1, <2>2 DEF p
<1> QED
  BY <1>1, <1>2, <1>3

LEMMA Pans ==
  ASSUME NEW h \in 1..10
  PROVE  /\ Simple(-h, 0, 0) \in Camera /\ Directed(Simple(-h, 0, 0), "pan_left")
         /\ Simple(h, 0, 0) \in Camera /\ Directed(Simple(h, 0, 0), "pan_right")
<1>1. Simple(-h, 0, 0) \in Camera /\ Directed(Simple(-h, 0, 0), "pan_left")
  <2> DEFINE p == Simple(-h, 0, 0)
  <2>1. p \in Camera /\ p.horizontal = -h /\ p.vertical = 0 /\ p.zoom = 0
    BY SimpleType
  <2> HIDE DEF p
  <2>2. Directed(p, "pan_left")
    BY <2>1 DEF Directed
  <2> QED
    BY <2>1, <2>2 DEF p
<1>2. Simple(h, 0, 0) \in Camera /\ Directed(Simple(h, 0, 0), "pan_right")
  <2> DEFINE p == Simple(h, 0, 0)
  <2>1. p \in Camera /\ p.horizontal = h /\ p.vertical = 0 /\ p.zoom = 0
    BY SimpleType
  <2> HIDE DEF p
  <2>2. Directed(p, "pan_right")
    BY <2>1 DEF Directed
  <2> QED
    BY <2>1, <2>2 DEF p
<1> QED
  BY <1>1, <1>2

LEMMA Tilts ==
  ASSUME NEW v \in 1..10
  PROVE  /\ Simple(0, v, 0) \in Camera /\ Directed(Simple(0, v, 0), "tilt_up")
         /\ Simple(0, -v, 0) \in Camera /\ Directed(Simple(0, -v, 0), "tilt_down")
<1>1. Simple(0, v, 0) \in Camera /\ Directed(Simple(0, v, 0), "tilt_up")
  <2> DEFINE p == Simple(0, v, 0)
  <2>1. p \in Camera /\ p.horizontal = 0 /\ p.vertical = v /\ p.zoom = 0
    BY SimpleType
  <2> HIDE DEF p
  <2>2. Directed(p, "tilt_up")
    BY <2>1 DEF Directed
  <2> QED
    BY <2>1, <2>2 DEF p
<1>2. Simple(0, -v, 0) \in Camera /\ Directed(Simple(0, -v, 0), "tilt_down")
  <2> DEFINE p == Simple(0, -v, 0)
  <2>1. p \in Camera /\ p.horizontal = 0 /\ p.vertical = -v /\ p.zoom = 0
    BY SimpleType
  <2> HIDE DEF p
  <2>2. Directed(p, "tilt_down")
    BY <2>1 DEF Directed
  <2> QED
    BY <2>1, <2>2 DEF p
<1> QED
  BY <1>1, <1>2

\* The movement that reaches the provider, by the name the storyboard has for it.
LEMMA CameraDirected ==
  ASSUME NEW c \in Camera
  PROVE  /\ ProviderCamera(StoryboardCamera(c)) \in Camera
         /\ Directed(ProviderCamera(StoryboardCamera(c)), c.type)
<1> DEFINE s == StoryboardCamera(c)
           p == ProviderCamera(s)
<1>1. c.type \in LegacyTypes \cup {"none", "simple", "other"}
      /\ c.horizontal \in Int /\ c.vertical \in Int /\ c.zoom \in Int
  BY DEF Camera
<1>2. CASE c.type \notin LegacyTypes
  <2>1. s = NoCamera
    BY <1>2 DEF StoryboardCamera
  <2>2. p = NoCamera
    BY <2>1 DEF ProviderCamera, NoCamera
  <2> QED
    BY <2>2, NoCameraType
<1>3. CASE c.type \in LegacyTypes
  <2>1. /\ s.type = c.type /\ s.horizontal \in -10..10 /\ s.vertical \in -10..10
        /\ s.zoom \in -10..10
    BY <1>1, <1>3, Axis DEF StoryboardCamera
  <2> DEFINE h == Size(OrDefault(s.horizontal))
             v == Size(OrDefault(s.vertical))
             z == Size(s.zoom)
  <2>2. h \in 1..10 /\ v \in 1..10 /\ z \in 0..10
    BY <2>1, Axis
  <2>3. /\ c.type = "push_in"   => p = Simple(0, 0, z)
        /\ c.type = "pull_out"  => p = Simple(0, 0, -z)
        /\ c.type = "pan_left"  => p = Simple(-h, 0, 0)
        /\ c.type = "pan_right" => p = Simple(h, 0, 0)
        /\ c.type = "tilt_up"   => p = Simple(0, v, 0)
        /\ c.type = "tilt_down" => p = Simple(0, -v, 0)
        /\ c.type = "orbit"     => p = Simple(z, 0, 0)
        /\ c.type = "static"    => p = NoCamera
    <3> HIDE DEF s
    <3> QED
      BY <2>1 DEF ProviderCamera
  <2>4. CASE c.type = "static"
    BY <2>3, <2>4, NoCameraType
  <2>5. CASE c.type # "static"
    <3> HIDE DEF p, h, v, z
    <3>2. Simple(0, 0, z) \in Camera /\ Directed(Simple(0, 0, z), "push_in")
      BY <2>2, Zooms
    <3>3. Simple(0, 0, -z) \in Camera /\ Directed(Simple(0, 0, -z), "pull_out")
      BY <2>2, Zooms
    <3>4. Simple(-h, 0, 0) \in Camera /\ Directed(Simple(-h, 0, 0), "pan_left")
      BY <2>2, Pans
    <3>5. Simple(h, 0, 0) \in Camera /\ Directed(Simple(h, 0, 0), "pan_right")
      BY <2>2, Pans
    <3>6. Simple(0, v, 0) \in Camera /\ Directed(Simple(0, v, 0), "tilt_up")
      BY <2>2, Tilts
    <3>7. Simple(0, -v, 0) \in Camera /\ Directed(Simple(0, -v, 0), "tilt_down")
      BY <2>2, Tilts
    <3>8. Simple(z, 0, 0) \in Camera /\ Directed(Simple(z, 0, 0), "orbit")
      BY <2>2, Zooms
    <3>9. p \in Camera /\ Directed(p, c.type)
      <4>1. CASE c.type = "push_in"
        BY <2>3, <3>2, <4>1
      <4>2. CASE c.type = "pull_out"
        BY <2>3, <3>3, <4>2
      <4>3. CASE c.type = "pan_left"
        BY <2>3, <3>4, <4>3
      <4>4. CASE c.type = "pan_right"
        BY <2>3, <3>5, <4>4
      <4>5. CASE c.type = "tilt_up"
        BY <2>3, <3>6, <4>5
      <4>6. CASE c.type = "tilt_down"
        BY <2>3, <3>7, <4>6
      <4>7. CASE c.type = "orbit"
        BY <2>3, <3>8, <4>7
      <4> QED
        BY <1>3, <2>5, <4>1, <4>2, <4>3, <4>4, <4>5, <4>6, <4>7 DEF LegacyTypes
    <3> QED
      BY <3>9 DEF p
  <2> QED
    BY <2>4, <2>5
<1> QED
  BY <1>2, <1>3

---------------------------------------------------------------------------
(* The steps of a clip.                                                    *)

\* The limits of the two polls, as the proofs use them.
LEMMA Polls ==
  /\ PicturePoll.first \in Nat /\ PicturePoll.cap \in Nat /\ PicturePoll.limit \in Nat
  /\ VideoPoll.first \in Nat /\ VideoPoll.cap \in Nat /\ VideoPoll.limit \in Nat
  /\ PicturePoll.first <= PicturePoll.cap /\ PicturePoll.cap <= VideoPoll.cap
  /\ VideoPoll.first <= VideoPoll.cap /\ PicturePoll.limit <= VideoPoll.limit
BY DEF PicturePoll, VideoPoll

\* Waiting between two questions grows to its ceiling and not beyond.
LEMMA LongerBound ==
  ASSUME NEW d \in Nat
  PROVE  /\ Longer(PicturePoll, d) \in 0..PicturePoll.cap
         /\ Longer(VideoPoll, d) \in 0..VideoPoll.cap
<1>1. (d * 3) \div 2 \in Nat /\ (d * 13) \div 10 \in Nat
  OBVIOUS
<1>2. /\ PicturePoll.num = 3 /\ PicturePoll.den = 2
      /\ VideoPoll.num = 13 /\ VideoPoll.den = 10
  BY DEF PicturePoll, VideoPoll
<1>3. ASSUME NEW g \in Nat, NEW m \in Nat
      PROVE  (IF g > m THEN m ELSE g) \in 0..m
  OBVIOUS
<1>4. /\ Longer(PicturePoll, d) =
           IF (d * 3) \div 2 > PicturePoll.cap THEN PicturePoll.cap ELSE (d * 3) \div 2
      /\ Longer(VideoPoll, d) =
           IF (d * 13) \div 10 > VideoPoll.cap THEN VideoPoll.cap ELSE (d * 13) \div 10
  BY <1>2 DEF Longer
<1> QED
  BY <1>1, <1>3, <1>4, Polls

LEMMA NoClip ==
  /\ NoCamera \in Camera /\ NoWait \in Waits
  /\ NoWait.delay = 0
  /\ NothingPaid \in [picture : Nat, video : Nat]
  /\ NothingPaid.picture = 0 /\ NothingPaid.video = 0
  /\ Modes \in {<<>>, <<"none">>, <<"subject", "face">>, <<"face">>} /\ Modes # <<>>
<1>1. /\ NoWait \in Waits /\ NoWait.delay = 0
      /\ NothingPaid \in [picture : Nat, video : Nat]
      /\ NothingPaid.picture = 0 /\ NothingPaid.video = 0
  BY Polls DEF NoWait, NothingPaid, Waits
<1>2. Modes \in {<<>>, <<"none">>, <<"subject", "face">>, <<"face">>}
  BY DEF Modes
<1>3. Modes # <<>>
  BY DEF Modes
<1> QED
  BY <1>1, <1>2, <1>3, NoCameraType

LEMMA InitClips ==
  Init => ClipsInv
<1> SUFFICES ASSUME Init PROVE ClipsInv
  OBVIOUS
<1>1. BaseInv
  <2>1. made \in Seq([frame : 0..Clips, score : Scores])
    BY DEF Init
  <2>2. paid \in [picture : Nat, video : Nat]
    BY NoClip DEF Init
  <2>3. clip \in 0..Clips /\ tail \in 0..Clips /\ frame \in -1..Clips
    BY ClipsAssumption DEF Init
  <2>4. /\ pc = "next" /\ modes = <<>> /\ tries = NoTries /\ score = "none" /\ clipModel = FALSE
    BY DEF Init
  <2> QED
    BY <2>1, <2>2, <2>3, <2>4 DEF BaseInv, Between, Scores
<1>2. WaitInv
  BY NoClip DEF Init, WaitInv
<1>3. ChainInv
  BY NoClip DEF Init, ChainInv, Making
<1>4. MadeInv
  BY DEF Init, MadeInv, Making, Between
<1>5. CameraInv
  BY NoClip DEF Init, CameraInv
<1> QED
  BY <1>1, <1>2, <1>3, <1>4, <1>5 DEF ClipsInv

\* An error ends the sequence wherever it comes.
LEMMA RaiseClips ==
  ASSUME ClipsInv, Raise
  PROVE  ClipsInv'
<1> USE DEF ClipsInv, Raise, call
<1>1. BaseInv'
  BY DEF BaseInv
<1>2. WaitInv'
  BY DEF WaitInv
<1>3. ChainInv'
  BY DEF ChainInv, Making
<1>4. MadeInv'
  BY DEF MadeInv, BaseInv, Making, Between
<1>5. CameraInv'
  BY DEF CameraInv
<1> QED
  BY <1>1, <1>2, <1>3, <1>4, <1>5

LEMMA StartClipClips ==
  ASSUME ClipsInv, StartClip
  PROVE  ClipsInv'
<1>1. /\ pc = "next" /\ clip < Clips
      /\ pc' = IF tail = 0 THEN "picture" ELSE "submit"
      /\ frame' = IF tail = 0 THEN -1 ELSE tail
      /\ clip' = clip + 1
      /\ modes' = Modes /\ wait' = NoWait /\ tries' = NoTries
      /\ score' = "none" /\ paid' = NothingPaid
      /\ UNCHANGED <<clipModel, tail, made>>
  BY DEF StartClip
<1>2. PICK c \in Cameras :
        /\ asked' = c
        /\ camera' = IF HasCamera THEN ProviderCamera(StoryboardCamera(c)) ELSE NoCamera
  BY DEF StartClip
<1> USE DEF ClipsInv
<1>3. BaseInv'
  BY <1>1, NoClip, ClipsAssumption DEF BaseInv, Making, Between, Scores
<1>4. WaitInv'
  BY <1>1, NoClip DEF WaitInv
<1>5. ChainInv'
  BY <1>1, NoClip, ClipsAssumption DEF ChainInv, Making, BaseInv
<1>6. MadeInv'
  BY <1>1 DEF MadeInv, Making, Between, BaseInv
<1>7. CameraInv'
  BY <1>2, CamerasAssumption DEF CameraInv
<1> QED
  BY <1>3, <1>4, <1>5, <1>6, <1>7

LEMMA SubmitPictureClips ==
  ASSUME ClipsInv, SubmitPicture
  PROVE  ClipsInv'
<1> USE DEF ClipsInv
<1>1. CASE Raise
  BY <1>1, RaiseClips
<1>2. CASE /\ pc' = "pollPicture" /\ wait' = StartWait(PicturePoll)
           /\ paid' = [paid EXCEPT !.picture = @ + 1]
           /\ UNCHANGED <<clip, words, frame, asked, camera, modes, tries, score, clipModel, tail, made>>
  <2>1. pc = "picture"
    BY DEF SubmitPicture
  <2>2. /\ paid' \in [picture : Nat, video : Nat]
        /\ paid'.picture = paid.picture + 1 /\ paid'.video = paid.video
    BY <1>2 DEF BaseInv
  <2>3. wait' \in Waits /\ wait'.delay <= PicturePoll.cap
    BY <1>2, Polls DEF StartWait, Waits
  <2>4. BaseInv'
    BY <1>2, <2>2 DEF BaseInv, Making
  <2>5. WaitInv'
    BY <1>2, <2>3 DEF WaitInv
  <2>6. ChainInv'
    BY <1>2, <2>1, <2>2 DEF ChainInv, Making
  <2>7. MadeInv'
    BY <1>2, <2>1 DEF MadeInv, Making, Between
  <2>8. CameraInv'
    BY <1>2 DEF CameraInv
  <2> QED
    BY <2>4, <2>5, <2>6, <2>7, <2>8
<1>3. CASE /\ Head(modes) = "subject" /\ modes' = Tail(modes)
           /\ UNCHANGED <<pc, clip, words, frame, asked, camera, wait, tries, score, paid,
                          clipModel, tail, made>>
  <2>1. pc = "picture" /\ modes # <<>>
    BY DEF SubmitPicture, ChainInv
  <2>2. modes = <<"subject", "face">>
    <3>1. modes \in {<<"none">>, <<"subject", "face">>, <<"face">>}
      BY <2>1 DEF BaseInv
    <3>2. Head(<<"none">>) # "subject" /\ Head(<<"face">>) # "subject"
      OBVIOUS
    <3> QED
      BY <1>3, <3>1, <3>2
  <2>3. modes' = <<"face">>
    BY <1>3, <2>2
  <2>4. BaseInv'
    BY <1>3, <2>3 DEF BaseInv
  <2>5. WaitInv'
    BY <1>3 DEF WaitInv
  <2>6. ChainInv'
    <3>1. modes' # <<>>
      BY <2>3
    <3> QED
      BY <1>3, <3>1 DEF ChainInv
  <2>7. MadeInv'
    BY <1>3 DEF MadeInv
  <2>8. CameraInv'
    BY <1>3 DEF CameraInv
  <2> QED
    BY <2>4, <2>5, <2>6, <2>7, <2>8
<1> QED
  BY <1>1, <1>2, <1>3 DEF SubmitPicture

LEMMA PollPictureClips ==
  ASSUME ClipsInv, PollPicture
  PROVE  ClipsInv'
<1> USE DEF ClipsInv
<1>1. CASE Raise
  BY <1>1, RaiseClips
<1>2. CASE /\ pc' = "score" /\ frame' = 0 /\ wait' = NoWait /\ modes' = <<>>
           /\ UNCHANGED <<clip, words, asked, camera, tries, score, paid,
                          clipModel, tail, made>>
  <2>1. pc = "pollPicture"
    BY DEF PollPicture
  <2>2. BaseInv'
    BY <1>2, ClipsAssumption DEF BaseInv, Making
  <2>3. WaitInv'
    BY <1>2, NoClip DEF WaitInv
  <2>4. ChainInv'
    BY <1>2, <2>1 DEF ChainInv, Making
  <2>5. MadeInv'
    BY <1>2, <2>1 DEF MadeInv, Making, Between
  <2>6. CameraInv'
    BY <1>2 DEF CameraInv
  <2> QED
    BY <2>2, <2>3, <2>4, <2>5, <2>6
<1>3. CASE /\ wait.waited < PicturePoll.limit /\ Waiting(PicturePoll)
           /\ UNCHANGED <<pc, clip, words, frame, asked, camera, modes, tries, score, paid,
                          clipModel, tail, made>>
  <2>1. pc = "pollPicture"
    BY DEF PollPicture
  <2>2. wait.delay \in 0..PicturePoll.cap /\ wait.waited \in Nat
    BY <2>1, Polls DEF WaitInv, Waits
  <2>3. Longer(PicturePoll, wait.delay) \in 0..PicturePoll.cap
    BY <2>2, Polls, LongerBound
  <2>4. wait' \in Waits /\ wait'.delay <= PicturePoll.cap
    BY <1>3, <2>2, <2>3, Polls DEF Waiting, Waits
  <2>5. BaseInv'
    BY <1>3 DEF BaseInv
  <2>6. WaitInv'
    BY <2>4 DEF WaitInv
  <2>7. ChainInv'
    BY <1>3 DEF ChainInv
  <2>8. MadeInv'
    BY <1>3 DEF MadeInv
  <2>9. CameraInv'
    BY <1>3 DEF CameraInv
  <2> QED
    BY <2>5, <2>6, <2>7, <2>8, <2>9
<1>4. wait.waited \in Int /\ PicturePoll.limit \in Int
  BY Polls DEF WaitInv, Waits
<1> QED
  BY <1>1, <1>2, <1>3, <1>4 DEF PollPicture

LEMMA ScorePictureClips ==
  ASSUME ClipsInv, ScorePicture
  PROVE  ClipsInv'
<1> USE DEF ClipsInv, ScorePicture
<1>1. score' \in Scores /\ clipModel' \in BOOLEAN
  BY DEF Scores, BaseInv
<1>2. BaseInv'
  BY <1>1 DEF BaseInv, Making
<1>3. WaitInv'
  BY DEF WaitInv
<1>4. ChainInv'
  BY DEF ChainInv, Making
<1>5. MadeInv'
  BY DEF MadeInv, Making, Between
<1>6. CameraInv'
  BY DEF CameraInv
<1> QED
  BY <1>2, <1>3, <1>4, <1>5, <1>6

LEMMA InspectPictureClips ==
  ASSUME ClipsInv, InspectPicture
  PROVE  ClipsInv'
<1> USE DEF ClipsInv
<1>1. /\ pc = "inspect" /\ pc' = "submit" /\ UNCHANGED <<modes, tries>>
      /\ UNCHANGED <<clip, words, frame, asked, camera, wait, score, paid, clipModel, tail, made>>
  BY DEF InspectPicture, Blocking
<1>2. BaseInv'
  BY <1>1 DEF BaseInv, Making
<1>3. WaitInv'
  BY <1>1 DEF WaitInv
<1>4. ChainInv'
  BY <1>1 DEF ChainInv, Making
<1>5. MadeInv'
  BY <1>1 DEF MadeInv, Making, Between
<1>6. CameraInv'
  BY <1>1 DEF CameraInv
<1> QED
  BY <1>2, <1>3, <1>4, <1>5, <1>6

LEMMA SubmitVideoClips ==
  ASSUME ClipsInv, SubmitVideo
  PROVE  ClipsInv'
<1> USE DEF ClipsInv
<1>0. pc = "submit"
  BY DEF SubmitVideo
<1>1. CASE Raise
  BY <1>1, RaiseClips
<1>2. CASE /\ pc' = "pollVideo" /\ wait' = StartWait(VideoPoll)
           /\ paid' = [paid EXCEPT !.video = @ + 1]
           /\ UNCHANGED <<clip, words, frame, asked, camera, modes, tries, score, clipModel, tail, made>>
  <2>1. /\ paid' \in [picture : Nat, video : Nat]
        /\ paid'.video = paid.video + 1 /\ paid'.picture = paid.picture
    BY <1>2 DEF BaseInv
  <2>2. wait' \in Waits
    BY <1>2, Polls DEF StartWait, Waits
  <2>3. BaseInv'
    BY <1>2, <2>1 DEF BaseInv, Making
  <2>4. WaitInv'
    BY <1>2, <2>2 DEF WaitInv
  <2>5. ChainInv'
    BY <1>0, <1>2, <2>1 DEF ChainInv, Making
  <2>6. MadeInv'
    BY <1>0, <1>2 DEF MadeInv, Making, Between
  <2>7. CameraInv'
    BY <1>2 DEF CameraInv
  <2> QED
    BY <2>3, <2>4, <2>5, <2>6, <2>7
<1>3. CASE /\ camera # NoCamera /\ camera' = NoCamera
           /\ UNCHANGED <<pc, clip, words, frame, asked, modes, wait, tries, score, paid,
                          clipModel, tail, made>>
  <2>1. BaseInv'
    BY <1>3 DEF BaseInv
  <2>2. WaitInv'
    BY <1>3 DEF WaitInv
  <2>3. ChainInv'
    BY <1>3 DEF ChainInv
  <2>4. MadeInv'
    BY <1>3 DEF MadeInv
  <2>5. CameraInv'
    BY <1>3 DEF CameraInv
  <2> QED
    BY <2>1, <2>2, <2>3, <2>4, <2>5
<1> QED
  BY <1>1, <1>2, <1>3 DEF SubmitVideo

LEMMA PollVideoClips ==
  ASSUME ClipsInv, PollVideo
  PROVE  ClipsInv'
<1> USE DEF ClipsInv
<1>0. pc = "pollVideo"
  BY DEF PollVideo
<1>1. CASE Raise
  BY <1>1, RaiseClips
<1>2. CASE /\ pc' = "watch" /\ wait' = NoWait
           /\ UNCHANGED <<clip, words, frame, asked, camera, modes, tries, score, paid,
                          clipModel, tail, made>>
  <2>1. BaseInv'
    BY <1>2 DEF BaseInv, Making
  <2>2. WaitInv'
    BY <1>2, NoClip DEF WaitInv
  <2>3. ChainInv'
    BY <1>0, <1>2 DEF ChainInv, Making
  <2>4. MadeInv'
    BY <1>0, <1>2 DEF MadeInv, Making, Between
  <2>5. CameraInv'
    BY <1>2 DEF CameraInv
  <2> QED
    BY <2>1, <2>2, <2>3, <2>4, <2>5
<1>3. CASE /\ wait.waited < VideoPoll.limit /\ Waiting(VideoPoll)
           /\ UNCHANGED <<pc, clip, words, frame, asked, camera, modes, tries, score, paid,
                          clipModel, tail, made>>
  <2>1. wait.delay \in 0..VideoPoll.cap /\ wait.waited \in Nat
    BY Polls DEF WaitInv, Waits
  <2>2. Longer(VideoPoll, wait.delay) \in 0..VideoPoll.cap
    BY <2>1, Polls, LongerBound
  <2>3. wait' \in Waits
    BY <1>3, <2>1, <2>2, Polls DEF Waiting, Waits
  <2>4. BaseInv'
    BY <1>3 DEF BaseInv
  <2>5. WaitInv'
    BY <1>0, <1>3, <2>3 DEF WaitInv
  <2>6. ChainInv'
    BY <1>3 DEF ChainInv
  <2>7. MadeInv'
    BY <1>3 DEF MadeInv
  <2>8. CameraInv'
    BY <1>3 DEF CameraInv
  <2> QED
    BY <2>4, <2>5, <2>6, <2>7, <2>8
<1>4. wait.waited \in Int /\ VideoPoll.limit \in Int
  BY Polls DEF WaitInv, Waits
<1> QED
  BY <1>1, <1>2, <1>3, <1>4 DEF PollVideo

\* A clip that is done is entered with the picture it started from: none, or the last frame
\* of the clip before.
LEMMA WatchVideoClips ==
  ASSUME ClipsInv, WatchVideo
  PROVE  ClipsInv'
<1> USE DEF ClipsInv
<1>0. pc = "watch"
  BY DEF WatchVideo
<1>1. CASE Raise
  BY <1>1, RaiseClips
<1>2. CASE /\ pc' = IF MoreClips THEN "tail" ELSE "done"
           /\ made' = Append(made, [frame |-> frame, score |-> score])
           /\ UNCHANGED <<clip, call, clipModel, tail>>
  <2> DEFINE e == [frame |-> frame, score |-> score]
             E == [frame : 0..Clips, score : Scores]
  <2>1. pc' \in {"tail", "done"}
    BY <1>2
  <2>2. frame \in {0, clip - 1} /\ frame \in 0..Clips /\ score \in Scores
    BY <1>0, ClipsAssumption DEF ChainInv, Making, BaseInv
  <2>3. e \in E /\ e.frame = frame
    BY <2>2
  <2>4. made \in Seq(E) /\ Len(made) = clip - 1 /\ clip \in Nat
    BY <1>0, ClipsAssumption DEF BaseInv, MadeInv, Making
  <2> HIDE DEF e, E
  <2>5. made' = Append(made, e)
    BY <1>2 DEF e
  <2>6. made' \in Seq(E) /\ Len(made') = clip /\ DOMAIN made' = 1..clip
    BY <2>3, <2>4, <2>5
  <2>7. \A k \in DOMAIN made' : made'[k].frame \in {0, k - 1}
    <3> TAKE k \in DOMAIN made'
    <3>1. CASE k = clip
      <4>1. made'[k] = e
        BY <2>3, <2>4, <2>5, <3>1
      <4> QED
        BY <2>2, <2>3, <3>1, <4>1
    <3>2. CASE k # clip
      <4>1. k \in DOMAIN made /\ made'[k] = made[k]
        BY <2>3, <2>4, <2>5, <2>6, <3>2
      <4> QED
        BY <4>1 DEF MadeInv
    <3> QED
      BY <3>1, <3>2
  <2>8. BaseInv'
    BY <1>2, <2>1, <2>6 DEF BaseInv, Between, call, E
  <2>9. WaitInv'
    BY <1>2, <2>1 DEF WaitInv, call
  <2>10. ChainInv'
    BY <1>2, <2>1 DEF ChainInv, Making, call
  <2>11. MadeInv'
    BY <1>2, <2>1, <2>6, <2>7 DEF MadeInv, Making, Between
  <2>12. CameraInv'
    BY <1>2 DEF CameraInv, call
  <2> QED
    BY <2>8, <2>9, <2>10, <2>11, <2>12
<1> QED
  BY <1>1, <1>2 DEF WatchVideo, Blocking

LEMMA KeepTailClips ==
  ASSUME ClipsInv, KeepTail
  PROVE  ClipsInv'
<1> USE DEF ClipsInv
<1>1. /\ pc = "tail" /\ pc' = "next" /\ tail' \in {0, clip}
      /\ UNCHANGED <<clip, call, clipModel, made>>
  BY DEF KeepTail
<1>2. BaseInv'
  BY <1>1, ClipsAssumption DEF BaseInv, Between, call
<1>3. WaitInv'
  BY <1>1 DEF WaitInv, call
<1>4. ChainInv'
  BY <1>1 DEF ChainInv, Making, call
<1>5. MadeInv'
  BY <1>1 DEF MadeInv, Making, Between
<1>6. CameraInv'
  BY <1>1 DEF CameraInv, call
<1> QED
  BY <1>2, <1>3, <1>4, <1>5, <1>6

LEMMA NextClips ==
  ASSUME ClipsInv, [Next]_vars
  PROVE  ClipsInv'
<1>1. CASE UNCHANGED vars
  BY <1>1 DEF vars, call, ClipsInv, BaseInv, WaitInv, ChainInv, MadeInv, CameraInv
<1> QED
  BY <1>1, StartClipClips, SubmitPictureClips, PollPictureClips, ScorePictureClips,
     InspectPictureClips, SubmitVideoClips, PollVideoClips, WatchVideoClips, KeepTailClips
  DEF Next

LEMMA ClipsInvariant ==
  Spec => []ClipsInv
BY InitClips, NextClips, PTL DEF Spec

---------------------------------------------------------------------------
(* What follows.                                                           *)

\* Type correctness of the clip maker, for any number of clips and any storyboard cameras:
\* the delays stay under their ceilings and no sequence waits beyond its limit and one delay.
THEOREM ClipMakingTypeCorrect ==
  Spec => []TypeOK
<1>1. ClipsInv => TypeOK
  <2> SUFFICES ASSUME ClipsInv PROVE TypeOK
    OBVIOUS
  <2>1. camera \in Camera /\ asked \in Camera
    BY NoCameraType, CameraDirected DEF ClipsInv, CameraInv
  <2>2. wait \in [delay : 0..VideoPoll.cap, waited : 0..VideoPoll.limit + VideoPoll.cap]
    BY DEF ClipsInv, WaitInv, Waits
  <2>3. tries \in [frame : 0..1, clip : 0..1]
    BY DEF ClipsInv, BaseInv, NoTries
  <2>4. Len(made) <= clip
    BY ClipsAssumption DEF ClipsInv, BaseInv, MadeInv, Making, Between
  <2>5. \A k \in DOMAIN made : made[k] \in [frame : 0..Clips, score : {"none", "low", "good"}]
    <3> DEFINE E == [frame : 0..Clips, score : {"none", "low", "good"}]
    <3>1. made \in Seq(E)
      BY DEF ClipsInv, BaseInv, Scores
    <3> HIDE DEF E
    <3>2. \A k \in DOMAIN made : made[k] \in E
      BY <3>1
    <3> QED
      BY <3>2 DEF E
  <2> QED
    BY <2>1, <2>2, <2>3, <2>4, <2>5 DEF TypeOK, ClipsInv, BaseInv, Scores, Making, Between
<1> QED
  BY <1>1, ClipsInvariant, PTL

\* However often a reference mode or a camera is refused and whatever the inspectors find, the
\* provider is paid one picture and one video for a clip at most (generate_clip and the
\* retries of generate_image and image_to_video).
THEOREM AlwaysPaidOnce ==
  Spec => []PaidOnce
<1>1. ClipsInv => PaidOnce
  BY DEF ClipsInv, ChainInv, PaidOnce
<1> QED
  BY <1>1, ClipsInvariant, PTL

\* However many clips and whatever the extraction of each last frame leaves behind, a clip
\* starts from the frame of the clip before it or from a picture of its own, and never from
\* an older clip's frame (prev_tail_frame in _handle_visual_clip_review).
THEOREM AlwaysChainKept ==
  Spec => []ChainKept
<1>1. ClipsInv => ChainKept
  BY DEF ClipsInv, ChainInv, MadeInv, Making, ChainKept
<1> QED
  BY <1>1, ClipsInvariant, PTL

\* Whatever numbers the storyboard gives, the movement the provider is asked for is not
\* opposite to its name and stays in the six-axis form (_normalise_camera_control).
THEOREM AlwaysCameraAsDirected ==
  Spec => []CameraAsDirected
<1>1. ClipsInv => CameraAsDirected
  <2> SUFFICES ASSUME ClipsInv PROVE Directed(camera, asked.type)
    BY DEF Directed, CameraAsDirected
  <2> QED
    BY NoCameraType, CameraDirected DEF ClipsInv, CameraInv
<1> QED
  BY <1>1, ClipsInvariant, PTL

---------------------------------------------------------------------------
(* Prompts.  What is proved of them is proved of prompts whose segments are *)
(* any, and of those none of whose segments says "text-free".               *)

Quiet == {g \in Segment : ~g.textFree}
Worded(X) == [body : Seq(X), guard : {"none", "full", "short"}]

LEMMA Kinds ==
  ASSUME NEW X \in {Segment, Quiet}
  PROVE  /\ X \subseteq Segment
         /\ \A g \in X, n \in Nat :
              /\ [g EXCEPT !.len = n] \in X
              /\ [g EXCEPT !.len = n].text = g.text /\ [g EXCEPT !.len = n].len = n
         /\ \A g \in X : g.len \in Nat
BY DEF Quiet, Segment

\* The segments at places that begin with the first.
LEMMA PartsKept ==
  ASSUME NEW X, NEW s \in Seq(X), NEW places \in SUBSET DOMAIN s, 1 \in places
  PROVE  /\ Parts(s, places) \in Seq(X)
         /\ Len(Parts(s, places)) = Cardinality(places)
         /\ Parts(s, places) # <<>> /\ Parts(s, places)[1] = s[1]
<1> DEFINE index == Ascending(places)
           n == Cardinality(places)
<1>1. DOMAIN s = 1..Len(s) /\ Len(s) \in Nat
  OBVIOUS
<1>2. IsFiniteSet(places)
  <2>1. IsFiniteSet(1..Len(s))
    BY <1>1, FS_Interval
  <2> QED
    BY <1>1, <2>1, FS_Subset
<1>3. places \in SUBSET Int
  BY <1>1
<1>4. Parts(s, places) = [k \in DOMAIN index |-> s[index[k]]]
  BY DEF Parts
<1> HIDE DEF index
<1>5. /\ n \in Nat /\ index \in [1..n -> places]
      /\ \A x \in places : \E k \in 1..n : index[k] = x
      /\ \A j, k \in 1..n : j < k => index[j] < index[k]
  BY <1>2, <1>3, OrderedNumbers DEF index
<1>6. n >= 1 /\ index[1] = 1
  <2>1. PICK k \in 1..n : index[k] = 1
    BY <1>5
  <2>2. 1 \in 1..n /\ index[1] \in 1..Len(s)
    BY <1>1, <1>5
  <2>3. ~(1 < k)
    BY <1>5, <2>1, <2>2
  <2> QED
    BY <1>5, <2>1, <2>3
<1> HIDE DEF n
<1>7. Parts(s, places) = [k \in 1..n |-> s[index[k]]]
  BY <1>4, <1>5
<1>8. \A k \in 1..n : s[index[k]] \in X
  BY <1>1, <1>5
<1>9. Parts(s, places) \in Seq(X) /\ Len(Parts(s, places)) = n
  BY <1>5, <1>7, <1>8
<1> QED
  BY <1>5, <1>6, <1>7, <1>9 DEF n

LEMMA DedupedKept ==
  ASSUME NEW X, NEW s \in Seq(X), s # <<>>
  PROVE  Deduped(s) \in Seq(X) /\ Deduped(s) # <<>> /\ Deduped(s)[1] = s[1]
<1> DEFINE keep == {i \in DOMAIN s : \A j \in 1..(i - 1) : s[j].text # s[i].text}
<1>1. keep \in SUBSET DOMAIN s /\ 1 \in keep
  OBVIOUS
<1>2. Deduped(s) = Parts(s, keep)
  BY DEF Deduped
<1> HIDE DEF keep
<1> QED
  BY <1>1, <1>2, PartsKept

LEMMA CountedUp ==
  ASSUME NEW m \in Nat
  PROVE  IsFiniteSet(1..m) /\ Cardinality(1..m) = m
<1>1. IsFiniteSet(1..m) /\ Cardinality(1..m) = IF 1 > m THEN 0 ELSE m - 1 + 1
  BY FS_Interval
<1> QED
  BY <1>1

LEMMA CountedFromTwo ==
  ASSUME NEW m \in Nat, m # 0
  PROVE  IsFiniteSet(2..m) /\ Cardinality(2..m) = m - 1
<1>1. IsFiniteSet(2..m) /\ Cardinality(2..m) = IF 2 > m THEN 0 ELSE m - 2 + 1
  BY FS_Interval
<1> QED
  BY <1>1

\* Every segment but the first is given up once.
LEMMA GivenUpOnce ==
  ASSUME NEW X, NEW s \in Seq(X), s # <<>>, NEW willing, NEW kept,
         NEW order, order = GivenUp(s, willing, kept)
  PROVE  /\ order \in [1..(Len(s) - 1) -> 2..Len(s)]
         /\ \A j, k \in 1..(Len(s) - 1) : order[j] = order[k] => j = k
<1> DEFINE S == 2..Len(s)
           n == Len(s) - 1
           class(i) == CASE s[i].rank \in kept -> 3 [] s[i].rank \in willing -> 1 [] OTHER -> 2
           cls == [i \in S |-> class(i)]
           R == {p \in S \X S : cls[p[1]] < cls[p[2]] \/ (cls[p[1]] = cls[p[2]] /\ p[1] > p[2])}
<1>1. Len(s) \in Nat /\ Len(s) # 0
  OBVIOUS
<1>2. IsFiniteSet(S) /\ Cardinality(S) = n
  BY <1>1, CountedFromTwo
<1>3. order = [k \in 1..Cardinality(S) |->
        CHOOSE x \in S : Cardinality({y \in S : y = x \/ class(y) < class(x) \/ (class(y) = class(x) /\ y > x)}) = k]
  BY DEF GivenUp, Ordered
<1>4. \A i \in S : class(i) \in Int
  OBVIOUS
<1> HIDE DEF class
<1>5. \A x \in S : {y \in S : y = x \/ class(y) < class(x) \/ (class(y) = class(x) /\ y > x)}
                   = {y \in S : y = x \/ <<y, x>> \in R}
  OBVIOUS
<1>6. cls \in [S -> Int] /\ S \in SUBSET Int
  BY <1>4
<1> HIDE DEF cls
<1>7. IsOrder(R, S)
  BY <1>6 DEF IsOrder
<1>8. \A x \in S : Rank(R, S, x)
        = Cardinality({y \in S : y = x \/ class(y) < class(x) \/ (class(y) = class(x) /\ y > x)})
  BY <1>5 DEF Rank
<1>9. n \in Nat
  BY <1>1
<1> HIDE DEF S, R, n
<1>10. ASSUME NEW k \in 1..n PROVE order[k] \in S /\ Rank(R, S, order[k]) = k
  <2>1. \E x \in S : Rank(R, S, x) = k
    BY <1>2, <1>7, <1>10, PlaceTaken
  <2>2. \E x \in S :
          Cardinality({y \in S : y = x \/ class(y) < class(x) \/ (class(y) = class(x) /\ y > x)}) = k
    BY <1>8, <2>1
  <2>3. /\ order[k] \in S
        /\ Cardinality({y \in S : y = order[k] \/ class(y) < class(order[k])
                                  \/ (class(y) = class(order[k]) /\ y > order[k])}) = k
    BY <1>2, <1>3, <2>2
  <2> QED
    BY <1>8, <2>3
<1>11. order \in [1..n -> S]
  BY <1>2, <1>3, <1>10
<1> QED
  BY <1>10, <1>11 DEF n, S

\* The segments left when k of them are given up.
LEMMA WithoutKept ==
  ASSUME NEW X, NEW s \in Seq(X), s # <<>>, NEW order,
         order \in [1..(Len(s) - 1) -> 2..Len(s)],
         \A j, k \in 1..(Len(s) - 1) : order[j] = order[k] => j = k,
         NEW k \in 0..(Len(s) - 1)
  PROVE  /\ Without(s, order, k) \in Seq(X) /\ Without(s, order, k) # <<>>
         /\ Without(s, order, k)[1] = s[1] /\ Len(Without(s, order, k)) = Len(s) - k
<1> DEFINE gone == {order[i] : i \in 1..k}
           D == DOMAIN s
           f == [i \in 1..k |-> order[i]]
<1>1. D = 1..Len(s) /\ Len(s) \in Nat /\ Len(s) # 0 /\ k \in Nat
  OBVIOUS
<1>2. \A i \in 1..k : i \in 1..(Len(s) - 1) /\ order[i] \in 2..Len(s)
  <2> HIDE DEF gone, f
  <2>1. ASSUME NEW i \in 1..k PROVE i \in 1..(Len(s) - 1)
    BY <1>1
  <2> QED
    BY <2>1
<1>3. gone \in SUBSET D /\ 1 \in D \ gone
  BY <1>1, <1>2
<1>4. f \in Injection(1..k, gone)
  <2>1. f \in [1..k -> gone]
    OBVIOUS
  <2>2. \A i, j \in 1..k : f[i] = f[j] => i = j
    BY <1>2
  <2>3. IsInjective(f)
    BY <2>1, <2>2 DEF IsInjective
  <2> QED
    BY <2>1, <2>3 DEF Injection
<1>5. f \in Surjection(1..k, gone)
  BY <1>4 DEF Surjection, Injection
<1>6. /\ IsFiniteSet(1..k) /\ Cardinality(1..k) = k
      /\ IsFiniteSet(D) /\ Cardinality(D) = Len(s)
  BY <1>1, CountedUp
<1>7. Without(s, order, k) = Parts(s, D \ gone)
  BY DEF Without
<1> HIDE DEF gone, D, f
<1>8. IsFiniteSet(gone) /\ Cardinality(gone) = k
  BY <1>4, <1>5, <1>6, FS_Surjection
<1>9. Cardinality(D \ gone) = Len(s) - k
  <2>1. Cardinality(D \ gone) = Cardinality(D) - Cardinality(D \cap gone)
    BY <1>6, FS_Difference
  <2>2. D \cap gone = gone
    BY <1>3
  <2> QED
    BY <1>6, <1>8, <2>1, <2>2
<1> QED
  BY <1>3, <1>7, <1>9, PartsKept DEF D

\* Of a prompt, its guard and how it begins are the other's.
BeginsAs(p, q, X) ==
  /\ p \in Worded(X) /\ p.body # <<>>
  /\ p.guard = q.guard /\ p.body[1].text = q.body[1].text

\* A prompt shortened fits, or nothing more may be given up.
LEMMA ShortenedFits ==
  ASSUME NEW X, NEW p \in Worded(X), p.body # <<>>, NEW willing, NEW kept, NEW floor \in {1, 2},
         NEW r, r = Shortened(p, GivenUp(p.body, willing, kept), floor)
  PROVE  BeginsAs(r, p, X) /\ (FitsBudget(r) \/ Len(r.body) <= floor)
<1> DEFINE s == p.body
           order == GivenUp(s, willing, kept)
           most == IF Len(s) > floor THEN Len(s) - floor ELSE 0
           after(k) == [p EXCEPT !.body = Without(s, order, k)]
           enough == {k \in 0..most : FitsBudget(after(k)) \/ k = most}
           least == CHOOSE k \in enough : \A j \in enough : k <= j
<1>1. s \in Seq(X) /\ s # <<>> /\ Len(s) \in Nat /\ Len(s) # 0
  BY DEF Worded
<1>2. /\ order \in [1..(Len(s) - 1) -> 2..Len(s)]
      /\ \A j, k \in 1..(Len(s) - 1) : order[j] = order[k] => j = k
  BY <1>1, GivenUpOnce
<1>3. most \in Nat /\ most <= Len(s) - 1 /\ (Len(s) - most <= floor)
  BY <1>1
<1>4. r = after(least)
  BY DEF Shortened
<1>5. \A k \in enough : k \in 0..most /\ (FitsBudget(after(k)) \/ k = most)
  OBVIOUS
<1>6. enough \in SUBSET Nat /\ most \in enough
  BY <1>3
<1> HIDE DEF order, most, enough
<1>7. least \in enough
  <2>1. \E k \in enough : \A j \in enough : k <= j
    BY <1>6, Least
  <2> QED
    BY <2>1
<1> HIDE DEF least
<1>8. least \in 0..(Len(s) - 1)
  <2>1. least \in 0..most
    BY <1>5, <1>7
  <2> QED
    BY <1>1, <1>3, <2>1
<1>9. /\ Without(s, order, least) \in Seq(X) /\ Without(s, order, least) # <<>>
      /\ Without(s, order, least)[1] = s[1] /\ Len(Without(s, order, least)) = Len(s) - least
  <2> HIDE DEF s, after
  <2> QED
    BY <1>1, <1>2, <1>8, WithoutKept
<1>10. r = [body |-> Without(s, order, least), guard |-> p.guard]
  BY <1>4 DEF Worded
<1>11. BeginsAs(r, p, X)
  BY <1>9, <1>10 DEF Worded, BeginsAs
<1>12. CASE least = most
  <2>1. Len(r.body) = Len(s) - most
    BY <1>9, <1>10, <1>12
  <2> QED
    BY <1>3, <1>11, <2>1
<1>13. CASE FitsBudget(after(least))
  BY <1>4, <1>11, <1>13
<1> QED
  BY <1>5, <1>7, <1>11, <1>12, <1>13

\* What one segment and what two of them take.
LEMMA TotalOfFew ==
  ASSUME NEW a \in Nat, NEW b \in Nat
  PROVE  Total(<<a>>) = a /\ Total(<<a, b>>) = a + b
<1>1. Total(<<a>>) = a
  <2>1. PICK g : g[0] = 0 /\ (\A i \in 1..Len(<<a>>) : g[i] = g[i - 1] + <<a>>[i])
                 /\ Total(<<a>>) = g[Len(<<a>>)]
    BY PartialSums
  <2>2. g[1] = 0 + a /\ Total(<<a>>) = g[1]
    BY <2>1
  <2> QED
    BY <2>2
<1>2. Total(<<a, b>>) = a + b
  <2>1. PICK g : g[0] = 0 /\ (\A i \in 1..Len(<<a, b>>) : g[i] = g[i - 1] + <<a, b>>[i])
                 /\ Total(<<a, b>>) = g[Len(<<a, b>>)]
    BY PartialSums
  <2>2. g[1] = 0 + a /\ g[2] = g[1] + b /\ Total(<<a, b>>) = g[2]
    BY <2>1
  <2> QED
    BY <2>2
<1> QED
  BY <1>1, <1>2

LEMMA LengthOfFew ==
  ASSUME NEW g, NEW h, g.len \in Nat, h.len \in Nat
  PROVE  BodyLen(<<g>>) = g.len /\ BodyLen(<<g, h>>) = g.len + h.len + 2
<1>1. SegmentLens(<<g>>) = <<g.len>> /\ SegmentLens(<<g, h>>) = <<g.len, h.len>>
  BY DEF SegmentLens
<1>2. /\ BodyLen(<<g>>) = Total(<<g.len>>) + 2 * (1 - 1)
      /\ BodyLen(<<g, h>>) = Total(<<g.len, h.len>>) + 2 * (2 - 1)
  BY <1>1 DEF BodyLen
<1> QED
  BY <1>2, TotalOfFew

\* One segment, cut to what the guard leaves, fits.
LEMMA CutHeadFits ==
  ASSUME NEW X \in {Segment, Quiet}, NEW p \in Worded(X), p.body # <<>>, p.guard = "short"
  PROVE  BeginsAs(CutHead(p), p, X) /\ FitsBudget(CutHead(p))
<1> DEFINE budget == MaxLen - GuardLen(p.guard) - 2
           cut == Smaller(p.body[1].len, budget)
           head == [p.body[1] EXCEPT !.len = cut]
<1>1. GuardLen(p.guard) = 129 /\ MaxLen \in Nat /\ MaxLen > 400
  BY MaxLenAssumption DEF GuardLen
<1>2. p.body[1] \in X
  BY DEF Worded
<1>3. cut \in Nat /\ cut <= MaxLen - 131
  BY <1>1, <1>2, Kinds DEF Smaller
<1>4. CutHead(p) = [body |-> <<head>>, guard |-> "short"]
  BY <1>2 DEF CutHead, Worded
<1> HIDE DEF cut
<1>5. head \in X /\ head.text = p.body[1].text /\ head.len = cut
  BY <1>2, <1>3, Kinds
<1> HIDE DEF head, budget
<1>6. BodyLen(<<head>>) = cut
  BY <1>3, <1>5, LengthOfFew
<1>7. PromptLen(CutHead(p)) = cut + 131
  BY <1>1, <1>3, <1>4, <1>6 DEF PromptLen
<1>8. FitsBudget(CutHead(p))
  BY <1>1, <1>3, <1>7 DEF FitsBudget
<1>9. BeginsAs(CutHead(p), p, X)
  BY <1>4, <1>5 DEF BeginsAs, Worded
<1> QED
  BY <1>8, <1>9

\* So does the beginning of a prompt without a guard.
LEMMA CutFits ==
  ASSUME NEW X \in {Segment, Quiet}, NEW p \in Worded(X), p.body # <<>>, p.guard = "none",
         Len(p.body) <= 2
  PROVE  BeginsAs(Cut(p), p, X) /\ FitsBudget(Cut(p))
<1> DEFINE room == MaxLen - p.body[1].len - 2
           front == Smaller(p.body[1].len, MaxLen)
           back == Smaller(p.body[2].len, room)
           head == [p.body[1] EXCEPT !.len = front]
           next == [p.body[2] EXCEPT !.len = back]
<1>1. MaxLen \in Nat /\ Len(p.body) \in {1, 2}
  <2>1. p.body \in Seq(X)
    BY DEF Worded
  <2>2. Len(p.body) \in Nat /\ Len(p.body) # 0
    BY <2>1
  <2>3. ASSUME NEW k \in Nat, k # 0, k <= 2 PROVE k \in {1, 2}
    BY <2>3
  <2>4. Len(p.body) \in {1, 2}
    BY <2>2, <2>3
  <2> QED
    BY <2>4, MaxLenAssumption
<1>2. p.body[1] \in X /\ p.body[1].len \in Nat
  BY Kinds DEF Worded
<1>3. front \in Nat /\ front <= MaxLen /\ front <= p.body[1].len
  BY <1>1, <1>2 DEF Smaller
<1>4. Cut(p) = [body |-> IF Len(p.body) = 1 \/ room <= 0 THEN <<head>> ELSE <<head, next>>,
                guard |-> "none"]
  BY DEF Cut, Worded
<1> HIDE DEF front
<1>5. head \in X /\ head.text = p.body[1].text /\ head.len = front
  BY <1>2, <1>3, Kinds
<1> HIDE DEF head
<1>6. CASE Len(p.body) = 1 \/ room <= 0
  <2>1. Cut(p) = [body |-> <<head>>, guard |-> "none"]
    BY <1>4, <1>6
  <2>2. PromptLen(Cut(p)) = front
    <3>1. BodyLen(<<head>>) = front
      BY <1>3, <1>5, LengthOfFew
    <3> QED
      BY <1>3, <2>1, <3>1 DEF PromptLen, GuardLen
  <2>3. BeginsAs(Cut(p), p, X)
    BY <1>5, <2>1 DEF BeginsAs, Worded
  <2> QED
    BY <1>3, <2>2, <2>3 DEF FitsBudget
<1>7. CASE Len(p.body) # 1 /\ ~(room <= 0)
  <2>1. Cut(p) = [body |-> <<head, next>>, guard |-> "none"]
    BY <1>4, <1>7
  <2>2. p.body[2] \in X /\ p.body[2].len \in Nat
    BY <1>1, <1>7, Kinds DEF Worded
  <2>3. back \in Nat /\ back <= room /\ room \in Int
    BY <1>1, <1>2, <1>7, <2>2 DEF Smaller
  <2> HIDE DEF back
  <2>4. next \in X /\ next.len = back
    BY <2>2, <2>3, Kinds
  <2> HIDE DEF next
  <2>5. BodyLen(<<head, next>>) = front + back + 2
    BY <1>3, <1>5, <2>3, <2>4, LengthOfFew
  <2>6. PromptLen(Cut(p)) = front + back + 2
    BY <1>3, <2>1, <2>3, <2>5 DEF PromptLen, GuardLen
  <2>7. BeginsAs(Cut(p), p, X)
    BY <1>5, <2>1, <2>4 DEF BeginsAs, Worded
  <2> QED
    BY <1>1, <1>2, <1>3, <2>3, <2>6, <2>7 DEF FitsBudget
<1> QED
  BY <1>6, <1>7

\* What is fitted fits; it keeps its beginning, and a guard if it has one.
LEMMA FittedFits ==
  ASSUME NEW X \in {Segment, Quiet}, NEW p \in Worded(X), p.body # <<>>,
         NEW r, r = FitVisualPrompt(p)
  PROVE  /\ r \in Worded(X) /\ r.body # <<>> /\ (p.guard # "none" => r.guard # "none")
         /\ r.body[1].text = p.body[1].text /\ FitsBudget(r)
<1> DEFINE d == [p EXCEPT !.body = Deduped(p.body)]
           q == Short(d)
           two == Shortened(q, GivenUp(q.body, {"low"}, {"high"}), 2)
           one == Shortened(two, GivenUp(two.body, {"low", "plain", "medium"}, {"high"}), 1)
<1>1. BeginsAs(d, p, X)
  BY DedupedKept DEF BeginsAs, Worded
<1>2. /\ q \in Worded(X) /\ q.body = d.body
      /\ q.guard = IF p.guard = "none" THEN "none" ELSE "short"
  BY <1>1 DEF BeginsAs, Worded, Short
<1>3. r = CASE FitsBudget(d) -> d
            [] ~FitsBudget(d) /\ FitsBudget(q) -> q
            [] ~FitsBudget(d) /\ ~FitsBudget(q) /\ FitsBudget(two) -> two
            [] ~FitsBudget(two) /\ two.guard = "none" -> Cut(two)
            [] OTHER -> IF Len(one.body) > 1 THEN one ELSE CutHead(one)
  BY DEF FitVisualPrompt
<1> HIDE DEF d, q
<1>4. BeginsAs(two, q, X) /\ (FitsBudget(two) \/ Len(two.body) <= 2)
  BY <1>1, <1>2, ShortenedFits DEF BeginsAs
<1> HIDE DEF two
<1>5. BeginsAs(one, two, X) /\ (FitsBudget(one) \/ Len(one.body) <= 1)
  BY <1>4, ShortenedFits DEF BeginsAs
<1> HIDE DEF one
<1>6. two.guard = q.guard /\ one.guard = q.guard
  BY <1>4, <1>5 DEF BeginsAs
<1>7. ASSUME p.guard # "none" PROVE BeginsAs(CutHead(one), one, X) /\ FitsBudget(CutHead(one))
  BY <1>2, <1>5, <1>6, <1>7, CutHeadFits DEF BeginsAs
<1>8. ASSUME p.guard = "none", ~FitsBudget(two)
      PROVE  BeginsAs(Cut(two), two, X) /\ FitsBudget(Cut(two))
  BY <1>2, <1>4, <1>6, <1>8, CutFits DEF BeginsAs
<1>9. \/ FitsBudget(d) /\ r = d
      \/ FitsBudget(q) /\ r = q
      \/ FitsBudget(two) /\ r = two
      \/ p.guard = "none" /\ ~FitsBudget(two) /\ r = Cut(two)
      \/ p.guard # "none" /\ Len(one.body) > 1 /\ r = one
      \/ p.guard # "none" /\ r = CutHead(one)
  BY <1>2, <1>3, <1>6
<1>10. Len(one.body) \in Nat
  BY <1>5 DEF BeginsAs, Worded
<1>11. FitsBudget(r)
  BY <1>5, <1>7, <1>8, <1>9, <1>10
<1> QED
  BY <1>1, <1>2, <1>4, <1>5, <1>6, <1>7, <1>8, <1>9, <1>11 DEF BeginsAs

\* A prompt that may be sent: it fits, begins with t, and forbids text unless one of its
\* segments may say so itself.
Sendable(r, t, X) ==
  /\ r \in Worded(X) /\ r.body # <<>> /\ r.body[1].text = t /\ FitsBudget(r)
  /\ X = Quiet => r.guard # "none"

LEMMA PairOf ==
  ASSUME NEW X, NEW x \in X, NEW y \in X
  PROVE  <<x, y>> \in Seq(X)
OBVIOUS

LEMMA OwnSegments ==
  ASSUME NEW X \in {Segment, Quiet}
  PROVE  Residue \in Seq(X) /\ StrongerSegments \in Seq(X)
<1>1. ASSUME NEW x \in X, NEW y \in X PROVE <<x, y>> \in Seq(X)
  BY PairOf
<1> USE TextsAssumption DEF OwnTexts, Segment, Quiet
<1>2. [text |-> "garbled_scene", len |-> 23, rank |-> "low", textFree |-> FALSE] \in Quiet
  OBVIOUS
<1>3. [text |-> "garbled_guard", len |-> 356, rank |-> "plain", textFree |-> FALSE] \in Quiet
  OBVIOUS
<1>4. [text |-> "geometric_light", len |-> 60, rank |-> "plain", textFree |-> FALSE] \in Quiet
  OBVIOUS
<1>5. [text |-> "blank_glass", len |-> 140, rank |-> "plain", textFree |-> FALSE] \in Quiet
  OBVIOUS
<1>6. Quiet \subseteq X
  <2> HIDE DEF Segment
  <2> QED
    OBVIOUS
<1> QED
  BY <1>1, <1>2, <1>3, <1>4, <1>5, <1>6 DEF Residue, StrongerSegments

\* A prompt with more segments after its own begins as before.
LEMMA MoreSegments ==
  ASSUME NEW X, NEW s \in Seq(X), s # <<>>, NEW t \in Seq(X)
  PROVE  s \o t \in Seq(X) /\ s \o t # <<>> /\ (s \o t)[1] = s[1]
<1>1. Len(s) \in Nat /\ Len(s) # 0 /\ Len(t) \in Nat
  OBVIOUS
<1> QED
  BY <1>1

LEMMA OpenedKept ==
  ASSUME NEW X \in {Segment, Quiet}, NEW p \in Worded(X), p.body # <<>>
  PROVE  Opened(p) \in Seq(X) /\ Opened(p) # <<>> /\ Opened(p)[1] = p.body[1]
<1> DEFINE more == IF p.guard = "none" THEN <<>> ELSE Residue
<1>1. more \in Seq(X) /\ p.body \in Seq(X)
  BY OwnSegments DEF Worded
<1>2. Opened(p) = p.body \o more
  BY DEF Opened
<1> HIDE DEF more
<1> QED
  BY <1>1, <1>2, MoreSegments

LEMMA ExtendedKept ==
  ASSUME NEW X \in {Segment, Quiet}, NEW p \in Worded(X), p.body # <<>>, NEW more \in Seq(X)
  PROVE  BeginsAs(Extended(p, more), [p EXCEPT !.guard = "none"], X)
<1>1. /\ Opened(p) \o more \in Seq(X) /\ Opened(p) \o more # <<>>
      /\ (Opened(p) \o more)[1] = p.body[1]
  BY OpenedKept, MoreSegments
<1> QED
  BY <1>1 DEF Extended, BeginsAs, Worded

\* Words none of which says "text-free" get the guard.
LEMMA GuardOfQuiet ==
  ASSUME NEW s \in Seq(Quiet)
  PROVE  GuardFor(s) = "full"
<1>1. \A i \in DOMAIN s : s[i] \in Quiet
  OBVIOUS
<1>2. \A i \in DOMAIN s : ~s[i].textFree
  BY <1>1 DEF Quiet
<1> QED
  BY <1>2 DEF GuardFor

LEMMA SanitizedFits ==
  ASSUME NEW X \in {Segment, Quiet}, NEW p \in Worded(X), p.body # <<>>
  PROVE  Sendable(Sanitized(p), p.body[1].text, X)
<1> DEFINE q == [body |-> Opened(p), guard |-> GuardFor(Opened(p))]
<1>1. Sanitized(p) = FitVisualPrompt(q)
  BY DEF Sanitized
<1>2. q.body = Opened(p) /\ q.guard = GuardFor(Opened(p)) /\ q.guard \in {"none", "full"}
  BY DEF GuardFor
<1>3. q \in Worded(X) /\ q.body # <<>> /\ q.body[1] = p.body[1]
  BY <1>2, OpenedKept DEF Worded
<1>4. X = Quiet => q.guard # "none"
  BY <1>2, OpenedKept, GuardOfQuiet
<1> HIDE DEF q
<1> QED
  BY <1>1, <1>3, <1>4, FittedFits DEF Sendable

LEMMA StrongerFits ==
  ASSUME NEW X \in {Segment, Quiet}, NEW p \in Worded(X), p.body # <<>>
  PROVE  Sendable(Stronger(p), p.body[1].text, X)
<1> DEFINE base == IF p.guard = "short" THEN Opened(p) ELSE p.body
           q == [body |-> base \o StrongerSegments, guard |-> "none"]
<1>1. base \in Seq(X) /\ base # <<>> /\ base[1] = p.body[1]
  BY OpenedKept DEF Worded
<1>2. Stronger(p) = Sanitized(q)
  BY DEF Stronger
<1> HIDE DEF base
<1>3. q \in Worded(X) /\ q.body # <<>> /\ q.body[1] = p.body[1]
  BY <1>1, OwnSegments, MoreSegments DEF Worded
<1> HIDE DEF q
<1> QED
  BY <1>2, <1>3, SanitizedFits

---------------------------------------------------------------------------
(* Anchors.                                                                *)

\* Anchors whose words are of the kind X.
Anchoring(X) == {a \in Anchor : /\ a.scene \in Seq(X)
                                /\ X = Quiet => \A c \in DOMAIN a.cast : ~a.cast[c].textFree}

LEMMA LongerKept ==
  ASSUME NEW X \in {Segment, Quiet}, NEW g \in X, NEW n \in Nat, NEW b \in BOOLEAN,
         X = Quiet => ~b
  PROVE  Lengthened(g, n, b) \in X /\ Lengthened(g, n, b).text = g.text
<1> DEFINE n2 == g.len + n
           b2 == g.textFree \/ b
<1>0. g \in Segment
  BY DEF Quiet
<1>1. g.text \in Texts /\ g.rank \in {"low", "plain", "medium", "high"} /\ n2 \in Nat
  BY <1>0 DEF Segment
<1>2. b2 \in BOOLEAN
  OBVIOUS
<1>3. X = Quiet => b2 = FALSE
  BY DEF Quiet
<1>4. Lengthened(g, n, b) = [g EXCEPT !.len = n2, !.textFree = b2]
  BY DEF Lengthened
<1> HIDE DEF n2, b2
<1> DEFINE h == [g EXCEPT !.len = n2, !.textFree = b2]
<1>5. h \in Segment
  BY <1>0, <1>1, <1>2 DEF Segment
<1>6. h.text = g.text /\ h.textFree = b2
  BY <1>0 DEF Segment
<1>7. Lengthened(g, n, b) = h
  BY <1>4
<1> HIDE DEF h
<1>8. h \in X
  BY <1>3, <1>5, <1>6 DEF Quiet
<1> QED
  BY <1>6, <1>7, <1>8

LEMMA DescribedKept ==
  ASSUME NEW X \in {Segment, Quiet}, NEW a \in Anchoring(X), NEW s \in Seq(X)
  PROVE  /\ Described(s, a.cast) \in Seq(X) /\ Len(Described(s, a.cast)) = Len(s)
         /\ \A i \in DOMAIN s : Described(s, a.cast)[i].text = s[i].text
<1> DEFINE cast == a.cast
           here(i, c) == s[i].text \in cast[c].in
                         /\ \A j \in 1..(i - 1) : s[j].text \notin cast[c].in
           longer(i) == Total([c \in DOMAIN cast |-> IF here(i, c) THEN cast[c].len ELSE 0])
           says(i) == \E c \in DOMAIN cast : here(i, c) /\ cast[c].textFree
           new(i) == Lengthened(s[i], longer(i), says(i))
<1>1. /\ cast \in Seq([in : SUBSET Texts, len : Nat, textFree : BOOLEAN])
      /\ X = Quiet => \A c \in DOMAIN cast : ~cast[c].textFree
  BY DEF Anchoring, Anchor
<1>2. Described(s, a.cast) = [i \in DOMAIN s |-> new(i)]
  BY DEF Described
<1> HIDE DEF cast
<1>3. \A c \in DOMAIN cast : cast[c].len \in Nat
  <2> DEFINE C == [in : SUBSET Texts, len : Nat, textFree : BOOLEAN]
  <2>1. \A x \in C : x.len \in Nat
    OBVIOUS
  <2>2. cast \in Seq(C)
    BY <1>1
  <2> HIDE DEF C
  <2>3. \A c \in DOMAIN cast : cast[c] \in C
    BY <2>2
  <2> QED
    BY <2>1, <2>3
<1>4. ASSUME NEW i \in DOMAIN s PROVE longer(i) \in Nat
  <2> DEFINE lens == [c \in DOMAIN cast |-> IF here(i, c) THEN cast[c].len ELSE 0]
  <2> HIDE DEF here
  <2>1. Len(cast) \in Nat /\ DOMAIN cast = 1..Len(cast)
    BY <1>1
  <2>2. \A c \in 1..Len(cast) : lens[c] \in Nat
    BY <1>3, <2>1
  <2>3. lens = [c \in 1..Len(cast) |-> lens[c]]
    BY <2>1
  <2> HIDE DEF lens
  <2>4. lens \in Seq(Nat)
    BY <2>1, <2>2, <2>3
  <2>5. Total(lens) \in Nat
    BY <2>4, TotalNumbers
  <2> QED
    BY <2>5 DEF lens
<1>5. ASSUME NEW i \in DOMAIN s PROVE says(i) \in BOOLEAN /\ (X = Quiet => ~says(i))
  <2>1. says(i) \in BOOLEAN
    OBVIOUS
  <2>2. X = Quiet => ~says(i)
    <3> HIDE DEF here
    <3> QED
      BY <1>1
  <2> QED
    BY <2>1, <2>2
<1> HIDE DEF longer, says
<1>6. ASSUME NEW i \in DOMAIN s PROVE new(i) \in X /\ new(i).text = s[i].text
  <2>1. s[i] \in X
    OBVIOUS
  <2> QED
    BY <1>4, <1>5, <2>1, LongerKept
<1>7. DOMAIN s = 1..Len(s) /\ Len(s) \in Nat
  OBVIOUS
<1> HIDE DEF new
<1>8. Described(s, a.cast) = [i \in 1..Len(s) |-> new(i)]
  BY <1>2, <1>7
<1> QED
  BY <1>6, <1>7, <1>8

LEMMA MergedKept ==
  ASSUME NEW X \in {Segment, Quiet}, NEW f \in X, NEW g \in X
  PROVE  Merged(f, g) \in X /\ Merged(f, g).text = f.text
<1> DEFINE rank == Merged(f, g).rank
<1>1. rank \in {"low", "plain", "medium", "high"}
  BY DEF Merged
<1> DEFINE n == f.len + 1 + g.len
           b == f.textFree \/ g.textFree
<1>0. f \in Segment /\ g \in Segment
  BY DEF Quiet
<1>2. f.text \in Texts /\ n \in Nat
  BY <1>0 DEF Segment
<1>3. b \in BOOLEAN
  OBVIOUS
<1>4. X = Quiet => b = FALSE
  BY DEF Quiet
<1>5. Merged(f, g) = [text |-> f.text, len |-> n, textFree |-> b, rank |-> rank]
  BY DEF Merged
<1> HIDE DEF rank, n, b
<1>6. [text |-> f.text, len |-> n, textFree |-> b, rank |-> rank] \in Segment
  BY <1>1, <1>2, <1>3 DEF Segment
<1>7. [text |-> f.text, len |-> n, textFree |-> b, rank |-> rank] \in X
  BY <1>4, <1>6 DEF Quiet
<1> QED
  BY <1>5, <1>7

LEMMA JoinedKept ==
  ASSUME NEW X \in {Segment, Quiet}, NEW s \in Seq(X), NEW n \in 1..(Len(s) - 1)
  PROVE  Joined(s, n) \in Seq(X) /\ Joined(s, n) # <<>> /\ Joined(s, n)[1].text = s[1].text
<1> DEFINE new(i) == IF i < n THEN s[i] ELSE IF i = n THEN Merged(s[n], s[n + 1]) ELSE s[i + 1]
           m == Len(s) - 1
<1>1. /\ Len(s) \in Nat /\ m \in Nat /\ n \in Nat /\ 1 <= n /\ n <= m
      /\ \A i \in 1..Len(s) : s[i] \in X
  OBVIOUS
<1>2. Joined(s, n) = [i \in 1..m |-> new(i)]
  BY DEF Joined
<1>3. Merged(s[n], s[n + 1]) \in X /\ Merged(s[n], s[n + 1]).text = s[n].text
  BY <1>1, MergedKept
<1>4. \A i \in 1..m : new(i) \in X
  BY <1>1, <1>3
<1>5. new(1).text = s[1].text
  BY <1>1, <1>3
<1> HIDE DEF new, m
<1> QED
  BY <1>1, <1>2, <1>4, <1>5

\* A prompt with its anchors begins with the scene, or as before where there is none.
LEMMA AnchoredKept ==
  ASSUME NEW X \in {Segment, Quiet}, NEW a \in Anchoring(X),
         NEW p \in Worded(X), p.body # <<>>
  PROVE  /\ Anchored(p, a) \in Worded(X) /\ Anchored(p, a).body # <<>>
         /\ Anchored(p, a).body[1].text
              = IF a.scene = <<>> THEN p.body[1].text ELSE a.scene[1].text
<1>1. p.body \in Seq(X) /\ a.scene \in Seq(X) /\ Len(p.body) \in Nat /\ Len(p.body) # 0
  BY DEF Worded, Anchoring
<1>2. Anchored(p, a) = [body |-> Prefixed(p, a), guard |-> p.guard]
  BY DEF Anchored, Worded
<1>3. /\ Prefixed(p, a) \in Seq(X) /\ Prefixed(p, a) # <<>>
      /\ Prefixed(p, a)[1].text = IF a.scene = <<>> THEN p.body[1].text ELSE a.scene[1].text
  <2>1. CASE a.scene # <<>> /\ p.body[1].text # a.scene[1].text
    <3> DEFINE all == a.scene \o p.body
               told == Described(all, a.cast)
               n == Len(a.scene)
    <3>1. Prefixed(p, a) = Joined(told, n)
      BY <2>1 DEF Prefixed
    <3>2. /\ all \in Seq(X) /\ all[1] = a.scene[1] /\ Len(all) = n + Len(p.body)
          /\ n \in Nat /\ n # 0 /\ 1 \in DOMAIN all
      <4>1. n \in Nat /\ n # 0
        BY <1>1, <2>1
      <4>2. all \in Seq(X) /\ all # <<>> /\ all[1] = a.scene[1]
        BY <1>1, <2>1, MoreSegments
      <4>3. Len(all) = n + Len(p.body)
        BY <1>1
      <4> HIDE DEF all, n
      <4> QED
        BY <1>1, <4>1, <4>2, <4>3
    <3> HIDE DEF all, n
    <3>3. told \in Seq(X) /\ Len(told) = Len(all) /\ told[1].text = all[1].text
      BY <3>2, DescribedKept
    <3> HIDE DEF told
    <3>4. n \in 1..(Len(told) - 1)
      BY <1>1, <3>2, <3>3
    <3> QED
      BY <2>1, <3>1, <3>2, <3>3, <3>4, JoinedKept
  <2>2. CASE ~(a.scene # <<>> /\ p.body[1].text # a.scene[1].text)
    <3>1. Prefixed(p, a) = Described(p.body, a.cast)
      BY <2>2 DEF Prefixed
    <3>2. 1 \in DOMAIN p.body
      BY <1>1
    <3>3. /\ Prefixed(p, a) \in Seq(X) /\ Len(Prefixed(p, a)) = Len(p.body)
          /\ Prefixed(p, a)[1].text = p.body[1].text
      BY <1>1, <3>1, <3>2, DescribedKept
    <3>4. Prefixed(p, a) # <<>>
      BY <1>1, <3>3
    <3> QED
      BY <2>2, <3>3, <3>4
  <2> QED
    BY <2>1, <2>2
<1> QED
  BY <1>2, <1>3 DEF Worded

---------------------------------------------------------------------------
(* The prompts of a clip.                                                  *)

\* Only a clip in the making has a prompt; what is taken from the first clip stays.
PromptInv ==
  /\ anchors \in Anchors
  /\ pc \in Making => prompt \in Prompts /\ notes \in Notes

LEMMA NextPrompt ==
  ASSUME PromptInv, [Next]_vars
  PROVE  PromptInv'
<1> USE DEF PromptInv, Making
<1>1. CASE StartClip
  BY <1>1 DEF StartClip
<1>2. CASE SubmitPicture
  BY <1>2 DEF SubmitPicture, Raise, call, words
<1>3. CASE PollPicture
  BY <1>3 DEF PollPicture, Raise, call, words
<1>4. CASE ScorePicture
  BY <1>4 DEF ScorePicture, words
<1>5. CASE InspectPicture
  BY <1>5 DEF InspectPicture, words
<1>6. CASE SubmitVideo
  BY <1>6 DEF SubmitVideo, Raise, call, words
<1>7. CASE PollVideo
  BY <1>7 DEF PollVideo, Raise, call, words
<1>8. CASE WatchVideo
  BY <1>8 DEF WatchVideo, Raise, call, words
<1>9. CASE KeepTail
  BY <1>9 DEF KeepTail, call, words
<1>10. CASE UNCHANGED vars
  BY <1>10 DEF vars, call, words
<1> QED
  BY <1>1, <1>2, <1>3, <1>4, <1>5, <1>6, <1>7, <1>8, <1>9, <1>10 DEF Next

\* All the words that go into a clip's prompts, of the kind X.
Given(X) ==
  /\ prompt \in Worded(X) /\ prompt.body # <<>>
  /\ notes \in Seq(X) /\ StyleSuffix \in Seq(X) /\ anchors \in Anchoring(X)

LEMMA QuietSequence ==
  ASSUME NEW s \in Seq(Segment), \A i \in DOMAIN s : ~s[i].textFree
  PROVE  s \in Seq(Quiet)
<1>1. \A i \in 1..Len(s) : s[i] \in Quiet
  BY DEF Quiet
<1> QED
  BY <1>1

\* Nothing is asked of the words but that they may say "text-free".
LEMMA WordsGiven ==
  ASSUME PromptInv, pc \in Making
  PROVE  \E X \in {Segment, Quiet} : Given(X) /\ (X = Quiet \/ SaysTextFree)
<1>1. /\ prompt \in Prompt /\ prompt.body # <<>> /\ prompt.body \in Seq(Segment)
      /\ notes \in Seq(Segment) /\ StyleSuffix \in Seq(Segment)
      /\ anchors \in Anchor /\ anchors.scene \in Seq(Segment)
  BY PromptsAssumption, AdditionsAssumption DEF PromptInv, Prompt, Anchor
<1>2. CASE SaysTextFree
  <2>1. Segment # Quiet
    <3>1. [text |-> "garbled_scene", len |-> 0, rank |-> "low", textFree |-> TRUE] \in Segment
      BY TextsAssumption DEF OwnTexts, Segment
    <3>2. [text |-> "garbled_scene", len |-> 0, rank |-> "low", textFree |-> TRUE] \notin Quiet
      BY DEF Quiet
    <3> QED
      BY <3>1, <3>2
  <2>2. Given(Segment)
    BY <1>1, <2>1 DEF Given, Worded, Prompt, Anchoring
  <2> QED
    BY <1>2, <2>2
<1>3. CASE ~SaysTextFree
  <2>1. /\ \A i \in DOMAIN prompt.body : ~prompt.body[i].textFree
        /\ \A i \in DOMAIN notes : ~notes[i].textFree
        /\ \A i \in DOMAIN anchors.scene : ~anchors.scene[i].textFree
        /\ \A i \in DOMAIN StyleSuffix : ~StyleSuffix[i].textFree
        /\ \A c \in DOMAIN anchors.cast : ~anchors.cast[c].textFree
    BY <1>3 DEF SaysTextFree
  <2>2. /\ prompt.body \in Seq(Quiet) /\ notes \in Seq(Quiet)
        /\ anchors.scene \in Seq(Quiet) /\ StyleSuffix \in Seq(Quiet)
    BY <1>1, <2>1, QuietSequence
  <2>3. Given(Quiet)
    BY <1>1, <2>1, <2>2 DEF Given, Worded, Prompt, Anchoring
  <2> QED
    BY <2>3
<1> QED
  BY <1>2, <1>3

LEMMA StoredBegins ==
  ASSUME NEW X \in {Segment, Quiet}, Given(X), clip \in Nat, clip >= 1
  PROVE  Stored \in Worded(X) /\ Stored.body # <<>> /\ Stored.body[1].text = Beginning
<1> DEFINE safe == Sanitized(prompt)
           one == IF clip = 1 THEN safe ELSE Anchored(safe, anchors)
<1>1. safe \in Worded(X) /\ safe.body # <<>> /\ safe.body[1].text = prompt.body[1].text
  BY SanitizedFits DEF Given, Sendable
<1> HIDE DEF safe
<1>2. one \in Worded(X) /\ one.body # <<>> /\ one.body[1].text = Beginning
  <2>1. CASE clip = 1
    BY <1>1, <2>1 DEF Beginning
  <2>2. CASE clip # 1
    <3>1. anchors \in Anchoring(X) /\ clip > 1
      BY <2>2 DEF Given
    <3> QED
      BY <1>1, <2>2, <3>1, AnchoredKept DEF Beginning
  <2> QED
    BY <2>1, <2>2
<1>3. Stored = Extended(one, notes)
  BY DEF Stored, safe
<1> HIDE DEF one
<1>4. notes \in Seq(X)
  BY DEF Given
<1> QED
  BY <1>2, <1>3, <1>4, ExtendedKept DEF BeginsAs, Worded

\* Once more sanitised and fitted, a prompt may be sent; and also a firmer one.
LEMMA SentAgain ==
  ASSUME NEW X \in {Segment, Quiet}, NEW p \in Worded(X), p.body # <<>>
  PROVE  Sendable(FitVisualPrompt(Sanitized(p)), p.body[1].text, X)
<1> DEFINE q == Sanitized(p)
<1>1. Sendable(q, p.body[1].text, X)
  BY SanitizedFits
<1> HIDE DEF q
<1>2. Sendable(FitVisualPrompt(q), p.body[1].text, X)
  BY <1>1, FittedFits DEF Sendable
<1> QED
  BY <1>2 DEF q

LEMMA FirmlyFits ==
  ASSUME NEW X \in {Segment, Quiet}, NEW p, NEW t, Sendable(p, t, X), NEW again
  PROVE  Sendable(Firmly(p, again), t, X)
<1>1. CASE again
  BY <1>1, StrongerFits DEF Firmly, Sendable
<1>2. CASE ~again
  BY <1>2 DEF Firmly
<1> QED
  BY <1>1, <1>2

\* Whatever prompts the storyboard holds, of however many segments however long, whatever
\* the anchors of its first clip, its style and its reviewer add, and however often a picture
\* or a clip is tried, the prompt submitted for it fits the provider's limit, begins with the
\* first clip's scene or else with the storyboard's first segment, and ends with a guard
\* against text unless its own words are taken for one (sanitize_visual_prompt,
\* fit_visual_prompt, inject_anchors_into_prompt and _stronger_textless_prompt).
THEOREM AlwaysPromptFits == Spec => []PromptFits
<1>1. Init => PromptInv
  BY DEF Init, PromptInv, Making
<1>2. PromptInv /\ [Next]_vars => PromptInv'
  BY NextPrompt
<1>3. ClipsInv /\ PromptInv => PromptFits
  <2>1. SUFFICES ASSUME ClipsInv, PromptInv, pc \in {"picture", "submit"},
                        NEW p \in {PicturePrompt, VideoPrompt}
                 PROVE  /\ PromptLen(p) <= MaxLen
                        /\ p.body[1].text = Beginning
                        /\ p.guard = "none" => SaysTextFree
    BY DEF PromptFits
  <2>2. pc \in Making /\ clip \in Nat /\ clip >= 1
    BY <2>1, ClipsAssumption DEF Making, ClipsInv, BaseInv, ChainInv
  <2>3. PICK X \in {Segment, Quiet} : Given(X) /\ (X = Quiet \/ SaysTextFree)
    BY <2>1, <2>2, WordsGiven
  <2>4. Stored \in Worded(X) /\ Stored.body # <<>> /\ Stored.body[1].text = Beginning
    BY <2>2, <2>3, StoredBegins
  <2> DEFINE styled == Extended(Stored, StyleSuffix)
  <2>5. styled \in Worded(X) /\ styled.body # <<>> /\ styled.body[1].text = Beginning
    <3>1. StyleSuffix \in Seq(X)
      BY <2>3 DEF Given
    <3> QED
      BY <2>4, <3>1, ExtendedKept DEF BeginsAs, Worded
  <2> HIDE DEF styled
  <2>6. Sendable(VideoPrompt, Beginning, X)
    <3>1. Sendable(FitVisualPrompt(Sanitized(Stored)), Beginning, X)
      BY <2>4, SentAgain
    <3> QED
      BY <3>1, FirmlyFits DEF VideoPrompt
  <2>7. Sendable(PicturePrompt, Beginning, X)
    <3>1. Sendable(FitVisualPrompt(Sanitized(styled)), Beginning, X)
      BY <2>5, SentAgain
    <3>2. Sendable(Firmly(FitVisualPrompt(Sanitized(styled)), tries.clip > 0), Beginning, X)
      BY <3>1, FirmlyFits
    <3>3. Sendable(Firmly(Firmly(FitVisualPrompt(Sanitized(styled)), tries.clip > 0),
                          tries.frame > 0), Beginning, X)
      BY <3>2, FirmlyFits
    <3> QED
      BY <3>3 DEF PicturePrompt, styled
  <2>8. Sendable(p, Beginning, X)
    BY <2>1, <2>6, <2>7
  <2> QED
    BY <2>3, <2>8 DEF Sendable, FitsBudget
<1> QED
  BY <1>1, <1>2, <1>3, ClipsInvariant, PTL DEF Spec

=============================================================================
