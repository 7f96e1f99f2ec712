---------------------------- MODULE CanvasProofs ----------------------------
(* That what the canvas shows is typed and bounded whatever is regenerated meanwhile, and, *)
(* with one worker, that a page has every video its clips had before.                      *)
EXTENDS Canvas, RegenJobProofs, DataProofs

---------------------------------------------------------------------------
(* What was read stays with the page.                                      *)

ClipRow == [video : Nat, status : {"ready", "dirty", "failed"}, version : Nat, cost : {0, Cost}]
Videos  == [Clip -> SUBSET Nat]

PageInv ==
  /\ page \in [at : {"none", "clips", "frames", "answered", "in_memory", "missing"},
               framed : BOOLEAN, clips : {<<>>} \cup [Clip -> ClipRow],
               frames : {<<>>} \cup Videos, before : {<<>>} \cup Videos]
  /\ page.at \in {"frames", "answered"} => page.clips \in [Clip -> ClipRow]

PreviewInv ==
  /\ registered \in BOOLEAN
  /\ preview \in {"none", "running", "answered", "missing"}
  /\ thumb \in [Shots -> {"none", "waiting", "drawing", "ok", "failed"}]
  /\ Cardinality(Drawing) <= Permits

\* Between its two selects a page has only videos that were archived before it looked.
HistoryInv ==
  /\ page.at = "frames" => \A c \in Clip : page.before[c] \subseteq archived[c]
  /\ PageHasHistory

LEMMA RowsRead ==
  ASSUME TypeOK
  PROVE  ClipRows \in [Clip -> ClipRow]
BY CanvasAssumption DEF TypeOK, ClipRows, ClipRow

LEMMA CanvasInitInv ==
  CanvasInit => PageInv /\ PreviewInv /\ HistoryInv
<1> SUFFICES ASSUME CanvasInit PROVE PageInv /\ PreviewInv /\ HistoryInv
  OBVIOUS
<1>1. page \in [at : {"none"}, framed : BOOLEAN, clips : {<<>>}, frames : {<<>>}, before : {<<>>}]
  BY DEF CanvasInit, Unread
<1>2. PageInv /\ page.at = "none"
  BY <1>1 DEF PageInv
<1>3. HistoryInv
  BY <1>2 DEF HistoryInv, PageHasHistory
<1>4. Drawing = {}
  BY DEF CanvasInit, NoThumbs, Drawing
<1>5. PreviewInv
  <2>1. Cardinality(Drawing) = 0
    BY <1>4, FS_EmptySet
  <2>2. Cardinality(Drawing) <= Permits
    BY <2>1, CanvasAssumption
  <2> QED
    BY <2>2 DEF CanvasInit, NoThumbs, PreviewInv
<1> QED
  BY <1>2, <1>3, <1>5

LEMMA GetInv ==
  ASSUME PageInv, NEW inDb \in BOOLEAN, NEW framed \in BOOLEAN, Get(inDb, framed)
  PROVE  PageInv' /\ page'.at \notin {"frames", "answered"}
<1>1. /\ Unread.at = "none" /\ Unread.framed = FALSE
      /\ Unread \in [at : {"none", "clips", "frames", "answered", "in_memory", "missing"},
                     framed : BOOLEAN, clips : {<<>>}, frames : {<<>>}, before : {<<>>}]
  BY DEF Unread
<1> DEFINE a == IF inDb THEN Selects[1] ELSE IF registered THEN "in_memory" ELSE "missing"
<1>2. a \in {"clips", "in_memory", "missing"}
  BY DEF Selects
<1>3. page' = [Unread EXCEPT !.framed = framed, !.at = a]
  BY DEF Get
<1> HIDE DEF a
<1>4. /\ page' \in [at : {"none", "clips", "frames", "answered", "in_memory", "missing"},
                    framed : BOOLEAN, clips : {<<>>}, frames : {<<>>}, before : {<<>>}]
      /\ page'.at = a
  BY <1>1, <1>2, <1>3
<1> QED
  BY <1>2, <1>4 DEF PageInv

LEMMA SelectClipsInv ==
  ASSUME TypeOK, PageInv, SelectClips
  PROVE  PageInv' /\ page'.at = "frames" /\ page'.before = replaced
<1>1. After("clips") = "frames"
  BY DEF After, Selects
<1>2. page' = [page EXCEPT !.at = "frames", !.clips = ClipRows, !.before = replaced]
  BY <1>1 DEF SelectClips
<1>3. replaced \in Videos /\ ClipRows \in [Clip -> ClipRow]
  BY RowsRead DEF TypeOK, Videos
<1>4. /\ page' \in [at : {"none", "clips", "frames", "answered", "in_memory", "missing"},
                    framed : BOOLEAN, clips : {<<>>} \cup [Clip -> ClipRow],
                    frames : {<<>>} \cup Videos, before : {<<>>} \cup Videos]
      /\ page'.at = "frames" /\ page'.before = replaced /\ page'.clips = ClipRows
  BY <1>2, <1>3 DEF PageInv
<1> QED
  BY <1>3, <1>4 DEF PageInv

LEMMA SelectFramesInv ==
  ASSUME TypeOK, PageInv, SelectFrames
  PROVE  /\ PageInv' /\ page'.at = "answered" /\ page'.framed = page.framed
         /\ page'.before = page.before /\ (page.framed => page'.frames = archived)
<1>1. After("frames") = "answered"
  BY DEF After, Selects
<1> DEFINE f == IF page.framed THEN archived ELSE [c \in Clip |-> {}]
<1>2. page.at = "frames" /\ page' = [page EXCEPT !.at = "answered", !.frames = f]
  BY <1>1 DEF SelectFrames
<1>3. f \in Videos /\ (page.framed => f = archived)
  BY DEF TypeOK, Videos
<1> HIDE DEF f
<1>4. /\ page' \in [at : {"none", "clips", "frames", "answered", "in_memory", "missing"},
                    framed : BOOLEAN, clips : {<<>>} \cup [Clip -> ClipRow],
                    frames : {<<>>} \cup Videos, before : {<<>>} \cup Videos]
      /\ page'.at = "answered" /\ page'.before = page.before /\ page'.clips = page.clips
      /\ page'.frames = f /\ page'.framed = page.framed
  BY <1>2, <1>3 DEF PageInv
<1> QED
  BY <1>2, <1>3, <1>4 DEF PageInv

---------------------------------------------------------------------------
(* The permits.                                                            *)

LEMMA DrawingFinite ==
  IsFiniteSet(Drawing)
BY CanvasAssumption, FS_Subset DEF Drawing

LEMMA DrawInv ==
  ASSUME PreviewInv, NEW s \in Shots, Draw(s)
  PROVE  PreviewInv'
<1>1. Drawing' = Drawing \cup {s}
  BY DEF Draw, Drawing, PreviewInv
<1>2. s \notin Drawing /\ Cardinality(Drawing) < Permits
  BY DEF Draw, Drawing, Holders
<1>3. Cardinality(Drawing \cup {s}) = Cardinality(Drawing) + 1 /\ Cardinality(Drawing) \in Nat
  BY <1>2, DrawingFinite, FS_AddElement, FS_CardinalityType
<1>4. Cardinality(Drawing') <= Permits
  BY <1>1, <1>2, <1>3, CanvasAssumption
<1> QED
  BY <1>4 DEF Draw, PreviewInv

LEMMA DrawnInv ==
  ASSUME PreviewInv, NEW s \in Shots, Drawn(s)
  PROVE  PreviewInv'
<1>1. Drawing' \subseteq Drawing
  BY DEF Drawn, Drawing, PreviewInv
<1>2. Cardinality(Drawing') <= Cardinality(Drawing) /\ Cardinality(Drawing) \in Nat
      /\ Cardinality(Drawing') \in Nat
  BY <1>1, DrawingFinite, FS_Subset, FS_CardinalityType
<1>3. Cardinality(Drawing') <= Permits
  BY <1>2, CanvasAssumption DEF PreviewInv
<1> QED
  BY <1>3 DEF Drawn, PreviewInv

\* A preview starts with no shot being drawn, an answer leaves them as they are.
LEMMA PreviewStepInv ==
  ASSUME PreviewInv, Register \/ Preview \/ Answer
  PROVE  PreviewInv'
<1>1. CASE Register \/ Answer
  BY <1>1 DEF Register, Answer, PreviewInv, Drawing
<1>2. CASE Preview
  <2>1. Drawing' = {}
    BY <1>2 DEF Preview, NoThumbs, Drawing
  <2>2. Cardinality(Drawing') = 0
    BY <2>1, FS_EmptySet
  <2>3. Cardinality(Drawing') <= Permits
    BY <2>2, CanvasAssumption
  <2> QED
    BY <1>2, <2>3 DEF Preview, NoThumbs, PreviewInv
<1> QED
  BY <1>1, <1>2

---------------------------------------------------------------------------
(* Every step.                                                             *)

\* The canvas changes nothing of the regenerations.
LEMMA CanvasIsRegen ==
  CanvasSpec => Spec
<1>1. CanvasInit => Init
  BY DEF CanvasInit
<1>2. [CanvasNext]_canvasVars => [Next]_vars
  BY DEF CanvasNext, canvasVars
<1> QED
  BY <1>1, <1>2, PTL DEF CanvasSpec, Spec

LEMMA CanvasTypeStep ==
  TypeOK /\ PageInv /\ PreviewInv /\ [CanvasNext]_canvasVars => PageInv' /\ PreviewInv'
<1> SUFFICES ASSUME TypeOK, PageInv, PreviewInv, [CanvasNext]_canvasVars
             PROVE  PageInv' /\ PreviewInv'
  OBVIOUS
<1>1. CASE UNCHANGED canvas
  BY <1>1 DEF canvas, PageInv, PreviewInv, Drawing
<1>2. CASE Canvas
  <2>1. ASSUME NEW inDb \in BOOLEAN, NEW framed \in BOOLEAN, Get(inDb, framed)
        PROVE  PageInv' /\ PreviewInv'
    BY <2>1, GetInv DEF Get, PreviewInv, Drawing
  <2>2. CASE SelectClips
    BY <2>2, SelectClipsInv DEF SelectClips, PreviewInv, Drawing
  <2>3. CASE SelectFrames
    BY <2>3, SelectFramesInv DEF SelectFrames, PreviewInv, Drawing
  <2>4. CASE Register \/ Preview \/ Answer
    BY <2>4, PreviewStepInv DEF Register, Preview, Answer, PageInv
  <2>5. ASSUME NEW s \in Shots, Draw(s) \/ Drawn(s)
        PROVE  PageInv' /\ PreviewInv'
    BY <2>5, DrawInv, DrawnInv DEF Draw, Drawn, PageInv
  <2> QED
    BY <1>2, <2>1, <2>2, <2>3, <2>4, <2>5 DEF Canvas
<1> QED
  BY <1>1, <1>2 DEF CanvasNext, canvasVars

\* Nothing is taken from an archive.
LEMMA ArchiveGrows ==
  ASSUME TypeOK, [Next]_vars
  PROVE  \A c \in Clip : archived[c] \subseteq archived'[c]
<1>1. ASSUME NEW j \in Job, Commit(j)
      PROVE  \A c \in Clip : archived[c] \subseteq archived'[c]
  BY <1>1 DEF Commit, TypeOK
<1>2. CASE UNCHANGED archived
  BY <1>2
<1> QED
  BY <1>1, <1>2 DEF Next, Request, Work, Start, Check, Enqueue, Insert, FirstRead,
     FirstWrite, Progress, Load, Generate, Updated, Finish, Fail, Timeout, Crash, vars, clips

LEMMA HistoryStep ==
  TypeOK /\ PageInv /\ EveryVideoArchived /\ HistoryInv /\ [CanvasNext]_canvasVars
    => HistoryInv'
<1> SUFFICES ASSUME TypeOK, PageInv, EveryVideoArchived, HistoryInv, [CanvasNext]_canvasVars
             PROVE  HistoryInv'
  OBVIOUS
<1>1. [Next]_vars
  BY DEF CanvasNext, canvasVars
<1>2. CASE UNCHANGED page
  <2>1. \A c \in Clip : archived[c] \subseteq archived'[c]
    BY <1>1, ArchiveGrows
  <2> QED
    BY <1>2, <2>1 DEF HistoryInv, PageHasHistory
<1>3. ASSUME NEW inDb \in BOOLEAN, NEW framed \in BOOLEAN, Get(inDb, framed)
      PROVE  HistoryInv'
  BY <1>3, GetInv DEF HistoryInv, PageHasHistory
<1>4. CASE SelectClips /\ UNCHANGED vars
  <2>1. page'.at = "frames" /\ \A c \in Clip : page'.before[c] \subseteq archived[c]
    BY <1>4, SelectClipsInv DEF EveryVideoArchived
  <2> QED
    BY <1>4, <2>1 DEF HistoryInv, PageHasHistory, vars, clips
<1>5. CASE SelectFrames /\ UNCHANGED vars
  <2>1. /\ page'.at = "answered" /\ page'.framed = page.framed
        /\ page'.before = page.before /\ (page.framed => page'.frames = archived)
    BY <1>5, SelectFramesInv
  <2>2. page.at = "frames"
    BY <1>5 DEF SelectFrames
  <2> QED
    BY <2>1, <2>2 DEF HistoryInv, PageHasHistory
<1> QED
  BY <1>2, <1>3, <1>4, <1>5
  DEF CanvasNext, Canvas, canvasVars, canvas, Register, Preview, Draw, Drawn, Answer

---------------------------------------------------------------------------
(* What follows.                                                           *)

\* The costs of an answered page add up to at most the cost of all its clips.
LEMMA CostsBounded ==
  ASSUME PageInv, page.at = "answered"
  PROVE  /\ CostSummary.total \in 0..(N * Cost) /\ CostSummary.remaining \in 0..(60 * N)
         /\ \A c \in Clip : "regenerate" \in Nodes[c].ops /\ Nodes[c].status # "none"
<1> DEFINE costs == [c \in Clip |-> Nodes[c].cost]
           toDo == {c \in Clip : Nodes[c].status \in {"pending", "dirty"}}
<1>1. \A c \in Clip : page.clips[c] \in ClipRow
  BY DEF PageInv
<1>2. \A c \in Clip : /\ Nodes[c].cost = page.clips[c].cost
                      /\ Nodes[c].status = page.clips[c].status
                      /\ Nodes[c].ops = Ops(page.clips[c].status)
  BY DEF Nodes, Node
<1>3. DOMAIN Nodes = Clip
  BY DEF Nodes
<1>4. CostSummary.total = Total(costs) /\ CostSummary.remaining = 60 * Cardinality(toDo)
  BY <1>3 DEF CostSummary, Summary
<1>5. N \in Nat /\ Cost \in Nat
  BY RegenAssumption, CanvasAssumption
<1>6. costs \in Seq(0..Cost) /\ Len(costs) = N
  <2>1. \A c \in Clip : Nodes[c].cost \in 0..Cost
    BY <1>1, <1>2, <1>5 DEF ClipRow
  <2>2. costs \in [1..N -> 0..Cost]
    BY <2>1 DEF Clip
  <2> QED
    BY <1>5, <2>2
<1>7. Cardinality(toDo) \in 0..N
  <2>1. IsFiniteSet(Clip) /\ Cardinality(Clip) = N
    BY <1>5, FS_Interval DEF Clip
  <2>2. toDo \in SUBSET Clip
    OBVIOUS
  <2> HIDE DEF toDo
  <2> QED
    BY <1>5, <2>1, <2>2, FS_Subset, FS_CardinalityType
<1>8. \A c \in Clip : "regenerate" \in Nodes[c].ops /\ Nodes[c].status # "none"
  BY <1>1, <1>2 DEF ClipRow, Ops, AllOps
<1> HIDE DEF costs, toDo
<1>9. Total(costs) \in 0..(N * Cost)
  BY <1>5, <1>6, TotalBound
<1> QED
  BY <1>4, <1>5, <1>7, <1>8, <1>9

LEMMA CanvasInvariant ==
  CanvasSpec => [](TypeOK /\ PageInv /\ PreviewInv)
BY CanvasIsRegen, RegenTypeCorrect, CanvasInitInv, CanvasTypeStep, PTL DEF CanvasSpec

\* Whatever is regenerated between the selects of a page and however many previews are drawn,
\* the variables of the canvas keep their types, no more thumbnails are drawn than there are
\* permits, every clip on a page can be regenerated, and the summary's costs are those of at
\* most all clips (storyboard_api.py, canvas_node_service.py, storyboard_engine.py).
THEOREM CanvasTypeCorrect ==
  CanvasSpec => []CanvasTypeOK
<1>1. PageInv /\ PreviewInv => CanvasTypeOK
  <2> SUFFICES ASSUME PageInv, PreviewInv PROVE CanvasTypeOK
    OBVIOUS
  <2>1. /\ page.at \in {"none", "clips", "frames", "answered", "in_memory", "missing"}
        /\ page.framed \in BOOLEAN
    BY DEF PageInv
  <2> QED
    BY <2>1, CostsBounded DEF PreviewInv, CanvasTypeOK
<1> QED
  BY <1>1, CanvasInvariant, PTL

\* With one worker a page that was asked for with its frames has every video its clips had
\* before the one it shows, wherever commits fall between its selects: what a clip had is in
\* the archive when its row is read, nothing leaves the archive, and the archive is read later.
THEOREM AlwaysPageHasHistory ==
  ASSUME Workers = 1
  PROVE  CanvasSpec => []PageHasHistory
<1>1. CanvasSpec => []EveryVideoArchived
  BY CanvasIsRegen, AlwaysEveryVideoArchived, PTL
<1>2. HistoryInv => PageHasHistory
  BY DEF HistoryInv
<1> QED
  BY <1>1, <1>2, CanvasInvariant, CanvasInitInv, HistoryStep, PTL DEF CanvasSpec
=============================================================================
