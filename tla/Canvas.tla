-------------------------------- MODULE Canvas --------------------------------
(***************************************************************************)
(* What the web canvas asks of a storyboard (api/storyboard_api.py), while *)
(* the regenerations of RegenJob go on.                                    *)
(*                                                                         *)
(* GET reads the storyboard, its clips and (if asked to) their frames with *)
(* one select each, in a transaction that is READ COMMITTED: a commit may  *)
(* fall between two of them.  Nodes and costs are built from what was read *)
(* (canvas_node_service.py).  A plan the database does not have is looked  *)
(* up among those registered in memory; only those have a preview, which   *)
(* draws a thumbnail of every shot, some at a time (storyboard_engine.py). *)
(***************************************************************************)
EXTENDS RegenJob, Sums

CONSTANTS
  Shots,        \* shots of the plan that is registered in memory
  Permits,      \* max_concurrency
  FirstFrames,  \* clips with a FrameAsset of kind "first"
  Cost          \* _estimate_clip_cost, in fen

ASSUME CanvasAssumption ==
  /\ IsFiniteSet(Shots) /\ Permits \in Nat \ {0} /\ FirstFrames \subseteq Clip
  /\ Cost \in Nat

VARIABLES
  page,        \* the GET: where it is, whether frames were asked for, what it has read
  registered,  \* _STORYBOARD_STORE has the plan
  preview,     \* the POST: "none", "running", "answered", "missing"
  thumb        \* its thumbnails, by shot

canvas     == <<page, registered, preview, thumb>>
canvasVars == <<vars, canvas>>

Unread   == [at |-> "none", framed |-> FALSE, clips |-> <<>>, frames |-> <<>>, before |-> <<>>]
NoThumbs == [s \in Shots |-> "none"]

CanvasInit ==
  /\ Init
  /\ page = Unread /\ registered = FALSE
  /\ preview = "none" /\ thumb = NoThumbs

---------------------------------------------------------------------------
(* build_clip_node_data and build_cost_summary, on the rows that were read.*)

\* _default_ops_for_status: the buttons of a clip.
AllOps == {"continue", "regenerate", "replace_first", "replace_tail", "edit_prompt", "cancel"}
FailedIsFinal(s) ==   \* mutant: a failed clip can only be edited
  CASE s = "locked" -> {"regenerate", "cancel"}
    [] s \in {"cancelled", "failed"} -> {"edit_prompt"}
    [] OTHER -> AllOps
Ops(s) ==
  CASE s = "locked" -> {"regenerate", "cancel"}
    [] s \in {"cancelled", "failed"} -> {"regenerate", "edit_prompt"}
    [] OTHER -> AllOps

\* The first frame's url comes from the assets, and those only if they were asked for.
\* duration_ms is empty until a regeneration writes the time that it took.
Node(c, r, framed) ==
  [seq |-> c, video |-> r.video, status |-> r.status, ops |-> Ops(r.status),
   first |-> framed /\ c \in FirstFrames,
   actual |-> IF r.version = 1 THEN "target" ELSE "elapsed",
   cost |-> r.cost]

\* Clips to generate yet are those pending and dirty; 60 fen each.
Summary(nodes) ==
  [total |-> Total([c \in DOMAIN nodes |-> nodes[c].cost]),
   remaining |-> 60 * Cardinality({c \in DOMAIN nodes : nodes[c].status \in {"pending", "dirty"}})]

---------------------------------------------------------------------------
(* get_storyboard                                                          *)

ClipRows ==
  [c \in Clip |-> [video |-> video[c], status |-> status[c], version |-> version[c],
                   cost |-> IF version[c] = 1 THEN 0 ELSE Cost]]

\* The select that follows the one on storyboards, and the one that follows that.
FramesFirst == <<"frames", "clips">>   \* mutant: the assets are read before the rows
Selects == <<"clips", "frames">>

\* select(Storyboard); without a row the store answers, or 404.
Get(inDb, framed) ==
  /\ page.at \in {"none", "answered", "in_memory", "missing"}
  /\ page' = [Unread EXCEPT !.framed = framed,
                            !.at = IF inDb THEN Selects[1]
                                   ELSE IF registered THEN "in_memory" ELSE "missing"]
  /\ UNCHANGED <<registered, preview, thumb>>

After(select) == IF select = Selects[1] THEN Selects[2] ELSE "answered"

SelectClips ==
  /\ page.at = "clips"
  /\ page' = [page EXCEPT !.at = After("clips"), !.clips = ClipRows, !.before = replaced]
  /\ UNCHANGED <<registered, preview, thumb>>

SelectFrames ==
  /\ page.at = "frames"
  /\ page' = [page EXCEPT !.at = After("frames"),
                          !.frames = IF page.framed THEN archived ELSE [c \in Clip |-> {}]]
  /\ UNCHANGED <<registered, preview, thumb>>

\* The response, when both have been read.
Nodes == [c \in Clip |-> Node(c, page.clips[c], page.framed)]
CostSummary == Summary(Nodes)

---------------------------------------------------------------------------
(* register_storyboard, which the tests call and nothing else does, and    *)
(* preview_storyboard.                                                     *)

Register ==
  /\ ~registered /\ registered' = TRUE
  /\ UNCHANGED <<page, preview, thumb>>

Preview ==
  /\ preview \in {"none", "answered", "missing"}
  /\ IF registered
     THEN preview' = "running" /\ thumb' = [s \in Shots |-> "waiting"]
     ELSE preview' = "missing" /\ thumb' = NoThumbs
  /\ UNCHANGED <<page, registered>>

Drawing == {s \in Shots : thumb[s] = "drawing"}

\* Shots that have a permit of the semaphore.
KeptByFailures == {s \in Shots : thumb[s] \in {"drawing", "failed"}}   \* mutant: not released
Holders == Drawing

\* `async with semaphore`
Draw(s) ==
  /\ preview = "running" /\ thumb[s] = "waiting" /\ Cardinality(Holders) < Permits
  /\ thumb' = [thumb EXCEPT ![s] = "drawing"]
  /\ UNCHANGED <<page, registered, preview>>

\* An image, an error or the 60 seconds are up: every shot has its result.
Drawn(s) ==
  /\ s \in Drawing
  /\ \E r \in {"ok", "failed"} : thumb' = [thumb EXCEPT ![s] = r]
  /\ UNCHANGED <<page, registered, preview>>

\* asyncio.gather
Answer ==
  /\ preview = "running" /\ \A s \in Shots : thumb[s] \in {"ok", "failed"}
  /\ preview' = "answered"
  /\ UNCHANGED <<page, registered, thumb>>

---------------------------------------------------------------------------
Canvas ==
  \/ \E inDb, framed \in BOOLEAN : Get(inDb, framed)
  \/ SelectClips \/ SelectFrames
  \/ Register \/ Preview
  \/ (\E s \in Shots : Draw(s) \/ Drawn(s)) \/ Answer

CanvasNext ==
  \/ Next /\ UNCHANGED canvas
  \/ Canvas /\ UNCHANGED vars

\* A generation ends by its timeout at the latest; the event loop runs what is ready.
CanvasSpec ==
  /\ CanvasInit /\ [][CanvasNext]_canvasVars
  /\ WF_canvasVars(((\E s \in Shots : Draw(s) \/ Drawn(s)) \/ Answer) /\ UNCHANGED vars)

---------------------------------------------------------------------------
CanvasTypeOK ==
  /\ page.at \in {"none", "clips", "frames", "answered", "in_memory", "missing"}
  /\ page.framed \in BOOLEAN /\ registered \in BOOLEAN
  /\ preview \in {"none", "running", "answered", "missing"}
  /\ thumb \in [Shots -> {"none", "waiting", "drawing", "ok", "failed"}]
  /\ Cardinality(Drawing) <= Permits
  /\ page.at = "answered" =>
       /\ CostSummary.total \in 0..(N * Cost) /\ CostSummary.remaining \in 0..(60 * N)
       /\ \A c \in Clip : "regenerate" \in Nodes[c].ops /\ Nodes[c].status # "none"

\* A page with frames has every video that its clips had before the one it shows, although
\* regenerations commit between the selects (storyboard_api.py 106-121, regenerate.py 134-167).
PageHasHistory ==
  page.at = "answered" /\ page.framed => \A c \in Clip : page.before[c] \subseteq page.frames[c]

\* A preview of a plan that has shots is answered, with a result for each of them, whatever
\* the image services do: failures and timeouts give their permits back.
PreviewAnswered == preview = "running" ~> preview = "answered"
===============================================================================
