# A verification project for the short-video pipeline

TLA+ models of the pipeline's stateful parts, checked with TLC on small instances, and
theorems about them proved with TLAPS. File names are relative to the repository's root.

## 1. The system

A user of a Feishu chat sends a topic, or picks one from a list of trending ones. The service
writes scripts with language models, evaluates them into plans, and asks for a confirmation. A
confirmed plan is produced clip by clip: each clip is generated by a video service, shown to the
user, and continued, regenerated or cancelled; when the last one is approved the clips are
joined, given a voice, music and captions, scored, and sent. Batches and a daily schedule do the
same in a worker, without a confirmation. A web canvas shows storyboards and regenerates
single clips through a job queue. A Java gateway in front of both routes language-model calls,
submits videos, streams job progress to the browser, limits rates and accounts for usage.

| Part | State | Operations | What is hard | What makes it correct |
|---|---|---|---|---|
| Webhook (`api/webhooks.py`) | `_session_store` per chat (memory), `_sem` (one for the process), the style, skill and character chosen last (one for the process) | a score, a command, a review reply, a confirmation, a chain | a message is routed before its task has the semaphore; background tasks; repeated events; restarts | a reply acts on what its author saw; the semaphore is always released |
| Chains and topics (`layers/L1_trending`, `layers/L2_creative/chains.py`) | lists of a chat, its last script and evaluation | fetch, recommend, write, review, evaluate, save | chains without the semaphore beside those with it | a confirmation takes the plan that was shown last |
| Clip review (`api/webhooks.py`) | the review dict: clip statuses, current index, `clip_paths`, `prev_tail_frame`; files | confirm, generate, continue, regenerate, cancel, finalize | every step can fail after half its effects | the video consists of the approved takes in order |
| Clip generation (`layers/L3_visual`) | the task at the provider, the picture, the last frame kept | fit a prompt, draw, submit, poll, inspect, cut the last frame | paid work that is lost, retries, values the provider refuses | one payment per clip; clips that continue each other |
| Finalization (`layers/L4_audio`, `layers/L5_postprod`, `layers/L7_optimization`) | the voice, the film, the captions, the scores | speak, mix, compare, rescue, caption, judge, send | partial answers, failed measurements, thresholds, units of time | little of voice and pictures is lost; captions stand under their clips |
| Generation sessions (`layers/L2_creative/generation_session.py`) | table `generation_sessions` | create, lock, update, emit | best effort: the program goes on without it | a row is completed only for a video that was sent |
| Scores and creator memory (`layers/L2_creative/rating_service.py`) | `final_score`, `creator_memory` | `record_final_score`, `propose_memory_from_session` | two transactions and a pending id in between | one memory per completed session |
| Long-term memory (`core/dreaming_scheduler.py`) | `video_metrics`, proposals in Redis, a file | figures, proposals, approval; replies to reviews | read-modify-write at awaits; two writers | a rule comes from an approval or from one reply |
| Regeneration API (`api/clip_api.py`) | table `jobs` | check, enqueue, insert; poll | three steps, a worker in between | a job that can be polled to its end |
| ARQ worker (`core/scheduler.py`) | Redis queue and settings, table `jobs`, its own `_session_store` | `task_regenerate_clip`, `task_generate_video`, `task_daily_batch`, `task_fetch_trending` | retries after a crash, cancellation at `job_timeout`, a memory that other jobs left | a row tells what happened; every job ends |
| Regeneration (`layers/L3_visual/regenerate.py`) | tables `clips`, `frame_assets` | `regenerate_clip` | minutes between the read and the write | no video lost, no dirty mark overwritten |
| Storyboards, canvas (`api/storyboard_api.py`, `layers/L2_creative/canvas_node_service.py`) | tables `storyboards`, `clips`; a store in memory | read, map to nodes, preview | commits between the selects; permits that must come back | a page has the whole past of its clips |
| Gateway (`gateway/`) | failure counters, breakers, limiters, streams, caches | route, submit, poll, admit, account | concurrent requests, reconnection, time zones | limits kept, every call counted once |

They interact by calls (webhook to review to rows, finalization to the speech service), by
shared memory (`_session_store`, `_sem`), by a queue (API to worker), by tables (`jobs` is
written by the API and the worker and read by the API and the gateway), by Redis keys (settings,
proposals), and by messages to and from the user. `PROJECT.json` lists every part with its
status, and the hazards of each at their lines.

## 2. Modules

| Module | Stands for |
|---|---|
| `ClipReview` | routing of a chat under review, the semaphore, confirmation, review, sessions, scores |
| `ApprovalProtocol` | what the review promises, without its mechanism |
| `Studio` | the commands, chains, lists, batches and jobs around a video; EXTENDS `LongTermMemory` |
| `LongTermMemory` | figures, proposals, approvals, the file of rules and its two writers |
| `ClipMaking` | the clips of one storyboard, generated one after another; EXTENDS `VisualPrompt` |
| `VisualPrompt` | what becomes of a prompt before it is submitted: anchors, notes, guard, fitting (operators) |
| `Finishing` | from approved clips to the video that is sent; EXTENDS `Quality` |
| `Quality` | the two scores of a film (operators); EXTENDS `Captions` |
| `Captions` | where captions and lines of words stand (operators) |
| `RegenJob` | regeneration: API, queue, worker, clips |
| `Canvas` | what the web canvas reads while regenerations go on; EXTENDS `RegenJob` |
| `Sums`, `Orders` | the sum of a sequence, for durations, characters and costs; a set in an order (operators) |
| `ClipReviewProofs`, `ClipReviewWaiting`, `StudioProofs`, `ClipMakingProofs`, `FinishingProofs`, `RegenJobProofs`, `CanvasProofs` | theorems about the modules they are named for |
| `DataProofs` | lemmas: induction over numbers, recursion; what a sum is, and how large; what a set in an order is |
| `MC...` | roots of the TLC runs, with the values of constants that a cfg cannot write |

A video passes through `Studio` (a plan is shown and confirmed), `ClipReview` (its clips are
approved; a generation is one step there, a finalization three), `ClipMaking` (what that one
step does, and the chain of clips from one last frame to the next picture, with each clip as its
last call left it) and `Finishing` (what the finalization does).
Each treats its neighbours as steps that end in any of their outcomes.

### ClipReview

*State.* `evaluated`, `gsid`, `pending`, `scoreFor` are the keys of one chat's
`_session_store` entry; `gs`, `finalScore`, `memory` the rows; `clip`, `cur`, `paths`,
`tail` the review dict (`enriched_clips[i]["status"]`, `current_index + 1`, `clip_paths`,
`prev_tail_frame`). Reviews are numbered by confirmation; `pending` is the number of the
dict that is stored. `take` counts how often a clip's file was written: a file is named by
its clip, so a path says nothing of its content. `accepted` are background tasks of a
response that has not been sent, `waiting` those queued on `_sem`, `task`, `pc`, `rid`,
`idx` the task that holds it. `shown`, `frame`, `approved`, `sent`, `lost` are history.

*Steps.* A step ends where the code awaits something another message can overtake and the
difference can be seen. `Receive` is `webhook()` up to `bg.add_task`, with the test of
`_sem.locked()`; `StartTask` is `async with _sem`. The holder of the semaphore then runs
`_handle_confirm` (`ConfirmPlan`, `ConfirmPrepared`), `_start_or_resume_visual_clip_review`
(`GenerateClip`), `_handle_visual_clip_review` (`ReviewCancel`, `ReviewRegenerate`,
`ReviewContinue`, `ReviewLast`) and `_finalize_after_visual_clips` (`FinalizeSend`,
`FinalizeClose`, `FinalizeReport`). Score replies and topic digits run without the semaphore, as
in the code; `ScoreReply` and `FinishScore` are the two transactions. `Restart` empties the
memory and leaves rows and files.

*Messages* are a small set of texts; `ScoreOf`, `ActionOf` and `Destination` say what the two
parsers and the routing make of each, for one text per class the code tells apart.
`SelectTopic` covers `_handle_topic_select` with or without a list to choose from.

*Failures* are named in `Faults`, at the places where the code can raise or falls back:
creating or updating the session row, generating a clip, extracting its last frame, sending a
message, joining, drift without a rescue, recording a score, and the end of the process.
`Fault(f)` counts them; `MaxFaults` bounds them.

### ApprovalProtocol

A review is idle, open or closed; its clips are approved one after the other, the last
approval can be withdrawn, the video is delivered while the review is open with every clip
approved, and a closed review never changes. `ClipReview` implements it under the mapping in
`Protocol`: a review is open while it is the chat's pending one or the task that holds the
semaphore works on it. That includes failures, restarts and a second confirmation that
replaces a pending review.

### RegenJob

*State.* `status`, `version`, `video`, `archived` are the clips of one storyboard (a video is
named by the version it was made for); `row` the jobs table, `target` whether the row has its
`target_id` (a row that the worker inserted has none); `api` and `want` the requests; `queue`
and `step` ARQ and the coroutine of a job; `seen` what its first read of the table returned;
`old` the `old_video_url` it has read. `replaced`, `committed`, `unsaved` (the update that
follows the commit failed), `upstream`, `started`, `basis` are history.

*Steps.* `Check`, `Enqueue`, `Insert` are the request's three transactions. `FirstRead` and
`FirstWrite` are `_upsert_job_status` before the `try`, in two steps since the API inserts the
same row; the later calls are one step each, only the job's own coroutine still writes the
row. `Load`, `Generate`, `Commit` are `regenerate_clip`, `Updated`, `Finish`, `Fail` the rest
of `task_regenerate_clip`. `Timeout` and `Crash` are ARQ's: cancellation at `job_timeout`
ends a job with nobody told (`"cancelled"`), the loss of a worker lets it run again, passed
over until its in-progress key has expired.

### Studio and LongTermMemory

*State.* `session[p][c]` is the entry of chat `c` in the `_session_store` of process `p`: the API
and the worker each have one. `now` holds `_current_style`, `_current_skill`,
`_current_character`; `hot` the table of topics; `sem` the API's semaphore (the worker's
is never contended: it runs one job at a time); `task` a handler per command and a job per
number, with its step; `queue`, `row` ARQ and the `jobs` table; `runtime` the keys of Redis.
`pending` and `memory` are the proposals in Redis and the file (a sequence: a rule may be in it
twice); `ask` the handlers about them. A rule is named by the proposal it was, or by the reply it
was made of (`ReviewRule`). `sent`, `beside`, `made`, `shown`, `named` are history.

*Steps.* A command is routed in one step and its handler, a background task, takes one step per
await that another task can overtake: the semaphore (`Enter`), the calls of a chain (`Watch`,
`Write`, `Review`, `Evaluate`, `Save`), each job it enqueues (`Enqueues`), each key it writes
(`SetNext`). A topic picked by number (`Number`) runs its chain without the semaphore, as in the
code. A job is `TakeJob`, the same chain steps in the worker's own memory, `TakePlan` and
`Report`; a daily batch reads its three settings one by one. `Dream`, `Propose`, `Show`,
`Approve`, `Read`, `AppendRule` and `WriteBack` are the two handlers of the memory.

A chat under review is in `Studio` by `reviewing` alone: its text is a reply (`Reply`), whose
handler takes the semaphore, looks whether the review is still there and the reply can be read,
appends a rule (`TakeReply`, `RememberReview`: the second writer of the file, with no proposal
and no approval) and then acts (`ActOnReply`); what it does to the clips is `ClipReview`'s.
A behaviour starts with any of `StartPlans` under review or with none, as a chat is after some
hours: from an empty session two commands would not reach a reply.

*Failures* (`Faults`): a model, a parse or a message in a chain, a confirmation, the timeout of
a job, the end of either process. A worker that ends loses its memory and its job runs again.

### ClipMaking and VisualPrompt

*State.* The clip being made, with its prompt in the storyboard, the anchors and the notes that are
put into it, its picture (`frame`: a clip whose last frame it is, or one of its own), its camera, the
reference modes that are left, the attempts, the time waited, and what was paid; `tail` is
`prev_tail_frame`, `made` the clips done. Times are milliseconds.

*Steps.* `StartClip` is `_start_or_resume_visual_clip_review` up to its call of `generate_clip`. Then
one per call to the provider or to a local tool: `SubmitPicture`, `PollPicture`, `ScorePicture`,
`InspectPicture`, `SubmitVideo`, `PollVideo`, `WatchVideo`. Each has every outcome that call can have:
accepted, refused for a reference mode or a camera, raised, not ready yet. `KeepTail` is the end of
`_handle_visual_clip_review`, with every combination of outcomes of the three ffmpeg strategies. What
the user answers in between is `ClipReview`'s; here each clip is made by its last call, and an error
ends the sequence. `generate_clip_sequence`, which does nearly the same in one loop, is imported by
`api/webhooks.py` and never called: it is not what is modelled.

*Prompts* are sequences of segments with a length, a rank (which of the source's patterns for
"give up first" and "keep" it matches) and whether they say what the sanitiser takes for a guard
(`textFree`), and a guard. `FitVisualPrompt`, `Sanitized` and `Stronger` follow the source's loops;
that the guard's words are themselves replaced when a prompt is sanitised again is `Residue`. A
prompt's way is `Stored` (sanitised by `_handle_confirm`; for every clip after the first the anchors
are put into it by `inject_anchors_into_prompt`, the scene in front: `Anchored`; each revision appends
its note: `Extended`) and then `VideoPrompt` or `PicturePrompt` (with the style's words behind, and
sanitised again by `generate_clip`). Not followed: how a replacement changes the length of a
segment it does not remove; commas of a character's description, which would divide its segment; a
description that is there already and is not put in again; and, once a prompt has had two guards, which
of their garbled words are said twice.

### Finishing, Captions and Quality

*State.* `film` is `mixed_path` by what the properties tell apart: the length of its pictures,
what was cut off them and off the voice, and whether voice and music can be heard. `voice`,
`sounds`, `stream` are the voice file, the effects and the session with the speech service.
Times are tenths of a second, in captions hundredths, in words milliseconds.

*Steps.* `Join`; the frames of the speech service one by one, which may stop at any of them
(`SpeechFails`, `SpeechEnds`); `ChooseSounds` and `Mix`; `Compare`; one step per rescue strategy,
each with its four or five measurements, any of which may give nothing; `Refuse`; `Caption`,
`MakeCover`, `Judge`, `SendFilm`. `blind` remembers that a measurement failed.

*Operators.* `Captions` has the captions of a plan, of a text without a plan, the units of word
times, their stretching to a film and their grouping into lines; `Quality` the weights, bounds,
deductions and rounding of the two scores.

### Canvas

`Get`, `SelectClips` and `SelectFrames` are the selects of one GET, in between which any step
of `RegenJob` may commit. `Node`, `Ops` and `Summary` build the page. `Preview`, `Draw`, `Drawn`
and `Answer` are `batch_generate_thumbnails` with its semaphore. `Register` stands for
`register_storyboard`, which only the tests call.

## 3. Runs

| Run | Question | Bounds |
|---|---|---|
| `ClipReviewOne` | what is approved is what is sent; refinement of `ApprovalProtocol` | 1 plan of 3 clips, 2 tasks, 1 revision, any 1 failure |
| `ClipReviewTwo` | the same with a second plan that overtakes the first; the semaphore is free again and again | 2 plans of 2 clips, 2 tasks, 1 revision, any 1 failure |
| `ClipReviewSpaced` | a chat that waits: approvals, rows, memories, first frames | 2 plans of 2 clips, 1 task, 1 revision, 2 of 6 failures |
| `StudioOne` | the plan that a confirmation takes, where the rules in the memory come from, the end of every job | 1 chat with or without a review, 2 topics, 2 commands of any kind, 2 jobs, any 1 failure |
| `ClipMakingChain` | payments, continuity, cameras and prompts of a sequence; it ends | 3 clips, 4 cameras, 2 prompts, 3 sets of anchors, 3 notes, every answer of the provider |
| `FinishingOne` | what a film loses, what is refused, captions and lines; it ends | 4 storyboards, 10 drifts, 3 answers of the speech service, 3 sets of effects, every failure |
| `RegenJobOne` | archive, dirty marks, the truth of final rows, progress; every enqueued job ends | 2 requests, 3 clips, any 1 failure, the timeout and a crash included |
| `CanvasOne` | pages read while a clip is replaced; a preview is answered | 1 request, 2 clips, 1 failure of generation or worker, 2 shots, 1 permit |

*Why the bounds are enough.* Three clips are the least with a first, a middle and a last one,
and the least where "the later clips" differs from "the next one". Two tasks are the least
that overtake each other, two plans the least where one chat's keys belong to another plan. One
revision makes a take differ from an earlier one. Two commands are the least that interleave,
two jobs the least where one finds what another left, two topics the least where a plan is not
the only one. The drifts of `FinishingOne` lie on both sides of every threshold (1.2, 3, 8
and 15 s, both signs); its storyboards have clips with and without text, and none with text at all;
its words are in milliseconds and in seconds, repeated, and one that outlasts the last. The prompts
of `ClipMakingChain` are one that gives up segments and one that is cut; its anchors none, a scene,
and a scene whose last words run on into the prompt, with a character; its notes none, one asked
for twice, and one that says "text-free". The cameras have missing, negative and too large numbers
and an unknown name.
`Text` and `Faults` of each cfg are the ones its properties can depend on; across the passing runs
every message and every failure occurs.

`CHECK_DEADLOCK FALSE` stands in each cfg but `CanvasOne`'s, where a page can always be asked for:
elsewhere a chat may fall silent, a film is finished, and the bounds stop requests.

*Properties.* The comments above the definitions state them.

- `ReviewedInOrder`, `LockedTakeKept`, `SentIsApproved` and `CompleteUnlessLost` hold under any
  interleaving, with repeated messages and any failure. Those of `ClipReviewSpaced` hold only for
  a chat with one accepted task at a time; `ChainFrame` needs generations that do not fail,
  `OneMemoryPerSession` answers that can be sent, `MemoryOnlyFromCompleted` a session row that
  could be created.
- `RulesComeFromPeople` is what is left of the promise that every rule is approved
  (`OnlyApprovedRules`, which does not hold: see below). What it excludes is a rule that nobody's act
  stands behind and two rules of one reply; that approvals and new proposals overwrite each other in
  Redis, so that a proposal is lost, comes back or is appended twice, it does not exclude.
- `RowTellsTruth` speaks of jobs that found the row the API wrote. A database error after the commit
  has a replaced clip reported as failed, a timeout leaves the row as it was: the first is in its
  statement (`unsaved`), the second excepted (`EndedJobsReported` does not hold).
- `PromptFits` says what a prompt begins with, not all that is left of it: behind a long scene the
  storyboard's own words may be what is given up or cut. Words that say "text-free" where no
  replacement finds them, beside a Chinese character for instance, keep the guard away altogether
  (`GuardFor`), and the property says just that (`SaysTextFree`).
- `LinesFitFilm` is about `burn_captions_from_word_timestamps`, which `api/webhooks.py` imports
  and never calls: the finishing burns its captions with `burn_captions`. What of it bears on the
  program is the repair of the voice's word times.
- `PlanWasShownLast` holds because the semaphore keeps two chains of a chat apart; a topic picked
  by number takes none, and the property excepts chats where one ran beside another chain.
- `PaidOnce` holds because the guard against text only logs (`_TEXT_ARTIFACT_GUARD_BLOCKING` is
  false): its mutant switches the guard on, and clips are paid for twice.
- `CutIsSmall` speaks of films whose measurements succeeded: a length that `ffprobe` cannot tell
  counts as no drift, in the comparison and in the verification of a rescue. `RefusedForReason` is
  its converse up to eight seconds; beyond that the code does not try speed or standing pictures.
- `CaptionUnderItsClip` stops at the first clip without text, whose seconds the captions skip.
- `EveryVideoArchived` and `DirtyNotLost` hold because one worker runs one job at a time
  (`max_jobs = 1`; one replica in `docker-compose.yaml` and `kubernetes/`): their mutant starts
  jobs side by side and breaks the first. `PageHasHistory` holds because the rows are read before
  the assets: in the other order a commit in between takes a video from the page.

*Fairness.* `ClipReview`: the event loop runs a background task that was added, and the holder
of the semaphore goes on, since each of its awaits returns or raises; nobody is obliged to send a
message. `RegenJob` and `Studio`: a coroutine goes on, a free worker takes a job (in `RegenJob` a
request that passed the check goes on as well). `ClipMaking` and `Finishing`: the one coroutine goes
on; every poll is bounded by its limit in the code (180 s, 600 s), a session with the speech
service by its timeout. `Canvas`: a thumbnail ends by its 60 seconds. Nothing is assumed of faults,
nor of strong fairness.

### Disagreements of code and documentation

Four are runs that expect a violation, with a finding in `PROJECT.json`.

| Run | What happens |
|---|---|
| `ClipReviewQuickReplies` | two quick "continue" approve a clip nobody has seen |
| `StudioJob` | a job whose script is refused makes the video of an earlier job |
| `StudioMemory` | a reply to a review appends a rule that nobody was shown or named, to a memory whose rules must pass human approval first |
| `FinishingMusic` | with music the mix fails: the film is silent, the summary tells of voice and music |

More follow from the models without a run of their own.

- Stated as definitions that do not hold, to be added to the cfg of a neighbouring run:
  `RepliesReachReview` (`ClipReview`: the reply "1" that the preview asks for selects a topic),
  `OneJobPerClip` (`RegenJob`: two requests pass the check for an active job together, although
  clip_api.py:74 is there to prevent it), `AcceptedJobSettles` (the worker's insert collides
  with the API's, the accepted job stays "queued"), `EndedJobsReported` (with the fault `"timeout"`:
  a job that timed out stays "running", its clip answers 409).
- `MemoryOnlyFromCompleted` with the fault `"gs_create"`: without a row of its own a plan is written
  to the row of the previous one. `ChainFrame` with the fault `"generate"`: a revision after a failed
  generation starts from the clip's own last frame.
- While a score is asked for, "confirm 2" is recorded as the score 2 (`ScoreOf`, `Destination`); a
  score that is still being recorded when the next video is finished takes the prompt of that
  one (`FinishScore`).
- `quality_gate.py` says that a film below 70 is held back, and `critic_engine.py` that a poor one is
  made again; `Judge` shows what the finalization does: it stores the score and sends the film.
- A storyboard's push-in without a zoom stands still: the clamp writes 0 where the provider's
  table would have taken its default of 5 (`StoryboardCamera`, `ProviderCamera`).
- "每天 09:00" is told to whoever switches the schedule on; the worker's `cron_jobs` is empty.
- A page gives the time a regeneration took as the clip's duration (`Node`, `actual`).

## 4. Proofs

Each theorem holds for every value of the constants that satisfies the assumptions its module
names, under the hypotheses of the table. Each is proved from an inductive invariant, which says
what holds in the middle of a step as well: one lemma per action or group of actions, one step
below it per part of the invariant that the action disturbs, and a last temporal step.

| Module | Theorem | Hypotheses | Inductive invariant |
|---|---|---|---|
| `ClipReviewProofs` | `TypeCorrect` | | `TypeOK` |
| | `AlwaysReviewedInOrder`, `AlwaysLockedTakeKept`, `AlwaysSentIsApproved` | | `OrderInv` |
| | `ReviewImplementsProtocol` | | `RefInv` |
| | `AlwaysCompleteUnlessLost` | | `FilesInv` |
| `ClipReviewWaiting` | `AlwaysChainFrame` | generations and messages do not fail | `ChainInv` |
| | `AlwaysApprovedWasShown` | the chat waits, messages do not fail | `SeenInv` |
| | `AlwaysOpenSessionReachable` | the chat waits | `ReachInv` |
| | `AlwaysCompletedWasSent` | the chat waits, rows can be created | `CompletedInv` |
| | `AlwaysMemoryOnlyFromCompleted` | the chat waits, rows can be created | `ScoredInv` |
| | `AlwaysOneMemoryPerSession` | the same, and messages do not fail | `OnceInv` |
| `RegenJobProofs` | `RegenTypeCorrect` | | `TypeOK` |
| | `AlwaysProgressGrows` | | `RowKeepsUp` |
| | `AlwaysRowTellsTruth` | | `OnceInArq`, `RowKeepsUp`, `CommitKnown` |
| | `AlwaysDirtyNotLost`, `AlwaysEveryVideoArchived` | one worker | `OneBusy`, `ReadsFresh` |
| `CanvasProofs` | `CanvasTypeCorrect` | | `TypeOK`, `PageInv`, `PreviewInv` |
| | `AlwaysPageHasHistory` | one worker | these, `HistoryInv`, `EveryVideoArchived` |
| `StudioProofs` | `StudioTypeCorrect` | | `TypeInv` |
| | `AlwaysRulesComeFromPeople` | | `MemInv`, `TypeInv`, `ShownInv`, `RulesOfReplies` |
| | `AlwaysPlanWasShownLast` | | `TypeInv`, `ShownInv` |
| `ClipMakingProofs` | `ClipMakingTypeCorrect`, `AlwaysPaidOnce`, `AlwaysChainKept`, `AlwaysCameraAsDirected` | | `ClipsInv` |
| | `AlwaysPromptFits` | | `PromptInv` |
| `FinishingProofs` | `AlwaysCutIsSmall`, `AlwaysRefusedForReason` | | `FinishInv` |
| | `AlwaysCaptionUnderItsClip`, `AlwaysLinesFitFilm` | | `FinishInv` |
| | `FinishingTypeCorrect` | | `FinishInv`, `ScoreInv` |

*Hypotheses.* Those on `Faults` and `MaxQueue` are needed: without each of them the code does
otherwise. After a failed generation the tail frame is the clip's own. Two quick replies lock a clip
nobody saw (`ClipReviewQuickReplies`), two quick confirmations leave the first plan's row open, two
score replies at once are both recorded. A plan whose row could not be created is written to the
row of the one before. An answer to a score that cannot be sent leaves the question open. With two
workers a commit takes a dirty mark or a video with it.

*Assumptions on constants* say what the data of the program are: bounds are naturals, there is a
clip, a worker and a permit (`BoundsAssumption`, `RegenAssumption`, `CanvasAssumption`,
`ClipsAssumption`); counts are integers of any sign, skills name styles, there are finitely many topics and a plan under
review is one (`StudioAssumption`); cameras
have any numbers and any name (`CamerasAssumption`); a prompt is not empty, since a clip without one
has its scene's words (`PromptsAssumption`; without a prompt nothing forbids text),
its segments' texts include those the code adds (`TextsAssumption`), and the limit leaves room for the
guard (`MaxLenAssumption`; it is 2400); drifts are integers, storyboards have clips
(`DriftsAssumption`, `BoardsAssumption`), effects have naturals (`EffectsAssumption`). A clip has at
most 500 captions (`ShortTextsAssumption`): `schemas.py:92` allows its narration 200 characters, and
with more captions than its five seconds have hundredths one would stand for no time. The speech
service lets no word end before it starts (`RawWordsAssumption`); the program does not look. Points
of an answer are integers of any size (`AnswersAssumption`).

*The arguments.*

- `ClipReview`. `TypeOK` needs `WorkType`, which ties a step to a review and a clip: without it
  `EXCEPT ![rid]` is of no type. `OrderInv` adds what holds in the middle of a task: the clip to be
  generated is the current one (after a revision, then it is dirty) or the next one (after an
  approval, then the current one is locked); a review in finalization has all its clips locked; a
  plan that was not confirmed is untouched. `RefInv` adds that a task that has not reached its review
  works on none, so that a review is open exactly while it is pending or worked on: with the
  mapping of `ImplementsProtocol` every step is then one of the protocol or a stutter. `FilesInv`
  shares the clips out between the list of files and those lost.
- A chat that waits. `OneTask` (nothing is queued while a task runs) and `OnePlan` (a confirmation
  runs while no review is pending) give `OwnSession`: the id in the session store is that of the
  plan at work. What is completed, scored and remembered follows in that order.
- `RegenJob`. A job is in ARQ's queue at most once and never while a coroutine has it (`OnceInArq`:
  otherwise a second run could reset what the first has committed); a coroutine past its first
  write has a row (`RowKeepsUp`); only the present run counts a commit (`CommitKnown`); with one
  worker what `Load` has read is still so at `Commit` (`ReadsFresh`).
- `Canvas`. Between the two selects a page has only videos that were archived before it looked, the
  archive only grows, and it is read after the rows. The bound on the summary's costs is a sum of
  as many costs as there are clips (`TotalBound`).
- `Studio`. A proposal has an id of its own, an approval the id it was sent, and what is named was
  shown: two handlers that have read the same proposals cannot add a third (`MemInv`). A reply's
  handler that has not acted yet has left no rule, so that the one it leaves is its only one
  (`RulesOfReplies`). A chain past
  `Enter` holds the semaphore of its process from its first message to the plan it saves, and a
  chain that ends early leaves the plan and what was sent as they were (`ShownInv`).
- `ClipMaking`. What was paid, and where the picture comes from, is tied to the place in the
  sequence of calls: nothing leads back to a submission that was accepted (`ChainInv`). Each clip
  done has the frame of the one before it or a picture of its own (`MadeInv`). A prompt: the places in
  the order in which they are given up are all but the first, each once (`GivenUpOnce`), so that
  without k of them all but k segments are left and the first leads (`WithoutKept`); the least number
  that is enough fits or leaves one segment (`ShortenedFits`), which is cut to what the guard leaves
  (`CutHeadFits`; without a guard `CutFits`). Sanitising again, putting anchors in front and words
  behind, or asking more firmly, starts from a prompt of that kind. Each of these lemmas is stated for
  two kinds of segments, all (`Segment`) and those that say nothing like a guard (`Quiet`): the first
  gives the length and the beginning, the second that the guard is there unless a word kept it away.
- `Finishing`. Until a rescue the film is the mix of the pictures and the voice, and what is cut off is
  their difference (`FilmInv`). A film leaves by a verified rescue or a comparison within 1.2 s. A
  refusal after which nothing is left to try has tried a standing picture (`TriedInv`), and when the
  computed speed and seconds do not help, none in their limits do (`NoOtherHelps`: integer division
  falls with its divisor, and the computed speed is exact unless it is at a limit).
- *Captions.* What a clip's captions are is a fold over its text; they are counted and put one after
  another (`Flattened`, `PartsGrow`), and shares of a clip rounded down still grow (`ClipCaptionsFit`).
  The list of the plan grows clip by clip, each part after the one before (`FollowedBy`,
  `PlanCaptionsFit`), and the cursor of a clip is its start in the film as long as no clip before it
  was skipped (`CursorIsStart`). `BoardInv` says that the plan has clips with durations.
- *Lines.* `WordTimestamps` sorts (`WordsInOrder`), so that a voice's words start in order, whichever
  answer it came from (`TimingsInOrder`). Stretching keeps each word at or after the end of the one
  before it and within the film (`NewTimesFit`, `RetimedFits`). A line runs from one word that
  begins a line to the word before the next such (`LinesByHeads`); what holds of neighbouring words
  holds of any two (`OneByOneApart`), hence of lines (`LinesInOrder`).
- *Scores.* The vision's five points are bounded one by one and their weights add up to 100
  (`HundredPoints`, `VisionRange`); the text's total is bounded once, and the deductions come after,
  at most 25 points of them (`ContentRange`): a text's recorded score may be negative, never below -25.
- `Sums`, `Orders`. The provers cannot use the library's theorems of induction, whose parameter is an
  operator. `DataProofs` takes induction over a set of numbers instead (`Counting`, from the theorem
  that a well-founded relation has minimal elements): that a sum exists, is closed under what
  its terms are closed under, and is bounded by their number and size. The same from any number on
  (`CountingFrom`), and that a step function has a sequence of its values (`Recursion`), give what the
  folds of `Captions` compute. The k-th element of a finite set
  in an order is the one that k of them come up to; these numbers are an injection into 1 to the
  set's size, so every place is taken (`PlaceTaken`, `Places`).

*Only model-checked.* Every liveness property (`SemaphoreDrains`, `JobsLeave`, `JobsEnd`,
`SequenceEnds`, `FinishingEnds`, `PreviewAnswered`): the prover handles neither fairness nor
ENABLED. Every safety property of a passing run is a theorem, under the hypotheses above.

## 5. Not modelled

- What models and people write: scripts, prompts word by word, rules, titles; the wording of messages.
- Pixels and samples: what FFmpeg, the video and the speech service produce beyond lengths and presence.
- The gateway (Java): a program of its own. Its stream shows the rows of `RegenJob`; the pipeline calls language models
  and the video service with its own clients. Its hazards are listed.
- `core/state.py`: its state manager is imported by a test and by nothing else. Other code that the
  program does not run is left out as well: `chains_v2.py`, `generate_with_candidates`,
  `generate_clip_sequence`, the
  speech-recognition fallback, other aspect ratios, and the part of `_handle_confirm` after its `return`.
- What the script prompts read of the long-term memory: its first 1800 characters
  (`read_generation_memory`), so that the rules appended last need not reach a model.
- The database schema beyond the columns above; `blocking_for` and `depends_on` are written by nobody.
- Reviews of several chats at once (they share only `_sem`, which one chat with several tasks
  contends for as well); ARQ's `max_tries` (five runs, the faults are bounded below it); other
  writers of a clip's row; the expiry of keys of Redis after 30 days.
- How long a step takes: `lobster_review` blocks the event loop, which only delays the others.

## 6. What is left

Every property above is checked, and every one that is no liveness property is proved. What would
extend the project, in this order:

1. The hazards of `PROJECT.json` that have no property yet, each with its reason there: first the
   schedule's three keys of Redis (webhooks.py:902) and the dirty clip that keeps its old first
   frame (regenerate.py:76), which need state that `Studio` and `RegenJob` leave out.
2. Reviews of several chats at once in `ClipReview`.
3. The gateway's stream and its client, in modules of their own.
