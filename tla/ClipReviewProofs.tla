-------------------------- MODULE ClipReviewProofs --------------------------
(* Theorems of ClipReview, for any number of plans, clips, messages, tasks and     *)
(* failures.                                                                       *)
EXTENDS ClipReview, SequenceTheorems, TLAPS

\* Removing an element from a sequence leaves a sequence over the same set.
LEMMA DropAtType ==
  ASSUME NEW S, NEW s \in Seq(S), NEW k \in DOMAIN s
  PROVE  DropAt(s, k) \in Seq(S)
BY DEF DropAt

LEMMA WithoutType ==
  ASSUME NEW S, NEW s \in Seq(S), NEW x
  PROVE  Without(s, x) \in Seq(S)
<1>1. CASE \E k \in DOMAIN s : s[k] = x
  <2>1. (CHOOSE k \in DOMAIN s : s[k] = x) \in DOMAIN s
    BY <1>1
  <2> QED
    BY <1>1, <2>1, DropAtType DEF Without
<1> QED
  BY <1>1 DEF Without

LEMMA ScoreType ==
  ASSUME NEW t
  PROVE  ScoreOf(t) \in 0..10
BY DEF ScoreOf

LEMMA NoShotType == NoShot \in Shot
BY BoundsAssumption DEF NoShot, Shot

LEMMA NoTaskType == NoTask \in Task
BY NoShotType, BoundsAssumption DEF NoTask, Task

\* Leaving the semaphore frees it or hands it to a waiting task.
LEMMA ReleaseType ==
  ASSUME LockType, Release
  PROVE  LockType' /\ pc' \in {"free", "start"} /\ rid' = 0
<1>1. accepted' = accepted /\ rid' = 0 /\ idx' = 0 /\ 0 \in 0..N /\ 0 \in 0..MaxReviews
  BY BoundsAssumption DEF Release
<1>2. CASE waiting = <<>>
  BY <1>1, <1>2, NoTaskType DEF Release, LockType, Step
<1>3. CASE waiting # <<>>
  <2>1. Head(waiting) \in Task /\ Tail(waiting) \in Seq(Task)
    BY <1>3, HeadTailProperties DEF LockType
  <2> QED
    BY <1>1, <1>3, <2>1 DEF Release, LockType, Step
<1> QED
  BY <1>2, <1>3

\* What a step leaves alone keeps its type.
LEMMA SessionKept == SessionType /\ UNCHANGED session => SessionType'
BY DEF SessionType, session

LEMMA DbKept == DbType /\ UNCHANGED db => DbType'
BY DEF DbType, db

LEMMA ReviewKept == ReviewType /\ UNCHANGED review => ReviewType'
BY DEF ReviewType, review

LEMMA LockKept == LockType /\ UNCHANGED lock => LockType'
BY DEF LockType, lock

LEMMA HistoryKept == HistoryType /\ UNCHANGED history => HistoryType'
BY DEF HistoryType, history

LEMMA FaultsKept ==
  HistoryType /\ UNCHANGED <<shown, frame, approved, sent, lost, regens>>
    /\ faults' \in {faults, faults + 1} => HistoryType'
BY DEF HistoryType

LEMMA TypeInit == Init => TypeOK
<1> SUFFICES ASSUME Init PROVE TypeOK
  OBVIOUS
<1> USE BoundsAssumption
<1>1. DbType /\ evaluated = FALSE
  BY DEF Init, DbType, GsStatus
<1>6. SessionType
  <2>1. gsid \in 0..MaxReviews /\ pending \in 0..MaxReviews /\ scoreFor \in 0..MaxReviews
    BY DEF Init
  <2> QED
    BY <1>1, <2>1, Zenon DEF SessionType
<1>2. ReviewType
  BY NoShotType DEF Init, ReviewType, ClipStatus
<1>3. LockType /\ ScoringType
  BY NoTaskType DEF Init, LockType, ScoringType, Step
<1>4. HistoryType
  BY NoShotType DEF Init, HistoryType, NoVideo
<1>5. WorkType
  BY DEF Init, WorkType
<1> QED
  BY <1>1, <1>2, <1>3, <1>4, <1>5, <1>6 DEF TypeOK

\* A step that leaves the semaphore and the pending review alone needs no more.
LEMMA ReleaseWork ==
  ASSUME WorkType, LockType, Release, UNCHANGED <<pending, cur>>
  PROVE  WorkType'
BY ReleaseType DEF WorkType

LEMMA TypeStep == TypeOK /\ [Next]_vars => TypeOK'
<1> SUFFICES ASSUME TypeOK, [Next]_vars PROVE TypeOK'
  OBVIOUS
<1> USE BoundsAssumption DEF TypeOK
<1>1. ASSUME NEW t \in Text, Receive(t) PROVE TypeOK'
  <2>1. Destination(t) \in {"none", "chain", "confirm", "review"} /\ shown \in (0..MaxReviews) \X Shot
    BY <1>1 DEF Receive, HistoryType
  <2>2. [kind |-> Destination(t), text |-> t, seen |-> shown] \in Task
    BY <2>1 DEF Task
  <2>3. LockType'
    BY <1>1, <2>2 DEF Receive, LockType
  <2>4. HistoryType'
    BY <1>1 DEF Receive, HistoryType
  <2>5. WorkType' /\ ScoringType'
    BY <1>1 DEF Receive, WorkType, ScoringType, session, review
  <2> QED
    BY <1>1, <2>3, <2>4, <2>5, SessionKept, DbKept, ReviewKept DEF Receive
<1>2. ASSUME NEW t \in Text, SelectTopic(t) PROVE TypeOK'
  <2>1. evaluated' \in BOOLEAN
    BY <1>2, Zenon DEF SelectTopic, SessionType
  <2>2. SessionType'
    BY <1>2, <2>1 DEF SelectTopic, SessionType
  <2>3. WorkType' /\ ScoringType'
    BY <1>2 DEF SelectTopic, WorkType, ScoringType, review, lock
  <2> QED
    BY <1>2, <2>2, <2>3, DbKept, ReviewKept, LockKept, HistoryKept DEF SelectTopic
<1>3. ASSUME NEW t \in Text, ScoreReply(t) PROVE TypeOK'
  <2>1. scoreFor \in Review /\ ScoreOf(t) \in 0..10
    BY <1>3, ScoreType DEF ScoreReply, Destination, SessionType, Review
  <2>2. DbType'
    BY <1>3, <2>1 DEF ScoreReply, DbType
  <2>3. ScoringType'
    <3>1. /\ [sid |-> scoreFor, score |-> ScoreOf(t)] \in Scoring
          /\ [sid |-> scoreFor, score |-> 0] \in Scoring
      BY <2>1 DEF Scoring
    <3> QED
      BY <1>3, <3>1 DEF ScoreReply, ScoringType
  <2>4. HistoryType'
    BY <1>3, FaultsKept DEF ScoreReply, NoFault, Fault
  <2>5. WorkType'
    BY <1>3 DEF ScoreReply, WorkType, session, review, lock
  <2> QED
    BY <1>3, <2>2, <2>3, <2>4, <2>5, SessionKept, ReviewKept, LockKept DEF ScoreReply
<1>4. ASSUME NEW k \in DOMAIN scoring, FinishScore(k) PROVE TypeOK'
  <2>1. scoring[k] \in Scoring /\ scoring[k].sid \in Review
    <3>1. scoring[k] \in Scoring
      BY DEF ScoringType
    <3> QED
      BY <3>1 DEF Scoring
  <2>2. memory' \in [Review -> Nat]
    BY <1>4, <2>1 DEF FinishScore, Remember, DbType
  <2>3. DbType'
    BY <1>4, <2>2 DEF FinishScore, Remember, DbType
  <2>4. SessionType'
    BY <1>4 DEF FinishScore, DropPrompt, SessionType
  <2>5. ScoringType'
    BY <1>4, DropAtType DEF FinishScore, ScoringType
  <2>6. HistoryType'
    BY <1>4, FaultsKept DEF FinishScore, NoFault, Fault
  <2>7. WorkType'
    BY <1>4 DEF FinishScore, WorkType, review, lock
  <2> QED
    BY <1>4, <2>3, <2>4, <2>5, <2>6, <2>7, ReviewKept, LockKept DEF FinishScore
<1>5. ASSUME NEW k \in DOMAIN accepted, StartTask(k) PROVE TypeOK'
  <2>1. accepted[k] \in Task /\ DropAt(accepted, k) \in Seq(Task)
    BY DropAtType DEF LockType
  <2>2. LockType'
    <3>1. CASE Locked
      BY <1>5, <2>1, <3>1 DEF StartTask, LockType
    <3>2. CASE ~Locked
      BY <1>5, <2>1, <3>2 DEF StartTask, LockType, Step
    <3> QED
      BY <3>1, <3>2
  <2>3. WorkType' /\ ScoringType'
    BY <1>5 DEF StartTask, WorkType, ScoringType, session, review
  <2> QED
    BY <1>5, <2>2, <2>3, SessionKept, DbKept, ReviewKept, HistoryKept DEF StartTask
<1>6. CASE RunChain
  <2>1. evaluated' \in BOOLEAN
    BY <1>6, Zenon DEF RunChain, SessionType
  <2>2. SessionType'
    BY <1>6, <2>1 DEF RunChain, SessionType
  <2>3. WorkType' /\ ScoringType'
    BY <1>6, ReleaseWork DEF RunChain, ScoringType, review
  <2> QED
    BY <1>6, <2>2, <2>3, ReleaseType, DbKept, ReviewKept, HistoryKept DEF RunChain
<1>7. CASE ConfirmRefused
  <2>1. WorkType' /\ ScoringType'
    BY <1>7, ReleaseWork DEF ConfirmRefused, ScoringType, session, review
  <2> QED
    BY <1>7, <2>1, ReleaseType, SessionKept, DbKept, ReviewKept, HistoryKept
    DEF ConfirmRefused
<1>8. CASE ConfirmPlan
  <2>1. used + 1 \in Review /\ used + 1 \in 0..MaxReviews
    BY <1>8 DEF ConfirmPlan, ReviewType, Review
  <2>2. gsid' \in 0..MaxReviews /\ gs' \in [Review -> GsStatus]
    BY <1>8, <2>1 DEF ConfirmPlan, SessionType, DbType, GsStatus
  <2>3. SessionType' /\ DbType'
    BY <1>8, <2>2 DEF ConfirmPlan, SessionType, DbType
  <2>4. ReviewType'
    BY <1>8, <2>1 DEF ConfirmPlan, ReviewType
  <2>5. LockType' /\ WorkType' /\ ScoringType'
    BY <1>8, <2>1 DEF ConfirmPlan, Continue, LockType, Step, WorkType, ScoringType, Review
  <2>6. HistoryType'
    BY <1>8, FaultsKept DEF ConfirmPlan, NoFault, Fault
  <2> QED
    BY <2>3, <2>4, <2>5, <2>6
<1>9. CASE ConfirmPrepared
  <2>1. DbType'
    BY <1>9 DEF ConfirmPrepared, SetStatus, DbType, GsStatus
  <2>2. LockType' /\ WorkType' /\ ScoringType'
    BY <1>9 DEF ConfirmPrepared, Continue, LockType, Step, WorkType, ScoringType, session, review
  <2>3. HistoryType'
    BY <1>9, FaultsKept DEF ConfirmPrepared, NoFault, Fault
  <2> QED
    BY <1>9, <2>1, <2>2, <2>3, SessionKept, ReviewKept DEF ConfirmPrepared
<1>10. CASE ConfirmAborted
  <2>1. WorkType' /\ ScoringType'
    BY <1>10, ReleaseWork DEF ConfirmAborted, ScoringType, session, review
  <2>2. HistoryType'
    BY <1>10, FaultsKept DEF ConfirmAborted, Fault
  <2> QED
    BY <1>10, <2>1, <2>2, ReleaseType, SessionKept, DbKept, ReviewKept DEF ConfirmAborted
<1>11. CASE GenerateClip
  <2>1. rid \in Review /\ idx \in Clip
    BY <1>11 DEF GenerateClip, WorkType, LockType, Review, Clip
  <2>2. take[rid][idx] + 1 \in Nat /\ tail[rid] \in Shot
    BY <2>1 DEF ReviewType
  <2>3. [clip |-> idx, take |-> take[rid][idx] + 1] \in Shot
    BY <2>1, <2>2 DEF Shot, Clip
  <2>4. AppendNew(paths[rid], idx) \in Seq(Clip)
    BY <2>1 DEF AppendNew, ReviewType
  <2>5. SessionType'
    BY <1>11, <2>1 DEF GenerateClip, SessionType, Review
  <2>6. ReviewType'
    BY <1>11, <2>1, <2>2, <2>4 DEF GenerateClip, ReviewType, Clip
  <2>7. shown' \in (0..MaxReviews) \X Shot /\ faults' \in Nat
    BY <1>11, <2>1, <2>3 DEF GenerateClip, NoFault, Fault, HistoryType, Review
  <2>8. frame' \in [Review -> [Clip -> Shot]] /\ lost' \in [Review -> SUBSET Clip]
    BY <1>11, <2>1, <2>2 DEF GenerateClip, HistoryType
  <2>9. HistoryType'
    BY <1>11, <2>7, <2>8 DEF GenerateClip, HistoryType
  <2>10. WorkType' /\ ScoringType'
    BY <1>11, <2>1, ReleaseType DEF GenerateClip, WorkType, ScoringType, ReviewType, Review, Clip
  <2> QED
    BY <1>11, <2>5, <2>6, <2>9, <2>10, ReleaseType, DbKept DEF GenerateClip
<1>12. CASE GenerateFailed
  <2>1. rid \in Review /\ idx \in Clip
    BY <1>12 DEF GenerateFailed, WorkType, LockType, Review, Clip
  <2>2. HistoryType'
    BY <1>12, <2>1 DEF GenerateFailed, LoseRevision, Fault, HistoryType
  <2>3. WorkType' /\ ScoringType'
    BY <1>12, ReleaseWork DEF GenerateFailed, ScoringType, session, review
  <2> QED
    BY <1>12, <2>2, <2>3, ReleaseType, SessionKept, DbKept, ReviewKept DEF GenerateFailed
<1>13. CASE WarningFailed
  <2>1. rid \in Review /\ idx \in Clip
    BY <1>13 DEF WarningFailed, WorkType, LockType, Review, Clip
  <2>2. ReviewType'
    BY <1>13, <2>1 DEF WarningFailed, ReviewType
  <2>3. tail[rid] \in Shot
    BY <2>1 DEF ReviewType
  <2>4. HistoryType'
    BY <1>13, <2>1, <2>3 DEF WarningFailed, LoseRevision, Fault, HistoryType
  <2>5. WorkType' /\ ScoringType'
    BY <1>13, ReleaseWork DEF WarningFailed, ScoringType, session
  <2> QED
    BY <1>13, <2>2, <2>4, <2>5, ReleaseType, SessionKept, DbKept DEF WarningFailed
<1>14. CASE ReviewIgnored
  <2>1. WorkType' /\ ScoringType'
    BY <1>14, ReleaseWork DEF ReviewIgnored, ScoringType, session, review
  <2> QED
    BY <1>14, <2>1, ReleaseType, SessionKept, DbKept, ReviewKept, HistoryKept DEF ReviewIgnored
<1>15. CASE ReviewCancel
  <2>1. pending \in Review /\ cur[pending] \in Clip
    BY <1>15 DEF ReviewCancel, Reviewing, WorkType, SessionType, ReviewType, Review, Clip
  <2>2. SessionType'
    BY <1>15 DEF ReviewCancel, SessionType
  <2>3. DbType'
    BY <1>15 DEF ReviewCancel, SetStatus, DbType, GsStatus
  <2>4. ReviewType'
    BY <1>15, <2>1 DEF ReviewCancel, SetClip, ReviewType, ClipStatus
  <2>5. HistoryType'
    BY <1>15, FaultsKept DEF ReviewCancel, NoFault, Fault
  <2>6. WorkType' /\ ScoringType'
    BY <1>15, ReleaseType DEF ReviewCancel, WorkType, ScoringType
  <2> QED
    BY <1>15, <2>2, <2>3, <2>4, <2>5, <2>6, ReleaseType DEF ReviewCancel
<1>16. CASE ReviewRegenerate
  <2>1. pending \in Review /\ cur[pending] \in Clip
    BY <1>16 DEF ReviewRegenerate, Reviewing, WorkType, SessionType, ReviewType, Review, Clip
  <2>2. Without(paths[pending], cur[pending]) \in Seq(Clip)
    BY <2>1, WithoutType DEF ReviewType
  <2>3. ReviewType'
    BY <1>16, <2>1, <2>2 DEF ReviewRegenerate, SetClip, ReviewType, ClipStatus
  <2>4. LockType' /\ WorkType' /\ ScoringType'
    BY <1>16, <2>1 DEF ReviewRegenerate, Continue, LockType, Step, WorkType, ScoringType,
                       session, Review, Clip
  <2> QED
    BY <1>16, <2>3, <2>4, SessionKept, DbKept, HistoryKept DEF ReviewRegenerate
<1>17. CASE ReviewContinue
  <2>1. pending \in Review /\ cur[pending] \in Clip /\ cur[pending] + 1 \in Clip
    <3>1. pending \in Review /\ cur[pending] \in Clip
      BY <1>17 DEF ReviewContinue, Reviewing, WorkType, SessionType, ReviewType, Review, Clip
    <3>2. ~(cur[pending] >= N)
      BY <1>17 DEF ReviewContinue, IsLast
    <3> QED
      BY <3>1, <3>2 DEF Clip
  <2>2. TailOf(pending, cur[pending]) \in Shot
    BY <2>1 DEF TailOf, Shot, ReviewType, Clip
  <2>3. ReviewType'
    BY <1>17, <2>1, <2>2, NoShotType DEF ReviewContinue, LockClip, SetClip, ReviewType, ClipStatus
  <2>4. approved' \in [Review -> [Clip -> Nat]]
    BY <1>17, <2>1 DEF ReviewContinue, LockClip, HistoryType, ReviewType
  <2>5. HistoryType'
    BY <1>17, <2>4 DEF ReviewContinue, NoFault, Fault, HistoryType
  <2>6. LockType' /\ WorkType' /\ ScoringType'
    BY <1>17, <2>1 DEF ReviewContinue, Continue, LockType, Step, WorkType, ScoringType,
                       session, Review, Clip
  <2> QED
    BY <1>17, <2>3, <2>5, <2>6, SessionKept, DbKept DEF ReviewContinue
<1>18. CASE ReviewLast
  <2>1. pending \in Review /\ cur[pending] \in Clip
    BY <1>18 DEF ReviewLast, Reviewing, WorkType, SessionType, ReviewType, Review, Clip
  <2>2. ReviewType'
    BY <1>18, <2>1 DEF ReviewLast, LockClip, SetClip, ReviewType, ClipStatus
  <2>3. approved' \in [Review -> [Clip -> Nat]]
    BY <1>18, <2>1 DEF ReviewLast, LockClip, HistoryType, ReviewType
  <2>4. HistoryType'
    BY <1>18, <2>3 DEF ReviewLast, HistoryType
  <2>5. LockType' /\ WorkType' /\ ScoringType'
    BY <1>18, <2>1 DEF ReviewLast, Continue, LockType, Step, WorkType, ScoringType,
                       session, Review, Clip
  <2> QED
    BY <1>18, <2>2, <2>4, <2>5, SessionKept, DbKept DEF ReviewLast
<1>19. CASE FinalizeDrift
  <2>1. WorkType' /\ ScoringType'
    BY <1>19, ReleaseWork DEF FinalizeDrift, ScoringType, session, review
  <2>2. HistoryType'
    BY <1>19, FaultsKept DEF FinalizeDrift, Fault
  <2> QED
    BY <1>19, <2>1, <2>2, ReleaseType, SessionKept, DbKept, ReviewKept DEF FinalizeDrift
<1>20. CASE FinalizeFailed
  <2>1. DbType'
    BY <1>20 DEF FinalizeFailed, SetStatus, DbType, GsStatus
  <2>2. WorkType' /\ ScoringType'
    BY <1>20, ReleaseWork DEF FinalizeFailed, ScoringType, session, review
  <2>3. HistoryType'
    BY <1>20, FaultsKept DEF FinalizeFailed, NoFault, Fault
  <2> QED
    BY <1>20, <2>1, <2>2, <2>3, ReleaseType, SessionKept, ReviewKept DEF FinalizeFailed
<1>21. CASE FinalizeSend
  <2>1. rid \in Review /\ paths[rid] \in Seq(Clip)
    BY <1>21 DEF FinalizeSend, WorkType, LockType, ReviewType, Review
  <2> DEFINE part(k) == [clip |-> paths[rid][k], take |-> take[rid][paths[rid][k]]]
  <2>2. ASSUME NEW k \in DOMAIN paths[rid] PROVE part(k) \in Shot
    BY <2>1 DEF Shot, ReviewType, Clip
  <2>3. [k \in DOMAIN paths[rid] |-> part(k)] \in Seq(Shot)
    BY <2>1, <2>2
  <2>4. <<part(1)>> \in Seq(Shot)
    <3>1. paths[rid] # <<>>
      BY <1>21 DEF FinalizeSend
    <3>2. 1 \in DOMAIN paths[rid]
      BY <2>1, <3>1, EmptySeq, LenProperties
    <3> QED
      BY <2>2, <3>2
  <2>5. \E v \in [parts : Seq(Shot), joined : BOOLEAN] : sent' = [sent EXCEPT ![rid] = v]
    BY <1>21, <2>3, <2>4 DEF FinalizeSend
  <2>6. sent' \in [Review -> [parts : Seq(Shot), joined : BOOLEAN]]
    BY <2>1, <2>5 DEF HistoryType
  <2>7. HistoryType'
    BY <1>21, <2>6 DEF FinalizeSend, NoFault, Fault, HistoryType
  <2>8. LockType' /\ WorkType' /\ ScoringType'
    BY <1>21 DEF FinalizeSend, Continue, LockType, Step, WorkType, ScoringType, session, review
  <2> QED
    BY <1>21, <2>7, <2>8, SessionKept, DbKept, ReviewKept DEF FinalizeSend
<1>22. CASE FinalizeClose
  <2>1. SessionType'
    BY <1>22 DEF FinalizeClose, SessionType
  <2>2. LockType' /\ WorkType' /\ ScoringType'
    BY <1>22 DEF FinalizeClose, Continue, LockType, Step, WorkType, ScoringType
  <2> QED
    BY <1>22, <2>1, <2>2, DbKept, ReviewKept, HistoryKept DEF FinalizeClose
<1>23. CASE FinalizeReport
  <2>1. SessionOf(rid) \in 0..MaxReviews
    BY <1>23 DEF SessionOf, SessionType, LockType
  <2>2. DbType'
    BY <1>23 DEF FinalizeReport, SetStatus, DbType, GsStatus
  <2>3. SessionType'
    BY <1>23, <2>1 DEF FinalizeReport, SessionType
  <2>4. WorkType' /\ ScoringType'
    BY <1>23, ReleaseWork DEF FinalizeReport, ScoringType, review
  <2>5. HistoryType'
    BY <1>23, FaultsKept DEF FinalizeReport, NoFault, Fault
  <2> QED
    BY <1>23, <2>2, <2>3, <2>4, <2>5, ReleaseType, ReviewKept DEF FinalizeReport
<1>24. CASE Restart
  <2>1. evaluated' \in BOOLEAN
    BY <1>24, Zenon DEF Restart
  <2>2. SessionType'
    BY <1>24, <2>1 DEF Restart, SessionType
  <2>3. LockType' /\ WorkType' /\ ScoringType'
    BY <1>24, NoTaskType DEF Restart, LockType, Step, WorkType, ScoringType
  <2>4. HistoryType'
    BY <1>24, FaultsKept DEF Restart, Fault
  <2> QED
    BY <1>24, <2>2, <2>3, <2>4, DbKept, ReviewKept DEF Restart
<1>25. CASE UNCHANGED vars
  <2>1. WorkType' /\ ScoringType'
    BY <1>25 DEF vars, session, review, lock, WorkType, ScoringType
  <2> QED
    BY <1>25, <2>1, SessionKept, DbKept, ReviewKept, LockKept, HistoryKept DEF vars
<1> QED
  BY <1>1, <1>2, <1>3, <1>4, <1>5, <1>6, <1>7, <1>8, <1>9, <1>10, <1>11, <1>12, <1>13, <1>14,
     <1>15, <1>16, <1>17, <1>18, <1>19, <1>20, <1>21, <1>22, <1>23, <1>24, <1>25
  DEF Next, Holder

\* Every variable keeps its type, a pending review always has a current clip, and the task
\* that holds the semaphore always knows which review and which clip it works on.
THEOREM TypeCorrect == Spec => []TypeOK
<1>1. Init => TypeOK
  BY TypeInit
<1>2. TypeOK /\ [Next]_vars => TypeOK'
  BY TypeStep
<1> QED
  BY <1>1, <1>2, PTL DEF Spec

---------------------------------------------------------------------------
(* The order of a review.  ReviewedInOrder and LockedTakeKept say nothing  *)
(* of the task that holds the semaphore: they are inductive together with  *)
(* what that task is about to do to the clip it works on.                  *)

\* Plans not confirmed yet are untouched; the task and the pending review know older ones.
KnownReviews ==
  /\ pending <= used /\ rid <= used
  /\ \A r \in Review : r > used => cur[r] = 0

\* The clip that is going to be generated is the current one, marked dirty and off the
\* list, or the one after a locked one; finalization starts when the last one is locked.
WorkInOrder ==
  /\ pc = "prepare" => cur[rid] = 0
  /\ pc = "generate" =>
       /\ \/ idx = cur[rid] /\ clip[rid][idx] = "dirty"
          \/ idx = cur[rid] + 1 /\ (cur[rid] > 0 => clip[rid][cur[rid]] = "locked")
       /\ \A k \in DOMAIN paths[rid] : paths[rid][k] < idx
  /\ pc = "finalize" => cur[rid] = N /\ clip[rid][N] = "locked"

OrderInv ==
  TypeOK /\ KnownReviews /\ WorkInOrder /\ ReviewedInOrder /\ LockedTakeKept

\* Where the elements of a sequence are after one was removed.
LEMMA DropAtElements ==
  ASSUME NEW S, NEW s \in Seq(S), NEW k \in DOMAIN s
  PROVE  /\ DropAt(s, k) \in Seq(S) /\ Len(DropAt(s, k)) = Len(s) - 1
         /\ \A j \in DOMAIN DropAt(s, k) :
              DropAt(s, k)[j] = IF j < k THEN s[j] ELSE s[j + 1]
<1> DEFINE a == SubSeq(s, 1, k - 1)
           b == SubSeq(s, k + 1, Len(s))
<1>1. DOMAIN s = 1..Len(s) /\ Len(s) \in Nat /\ k \in 1..Len(s)
  BY LenProperties
<1>2. \A i \in 1..Len(s) : s[i] \in S
  BY <1>1
<1>3. /\ a \in Seq(S) /\ Len(a) = k - 1
      /\ \A i \in 1..(k - 1) : a[i] = s[i]
  <2>1. \A i \in 1..(k - 1) : s[i] \in S
    BY <1>1, <1>2
  <2>2. k - 1 \in Int /\ 1 \in Int
    BY <1>1
  <2>3. /\ a \in Seq(S) /\ Len(a) = IF 1 <= k - 1 THEN k - 1 - 1 + 1 ELSE 0
        /\ \A i \in 1..(k - 1 - 1 + 1) : a[i] = s[1 + i - 1]
    BY <2>1, <2>2, SubSeqProperties
  <2> QED
    BY <1>1, <2>3
<1>4. /\ b \in Seq(S) /\ Len(b) = Len(s) - k
      /\ \A i \in 1..(Len(s) - k) : b[i] = s[i + k]
  <2>1. \A i \in (k + 1)..Len(s) : s[i] \in S
    BY <1>1, <1>2
  <2>2. k + 1 \in Int /\ Len(s) \in Int
    BY <1>1
  <2>3. /\ b \in Seq(S)
        /\ Len(b) = IF k + 1 <= Len(s) THEN Len(s) - (k + 1) + 1 ELSE 0
        /\ \A i \in 1..(Len(s) - (k + 1) + 1) : b[i] = s[k + 1 + i - 1]
    BY <2>1, <2>2, SubSeqProperties
  <2> QED
    BY <1>1, <2>3
<1>5. /\ a \o b \in Seq(S) /\ Len(a \o b) = Len(a) + Len(b)
      /\ \A i \in 1..(Len(a) + Len(b)) :
           (a \o b)[i] = IF i <= Len(a) THEN a[i] ELSE b[i - Len(a)]
  BY <1>3, <1>4, ConcatProperties
<1>6. DropAt(s, k) = a \o b
  BY DEF DropAt
<1>7. Len(a) + Len(b) = Len(s) - 1 /\ DOMAIN DropAt(s, k) = 1..(Len(s) - 1)
  BY <1>1, <1>3, <1>4, <1>5, <1>6, LenProperties
<1>8. ASSUME NEW j \in 1..(Len(s) - 1)
      PROVE  (a \o b)[j] = IF j < k THEN s[j] ELSE s[j + 1]
  <2>1. CASE j < k
    BY <1>1, <1>3, <1>5, <1>7, <2>1
  <2>2. CASE j >= k
    <3>1. j - Len(a) \in 1..(Len(s) - k) /\ j - Len(a) + k = j + 1 /\ ~(j <= Len(a))
      BY <1>1, <1>3, <2>2
    <3>2. (a \o b)[j] = b[j - Len(a)]
      BY <1>5, <1>7, <3>1
    <3>3. b[j - Len(a)] = s[j - Len(a) + k]
      BY <1>4, <3>1
    <3>4. b[j - Len(a)] = s[j + 1]
      BY <3>1, <3>3, Zenon
    <3>5. ~(j < k)
      BY <1>1, <2>2
    <3> QED
      BY <3>2, <3>4, <3>5, Zenon
  <2> QED
    BY <1>1, <2>1, <2>2
<1> QED
  BY <1>5, <1>6, <1>7, <1>8

\* Taking the current clip off an ordered list of clips leaves an ordered list of the
\* clips before it.
LEMMA WithoutOrdered ==
  ASSUME NEW s \in Seq(Clip), NEW c \in Clip, Increasing(s),
         \A k \in DOMAIN s : s[k] <= c
  PROVE  /\ Increasing(Without(s, c))
         /\ \A k \in DOMAIN Without(s, c) : Without(s, c)[k] < c
<1>1. DOMAIN s = 1..Len(s) /\ Len(s) \in Nat /\ \A k \in DOMAIN s : s[k] \in Int
  BY BoundsAssumption, LenProperties DEF Clip
<1>2. c \in Int
  BY BoundsAssumption DEF Clip
<1>3. CASE \E k \in DOMAIN s : s[k] = c
  <2> DEFINE k == CHOOSE k \in DOMAIN s : s[k] = c
             t == DropAt(s, k)
  <2>1. k \in DOMAIN s /\ s[k] = c
    BY <1>3
  <2>2. /\ t \in Seq(Clip) /\ Len(t) = Len(s) - 1
        /\ \A j \in DOMAIN t : t[j] = IF j < k THEN s[j] ELSE s[j + 1]
    BY <2>1, DropAtElements
  <2>3. DOMAIN t = 1..(Len(s) - 1)
    BY <2>2, LenProperties
  <2> HIDE DEF k, t
  <2>4. \A j \in DOMAIN s : j <= k
    BY <1>1, <1>2, <2>1 DEF Increasing
  <2>5. \A j \in DOMAIN t : j < k /\ j \in DOMAIN s /\ t[j] = s[j]
    <3>1. Len(s) <= k
      BY <1>1, <2>1, <2>4
    <3> QED
      BY <1>1, <2>1, <2>2, <2>3, <3>1
  <2>6. Increasing(t) /\ \A j \in DOMAIN t : t[j] < c
    BY <1>1, <1>2, <2>1, <2>5 DEF Increasing
  <2>7. Without(s, c) = t
    BY <1>3 DEF Without, t, k
  <2> QED
    BY <2>6, <2>7
<1>4. CASE ~\E k \in DOMAIN s : s[k] = c
  <2>1. Without(s, c) = s
    BY <1>4 DEF Without
  <2>2. \A k \in DOMAIN s : s[k] < c
    BY <1>1, <1>2, <1>4
  <2> QED
    BY <2>1, <2>2
<1> QED
  BY <1>3, <1>4

\* A clip after all those of an ordered list goes to its end.
LEMMA AppendOrdered ==
  ASSUME NEW s \in Seq(Clip), NEW c \in Clip, Increasing(s),
         \A k \in DOMAIN s : s[k] < c
  PROVE  /\ Increasing(AppendNew(s, c))
         /\ \A k \in DOMAIN AppendNew(s, c) : AppendNew(s, c)[k] <= c
<1>1. DOMAIN s = 1..Len(s) /\ Len(s) \in Nat /\ c \in Int /\ \A k \in DOMAIN s : s[k] \in Int
  BY BoundsAssumption, LenProperties DEF Clip
<1> DEFINE t == Append(s, c)
<1>2. AppendNew(s, c) = t
  <2>1. ~\E k \in DOMAIN s : s[k] = c
    BY <1>1
  <2> QED
    BY <2>1, Zenon DEF AppendNew
<1>3. /\ DOMAIN t = 1..(Len(s) + 1) /\ t[Len(s) + 1] = c
      /\ \A k \in 1..Len(s) : t[k] = s[k]
  <2>1. /\ t \in Seq(Clip) /\ Len(t) = Len(s) + 1 /\ t[Len(s) + 1] = c
        /\ \A k \in 1..Len(s) : t[k] = s[k]
    BY AppendProperties
  <2>2. DOMAIN t = 1..Len(t)
    BY <2>1, LenProperties
  <2> QED
    BY <2>1, <2>2
<1> HIDE DEF t
<1>4. \A j \in DOMAIN t : j = Len(s) + 1 \/ (j \in DOMAIN s /\ t[j] = s[j])
  BY <1>1, <1>3
<1>5. Increasing(t)
  BY <1>1, <1>3, <1>4 DEF Increasing
<1>6. \A k \in DOMAIN t : t[k] <= c
  BY <1>1, <1>3, <1>4
<1> QED
  BY <1>2, <1>5, <1>6

\* Steps that only move the task, or end the review, keep the order.
LEMMA OrderKept ==
  ReviewedInOrder /\ LockedTakeKept /\ UNCHANGED <<clip, cur, paths, take, approved>>
    => (ReviewedInOrder /\ LockedTakeKept)'
BY DEF ReviewedInOrder, LockedTakeKept

LEMMA KnownKept ==
  KnownReviews /\ TypeOK /\ UNCHANGED <<used, cur>>
    /\ pending' \in {0, pending} /\ rid' \in {0, rid, pending} => KnownReviews'
BY BoundsAssumption DEF KnownReviews, TypeOK, ReviewType

LEMMA WorkFree == pc' \notin {"prepare", "generate", "finalize"} => WorkInOrder'
BY DEF WorkInOrder

LEMMA WorkKept ==
  WorkInOrder /\ UNCHANGED <<pc, rid, idx, cur, clip, paths>> => WorkInOrder'
BY DEF WorkInOrder

\* Changing the status of the current clip keeps the order.
LEMMA CurrentClipOrder ==
  ASSUME TypeOK, ReviewedInOrder, NEW r0 \in Review, NEW status,
         cur[r0] \in Clip, clip' = [clip EXCEPT ![r0][cur[r0]] = status],
         UNCHANGED <<cur, paths>>
  PROVE  ReviewedInOrder'
<1> SUFFICES ASSUME NEW r \in Review
             PROVE  /\ \A i \in Clip : /\ i < cur[r] => clip'[r][i] = "locked"
                                       /\ i > cur[r] => clip'[r][i] = "pending"
                    /\ Increasing(paths[r])
                    /\ \A k \in DOMAIN paths[r] : paths[r][k] <= cur[r]
  BY DEF ReviewedInOrder, Increasing
<1>1. clip[r0] \in [Clip -> ClipStatus] /\ clip \in [Review -> [Clip -> ClipStatus]]
  BY DEF TypeOK, ReviewType
<1>2. \A i \in Clip : i # cur[r0] => clip'[r0][i] = clip[r0][i]
  BY <1>1
<1>3. r # r0 => clip'[r] = clip[r]
  BY <1>1
<1>4. \A i \in Clip : i < cur[r0] \/ i > cur[r0] => i # cur[r0]
  BY BoundsAssumption DEF Clip
<1>5. CASE r = r0
  BY <1>2, <1>4, <1>5 DEF ReviewedInOrder
<1>6. CASE r # r0
  BY <1>3, <1>6 DEF ReviewedInOrder
<1> QED
  BY <1>5, <1>6

LEMMA OrderInit == Init => OrderInv
<1> SUFFICES ASSUME Init PROVE OrderInv
  OBVIOUS
<1>1. KnownReviews /\ WorkInOrder
  BY BoundsAssumption DEF Init, KnownReviews, WorkInOrder
<1>2. ReviewedInOrder
  BY BoundsAssumption DEF Init, ReviewedInOrder, Increasing, Clip
<1>3. LockedTakeKept
  BY DEF Init, LockedTakeKept
<1> QED
  BY <1>1, <1>2, <1>3, TypeInit DEF OrderInv

LEMMA OrderStep == OrderInv /\ [Next]_vars => OrderInv'
<1> SUFFICES ASSUME OrderInv, [Next]_vars PROVE OrderInv'
  OBVIOUS
<1> USE BoundsAssumption
<1>t. TypeOK /\ TypeOK'
  BY TypeStep DEF OrderInv
<1>i. KnownReviews /\ WorkInOrder /\ ReviewedInOrder /\ LockedTakeKept
  BY DEF OrderInv
<1>d. ASSUME NEW r \in Review
      PROVE  /\ cur[r] \in Int /\ cur[r] <= N /\ cur[r] >= 0
             /\ paths[r] \in Seq(Clip) /\ clip[r] \in [Clip -> ClipStatus]
             /\ take[r] \in [Clip -> Nat]
             /\ \A k \in DOMAIN paths[r] : paths[r][k] \in Clip
  <2>1. /\ cur[r] \in 0..N /\ paths[r] \in Seq(Clip) /\ clip[r] \in [Clip -> ClipStatus]
        /\ take[r] \in [Clip -> Nat]
    BY <1>t DEF TypeOK, ReviewType
  <2> QED
    BY <2>1
<1>1. CASE \/ \E t \in Text : Receive(t) \/ SelectTopic(t) \/ ScoreReply(t)
           \/ \E k \in DOMAIN scoring : FinishScore(k)
           \/ UNCHANGED vars
  <2>1. UNCHANGED <<pc, rid, idx, cur, clip, paths, take, approved, used, pending>>
    BY <1>1 DEF Receive, SelectTopic, ScoreReply, FinishScore, vars, session, db, review, lock,
                history
  <2> QED
    BY <1>t, <1>i, <2>1, OrderKept, KnownKept, WorkKept DEF OrderInv
<1>2. ASSUME NEW k \in DOMAIN accepted, StartTask(k) PROVE OrderInv'
  <2>1. UNCHANGED <<rid, idx, cur, clip, paths, take, approved, used, pending>>
    BY <1>2 DEF StartTask, session, review, history
  <2>2. WorkInOrder'
    <3>1. CASE Locked
      BY <1>2, <1>i, <2>1, <3>1, WorkKept DEF StartTask
    <3>2. CASE ~Locked
      BY <1>2, <3>2, WorkFree DEF StartTask
    <3> QED
      BY <3>1, <3>2
  <2> QED
    BY <1>t, <1>i, <2>1, <2>2, OrderKept, KnownKept DEF OrderInv
<1>3. CASE \/ RunChain \/ ConfirmRefused \/ ConfirmAborted \/ GenerateFailed \/ ReviewIgnored
           \/ FinalizeDrift \/ FinalizeFailed \/ FinalizeReport
  <2>1. UNCHANGED <<cur, clip, paths, take, approved, used, pending>> /\ Release
    BY <1>3 DEF RunChain, ConfirmRefused, ConfirmAborted, GenerateFailed, ReviewIgnored,
                FinalizeDrift, FinalizeFailed, FinalizeReport, session, review, history
  <2>2. pc' \in {"free", "start"} /\ rid' = 0
    BY <1>t, <2>1, ReleaseType DEF TypeOK
  <2> QED
    BY <1>t, <1>i, <2>1, <2>2, OrderKept, KnownKept, WorkFree DEF OrderInv
<1>4. CASE FinalizeSend \/ FinalizeClose \/ Restart
  <2>1. /\ UNCHANGED <<cur, clip, paths, take, approved, used>>
        /\ pending' \in {0, pending} /\ rid' \in {0, rid} /\ pc' \in {"close", "report", "free"}
    BY <1>4 DEF FinalizeSend, FinalizeClose, Restart, Continue, session, review, history
  <2> QED
    BY <1>t, <1>i, <2>1, OrderKept, KnownKept, WorkFree DEF OrderInv
<1>5. CASE ConfirmPlan
  <2>1. /\ UNCHANGED <<cur, clip, paths, take, approved, pending>>
        /\ rid' = used + 1 /\ used' = used + 1 /\ pc' = "prepare"
    BY <1>5 DEF ConfirmPlan, Continue
  <2>2. used \in Nat /\ used + 1 \in Review /\ pending \in Nat
    BY <1>5, <1>t DEF ConfirmPlan, TypeOK, ReviewType, SessionType, Review
  <2>3. KnownReviews'
    BY <1>i, <2>1, <2>2 DEF KnownReviews, Review
  <2>4. WorkInOrder'
    BY <1>i, <2>1, <2>2 DEF KnownReviews, WorkInOrder
  <2> QED
    BY <1>t, <1>i, <2>1, <2>3, <2>4, OrderKept DEF OrderInv
<1>6. CASE ConfirmPrepared
  <2>1. /\ UNCHANGED <<rid, cur, clip, paths, take, approved, used, pending>>
        /\ pc = "prepare" /\ pc' = "generate" /\ idx' = 1
    BY <1>6 DEF ConfirmPrepared, Continue, session, review
  <2>2. rid \in Review
    BY <1>t, <2>1 DEF TypeOK, WorkType, LockType, Review
  <2>3. cur[rid] = 0 /\ \A k \in DOMAIN paths[rid] : paths[rid][k] < 1
    BY <1>i, <1>d, <2>1, <2>2 DEF WorkInOrder, ReviewedInOrder, Clip
  <2>4. WorkInOrder'
    BY <2>1, <2>3 DEF WorkInOrder
  <2> QED
    BY <1>t, <1>i, <2>1, <2>4, OrderKept, KnownKept DEF OrderInv
<1>7. CASE GenerateClip
  <2>1. /\ pc = "generate" /\ UNCHANGED <<clip, used>> /\ pending' = rid /\ Release
        /\ take' = [take EXCEPT ![rid][idx] = take[rid][idx] + 1]
        /\ paths' = [paths EXCEPT ![rid] = AppendNew(paths[rid], idx)]
        /\ cur' = [cur EXCEPT ![rid] = idx] /\ UNCHANGED approved
    BY <1>7 DEF GenerateClip
  <2>2. rid \in Review /\ idx \in Clip /\ idx \in Int
    BY <1>t, <2>1 DEF TypeOK, WorkType, LockType, Review, Clip
  <2>3. clip[rid][idx] # "locked"
    BY <1>i, <1>d, <2>1, <2>2 DEF WorkInOrder, ReviewedInOrder
  <2>4. \A k \in DOMAIN paths[rid] : paths[rid][k] < idx
    BY <1>i, <2>1 DEF WorkInOrder
  <2>5. /\ Increasing(AppendNew(paths[rid], idx))
        /\ \A k \in DOMAIN AppendNew(paths[rid], idx) : AppendNew(paths[rid], idx)[k] <= idx
    BY <1>i, <1>d, <2>2, <2>4, AppendOrdered DEF ReviewedInOrder
  <2>6. \A i \in Clip : /\ i < idx => clip[rid][i] = "locked"
                        /\ i > idx => clip[rid][i] = "pending"
    BY <1>i, <1>d, <2>1, <2>2 DEF WorkInOrder, ReviewedInOrder, Clip
  <2>7. /\ paths'[rid] = AppendNew(paths[rid], idx) /\ cur'[rid] = idx
        /\ \A r \in Review \ {rid} : paths'[r] = paths[r] /\ cur'[r] = cur[r]
    BY <1>t, <2>1, <2>2 DEF TypeOK, ReviewType
  <2>8. ReviewedInOrder'
    <3> SUFFICES ASSUME NEW r \in Review
                 PROVE  /\ \A i \in Clip : /\ i < cur'[r] => clip[r][i] = "locked"
                                           /\ i > cur'[r] => clip[r][i] = "pending"
                        /\ Increasing(paths'[r])
                        /\ \A k \in DOMAIN paths'[r] : paths'[r][k] <= cur'[r]
      BY <2>1 DEF ReviewedInOrder, Increasing
    <3>1. CASE r = rid
      BY <2>5, <2>6, <2>7, <3>1
    <3>2. CASE r # rid
      BY <1>i, <2>7, <3>2 DEF ReviewedInOrder
    <3> QED
      BY <3>1, <3>2
  <2>9. LockedTakeKept'
    BY <1>i, <1>t, <2>1, <2>2, <2>3 DEF LockedTakeKept, TypeOK, ReviewType
  <2>10. pc' \in {"free", "start"} /\ rid' = 0
    BY <1>t, <2>1, ReleaseType DEF TypeOK
  <2>11. KnownReviews'
    <3>1. used \in Nat /\ rid <= used
      BY <1>t, <1>i DEF KnownReviews, TypeOK, ReviewType
    <3>2. \A r \in Review : r > used => r # rid /\ cur'[r] = 0
      BY <1>i, <2>7, <3>1 DEF KnownReviews, Review
    <3> QED
      BY <2>1, <2>10, <3>1, <3>2 DEF KnownReviews
  <2> QED
    BY <1>t, <2>8, <2>9, <2>10, <2>11, WorkFree DEF OrderInv
<1>8. CASE WarningFailed
  <2>1. /\ pc = "generate" /\ UNCHANGED <<clip, used, cur, paths, approved, pending>> /\ Release
        /\ take' = [take EXCEPT ![rid][idx] = take[rid][idx] + 1]
    BY <1>8 DEF WarningFailed, session
  <2>2. rid \in Review /\ idx \in Clip
    BY <1>t, <2>1 DEF TypeOK, WorkType, LockType, Review, Clip
  <2>3. clip[rid][idx] # "locked"
    BY <1>i, <1>d, <2>1, <2>2 DEF WorkInOrder, ReviewedInOrder
  <2>4. LockedTakeKept' /\ ReviewedInOrder'
    BY <1>i, <1>t, <2>1, <2>2, <2>3 DEF LockedTakeKept, ReviewedInOrder, TypeOK, ReviewType
  <2>5. pc' \in {"free", "start"} /\ rid' = 0
    BY <1>t, <2>1, ReleaseType DEF TypeOK
  <2> QED
    BY <1>t, <1>i, <2>1, <2>4, <2>5, KnownKept, WorkFree DEF OrderInv
<1>9. ASSUME pc = "start", task.kind = "review", pending # 0
      PROVE  /\ pending \in Review /\ cur[pending] \in Clip
             /\ \A i \in Clip : /\ i < cur[pending] => clip[pending][i] = "locked"
                                /\ i > cur[pending] => clip[pending][i] = "pending"
             /\ \A k \in DOMAIN paths[pending] : paths[pending][k] <= cur[pending]
             /\ Increasing(paths[pending])
  <2>1. pending \in Review /\ cur[pending] \in Clip
    <3>1. pending \in Review
      BY <1>t, <1>9 DEF TypeOK, SessionType, Review
    <3>2. cur[pending] \in 0..N /\ cur[pending] # 0
      BY <1>t, <1>9, <3>1 DEF TypeOK, WorkType, ReviewType
    <3> QED
      BY <3>1, <3>2 DEF Clip
  <2> QED
    BY <1>i, <2>1 DEF ReviewedInOrder
<1>10. CASE ReviewCancel
  <2>1. /\ clip' = [clip EXCEPT ![pending][cur[pending]] = "cancelled"] /\ Release
        /\ UNCHANGED <<used, cur, paths, take, approved>> /\ pending' = 0
        /\ pending \in Review /\ cur[pending] \in Clip
    BY <1>9, <1>10 DEF ReviewCancel, Reviewing, SetClip
  <2>2. ReviewedInOrder'
    BY <1>i, <1>t, <2>1, CurrentClipOrder
  <2>4. LockedTakeKept'
    BY <1>i, <1>t, <2>1 DEF LockedTakeKept, TypeOK, ReviewType
  <2>3. pc' \in {"free", "start"} /\ rid' = 0
    BY <1>t, <2>1, ReleaseType DEF TypeOK
  <2> QED
    BY <1>t, <1>i, <2>1, <2>2, <2>3, <2>4, KnownKept, WorkFree DEF OrderInv
<1>11. CASE ReviewRegenerate
  <2>1. /\ clip' = [clip EXCEPT ![pending][cur[pending]] = "dirty"]
        /\ paths' = [paths EXCEPT ![pending] = Without(paths[pending], cur[pending])]
        /\ UNCHANGED <<used, cur, take, approved, pending>>
        /\ pc' = "generate" /\ rid' = pending /\ idx' = cur[pending]
        /\ pending \in Review /\ cur[pending] \in Clip
    BY <1>9, <1>11 DEF ReviewRegenerate, Reviewing, SetClip, Continue, session, history
  <2>2. /\ Increasing(Without(paths[pending], cur[pending]))
        /\ \A k \in DOMAIN Without(paths[pending], cur[pending]) :
             Without(paths[pending], cur[pending])[k] < cur[pending]
    BY <1>d, <1>i, <2>1, WithoutOrdered DEF ReviewedInOrder
  <2>3. /\ paths'[pending] = Without(paths[pending], cur[pending])
        /\ \A r \in Review \ {pending} : paths'[r] = paths[r] /\ clip'[r] = clip[r]
        /\ clip'[pending] = [clip[pending] EXCEPT ![cur[pending]] = "dirty"]
    BY <1>t, <2>1 DEF TypeOK, ReviewType
  <2>4. ReviewedInOrder'
    <3> SUFFICES ASSUME NEW r \in Review
                 PROVE  /\ \A i \in Clip : /\ i < cur[r] => clip'[r][i] = "locked"
                                           /\ i > cur[r] => clip'[r][i] = "pending"
                        /\ Increasing(paths'[r])
                        /\ \A k \in DOMAIN paths'[r] : paths'[r][k] <= cur[r]
      BY <2>1 DEF ReviewedInOrder, Increasing
    <3>1. CASE r = pending
      <4>1. \A k \in DOMAIN paths'[r] : paths'[r][k] < cur[r]
        BY <2>2, <2>3, <3>1
      <4>2. \A k \in DOMAIN paths'[r] : paths'[r][k] \in Int
        BY <1>t, <2>1 DEF TypeOK, ReviewType, Clip
      <4>3. \A i \in Clip : /\ i < cur[r] => clip'[r][i] = "locked"
                            /\ i > cur[r] => clip'[r][i] = "pending"
        BY <1>d, <1>i, <2>1, <2>3, <3>1 DEF ReviewedInOrder, Clip
      <4> QED
        BY <1>d, <2>2, <2>3, <3>1, <4>1, <4>2, <4>3
    <3>2. CASE r # pending
      BY <1>i, <2>3, <3>2 DEF ReviewedInOrder
    <3> QED
      BY <3>1, <3>2
  <2>5. LockedTakeKept'
    BY <1>i, <1>d, <2>1, <2>3 DEF LockedTakeKept
  <2>6. WorkInOrder'
    BY <1>d, <2>1, <2>2, <2>3 DEF WorkInOrder
  <2> QED
    BY <1>t, <1>i, <2>1, <2>4, <2>5, <2>6, KnownKept DEF OrderInv
<1>12. CASE ReviewContinue \/ ReviewLast
  <2>1. /\ clip' = [clip EXCEPT ![pending][cur[pending]] = "locked"]
        /\ approved' = [approved EXCEPT ![pending][cur[pending]] = take[pending][cur[pending]]]
        /\ UNCHANGED <<used, cur, paths, take, pending>> /\ rid' = pending
        /\ pending \in Review /\ cur[pending] \in Clip
    BY <1>9, <1>12 DEF ReviewContinue, ReviewLast, Reviewing, LockClip, SetClip, session
  <2>2. ReviewedInOrder'
    BY <1>i, <1>t, <2>1, CurrentClipOrder
  <2>3. LockedTakeKept'
    <3> SUFFICES ASSUME NEW r \in Review, NEW i \in Clip, clip'[r][i] = "locked"
                 PROVE  approved'[r][i] = take[r][i]
      BY <2>1 DEF LockedTakeKept
    <3>1. CASE r = pending /\ i = cur[pending]
      BY <1>t, <2>1, <3>1 DEF TypeOK, HistoryType
    <3>2. CASE ~(r = pending /\ i = cur[pending])
      <4>1. clip'[r][i] = clip[r][i]
        BY <1>t, <2>1, <3>2 DEF TypeOK, ReviewType
      <4>2. approved'[r][i] = approved[r][i]
        BY <1>t, <2>1, <3>2 DEF TypeOK, HistoryType
      <4> QED
        BY <1>i, <4>1, <4>2 DEF LockedTakeKept
    <3> QED
      BY <3>1, <3>2
  <2>4. clip'[pending][cur[pending]] = "locked"
    BY <1>t, <2>1 DEF TypeOK, ReviewType
  <2>5. CASE ReviewContinue
    <3>1. pc' = "generate" /\ idx' = cur[pending] + 1
      BY <2>5 DEF ReviewContinue, Continue
    <3>2. \A k \in DOMAIN paths[pending] : paths[pending][k] < cur[pending] + 1
      BY <1>d, <1>i, <2>1 DEF ReviewedInOrder, Clip
    <3>3. WorkInOrder'
      BY <2>1, <2>4, <3>1, <3>2 DEF WorkInOrder
    <3> QED
      BY <1>t, <1>i, <2>1, <2>2, <2>3, <3>3, KnownKept DEF OrderInv
  <2>6. CASE ReviewLast
    <3>1. pc' = "finalize" /\ cur[pending] >= N
      BY <2>6 DEF ReviewLast, Continue, IsLast
    <3>2. cur[pending] = N
      BY <1>d, <2>1, <3>1
    <3>3. WorkInOrder'
      BY <2>1, <2>4, <3>1, <3>2 DEF WorkInOrder
    <3> QED
      BY <1>t, <1>i, <2>1, <2>2, <2>3, <3>3, KnownKept DEF OrderInv
  <2> QED
    BY <1>12, <2>5, <2>6
<1> QED
  BY <1>1, <1>2, <1>3, <1>4, <1>5, <1>6, <1>7, <1>8, <1>10, <1>11, <1>12 DEF Next, Holder

LEMMA OrderCorrect == Spec => []OrderInv
<1>1. OrderInv /\ [Next]_vars => OrderInv'
  BY OrderStep
<1> QED
  BY <1>1, OrderInit, PTL DEF Spec

\* However messages interleave and whatever fails, the clips of every plan are reviewed in
\* the order of the plan, and so is the list of files to join.
THEOREM AlwaysReviewedInOrder == Spec => []ReviewedInOrder
<1>1. OrderInv => ReviewedInOrder
  BY DEF OrderInv
<1> QED
  BY <1>1, OrderCorrect, PTL

\* The file of a locked clip is never overwritten while the clip is locked.
THEOREM AlwaysLockedTakeKept == Spec => []LockedTakeKept
<1>1. OrderInv => LockedTakeKept
  BY DEF OrderInv
<1> QED
  BY <1>1, OrderCorrect, PTL

\* Whatever is sent as the final video is made of locked clips, in the order of the plan,
\* each at the take that was approved: FinalizeSend is the only step that sends, it runs
\* when the last clip is locked, and the list it joins holds clips up to that one.
THEOREM AlwaysSentIsApproved == Spec => SentIsApproved
<1> DEFINE Approved(r) ==
      LET parts == sent'[r].parts
      IN /\ \A j, k \in DOMAIN parts : j < k => parts[j].clip < parts[k].clip
         /\ \A k \in DOMAIN parts :
              LET i == parts[k].clip
              IN clip[r][i] = "locked" /\ parts[k].take = approved[r][i]
<1>1. ASSUME OrderInv, [Next]_vars, NEW r \in Review, sent'[r] # sent[r]
      PROVE  Approved(r)
  <2>1. FinalizeSend
    BY <1>1 DEF Next, Holder, Receive, SelectTopic, ScoreReply, FinishScore, StartTask, RunChain,
         ConfirmRefused, ConfirmPlan, ConfirmPrepared, ConfirmAborted, GenerateClip,
         GenerateFailed, WarningFailed, ReviewIgnored, ReviewCancel, ReviewRegenerate,
         ReviewContinue, ReviewLast, FinalizeDrift, FinalizeFailed, FinalizeClose,
         FinalizeReport, Restart, history, vars
  <2>2. sent \in [Review -> [parts : Seq(Shot), joined : BOOLEAN]]
    BY <1>1 DEF OrderInv, TypeOK, HistoryType
  <2>3. rid = r /\ pc = "finalize"
    BY <1>1, <2>1, <2>2 DEF FinalizeSend
  <2>4. /\ paths[r] \in Seq(Clip) /\ cur[r] = N /\ Increasing(paths[r])
        /\ \A i \in Clip : clip[r][i] = "locked"
    <3>1. /\ ReviewedInOrder /\ paths[r] \in Seq(Clip)
          /\ cur[r] = N /\ clip[r][N] = "locked"
      BY <1>1, <2>3 DEF OrderInv, WorkInOrder, TypeOK, ReviewType
    <3>2. \A i \in Clip : i = N \/ i < N
      BY BoundsAssumption DEF Clip
    <3> QED
      BY <3>1, <3>2 DEF ReviewedInOrder
  <2>5. \A i \in Clip : approved[r][i] = take[r][i]
    BY <1>1, <2>4 DEF OrderInv, LockedTakeKept
  <2> DEFINE part(k) == [clip |-> paths[r][k], take |-> take[r][paths[r][k]]]
  <2>6. \/ sent'[r].parts = [k \in DOMAIN paths[r] |-> part(k)]
        \/ sent'[r].parts = <<part(1)>> /\ Len(paths[r]) > 1
    BY <1>1, <2>1, <2>2, <2>3 DEF FinalizeSend
  <2>7. \A k \in DOMAIN paths[r] : paths[r][k] \in Clip
    BY <2>4
  <2>8. CASE sent'[r].parts = [k \in DOMAIN paths[r] |-> part(k)]
    BY <2>4, <2>5, <2>7, <2>8 DEF Increasing
  <2>9. CASE sent'[r].parts = <<part(1)>> /\ Len(paths[r]) > 1
    <3>1. 1 \in DOMAIN paths[r]
      BY <2>4, <2>9, LenProperties
    <3>2. DOMAIN <<part(1)>> = {1} /\ <<part(1)>>[1] = part(1)
      OBVIOUS
    <3> QED
      BY <2>4, <2>5, <2>7, <2>9, <3>1, <3>2
  <2> QED
    BY <2>6, <2>8, <2>9
<1>2. OrderInv /\ [Next]_vars =>
        [\A r \in Review : sent'[r] # sent[r] => Approved(r)]_vars
  BY <1>1
<1> QED
  BY <1>2, OrderCorrect, PTL DEF Spec, SentIsApproved

---------------------------------------------------------------------------
(* ClipReview implements ApprovalProtocol: every step of the conversation, with its *)
(* interleavings, failures and restarts, is a step of the protocol or leaves it alone. *)

phase     == [r \in Review |-> Phase(r)]
locked    == [r \in Review |-> {i \in Clip : clip[r][i] = "locked"}]
delivered == [r \in Review |-> sent[r].parts # <<>>]

Opened(r) == pending = r \/ rid = r

\* A task that has not reached its review yet, and no task at all, works on no review.
IdleIsNowhere == pc \in {"free", "start"} => rid = 0

RefInv == OrderInv /\ IdleIsNowhere

LEMMA IdleInit == Init => IdleIsNowhere
BY DEF Init, IdleIsNowhere

\* The semaphore is handed over together with the review: rid is reset.
LEMMA IdleStep ==
  ASSUME OrderInv, IdleIsNowhere, [Next]_vars
  PROVE  IdleIsNowhere'
<1>1. CASE UNCHANGED <<pc, rid>>
  BY <1>1 DEF IdleIsNowhere
<1>2. CASE Release
  BY <1>2 DEF Release, IdleIsNowhere
<1>3. ASSUME NEW k \in DOMAIN accepted, StartTask(k) PROVE IdleIsNowhere'
  BY <1>3 DEF StartTask, IdleIsNowhere, Locked
<1>4. CASE \/ ConfirmPlan \/ ConfirmPrepared \/ ReviewRegenerate \/ ReviewContinue
           \/ ReviewLast \/ FinalizeSend \/ FinalizeClose \/ Restart
  BY <1>4 DEF ConfirmPlan, ConfirmPrepared, ReviewRegenerate, ReviewContinue, ReviewLast,
              FinalizeSend, FinalizeClose, Restart, Continue, IdleIsNowhere
<1>5. CASE \/ \E t \in Text : Receive(t) \/ SelectTopic(t) \/ ScoreReply(t)
           \/ \E k \in DOMAIN scoring : FinishScore(k)
           \/ UNCHANGED vars
  BY <1>1, <1>5 DEF Receive, SelectTopic, ScoreReply, FinishScore, vars, lock
<1>6. CASE \/ RunChain \/ ConfirmRefused \/ ConfirmAborted \/ GenerateClip \/ GenerateFailed
           \/ WarningFailed \/ ReviewIgnored \/ ReviewCancel \/ FinalizeDrift
           \/ FinalizeFailed \/ FinalizeReport
  BY <1>2, <1>6 DEF RunChain, ConfirmRefused, ConfirmAborted, GenerateClip, GenerateFailed,
                    WarningFailed, ReviewIgnored, ReviewCancel, FinalizeDrift, FinalizeFailed,
                    FinalizeReport
<1> QED
  BY <1>3, <1>4, <1>5, <1>6 DEF Next, Holder

LEMMA RefInvCorrect == Spec => []RefInv
<1>1. Init => RefInv
  BY OrderInit, IdleInit DEF RefInv
<1>2. RefInv /\ [Next]_vars => RefInv'
  BY OrderStep, IdleStep DEF RefInv
<1> QED
  BY <1>1, <1>2, PTL DEF Spec

---------------------------------------------------------------------------
(* The steps of the protocol.                                              *)

LEMMA PhaseAt ==
  ASSUME NEW r \in Review
  PROVE  /\ phase[r] = "open" <=> Opened(r)
         /\ phase[r] = "idle" <=> ~Opened(r) /\ ~(r <= used)
BY DEF phase, Phase, Opened

\* A step that approves nothing and picks up no other review closes those it lets go, and
\* when it lets none go it changes nothing of the protocol.
LEMMA ClosingStep ==
  ASSUME RefInv, UNCHANGED <<used, locked, delivered>>,
         pending' \in {0, pending, rid}, rid' \in {0, pending, rid}
  PROVE  \E R \in SUBSET (1..MaxReviews) : Protocol!Close(R)
<1> DEFINE R == {r \in Review : Opened(r) /\ ~Opened(r)'}
<1>1. \A r \in R : phase[r] = "open"
  BY PhaseAt
<1>2. ASSUME NEW r \in Review
      PROVE  Phase(r)' = IF r \in R THEN "closed" ELSE Phase(r)
  <2>1. Opened(r)' => Opened(r)
    BY BoundsAssumption DEF Opened, Review
  <2>2. Opened(r) => r <= used
    BY DEF Opened, RefInv, OrderInv, KnownReviews
  <2> QED
    BY <2>1, <2>2 DEF Phase, Opened
<1>3. phase' = [r \in DOMAIN phase |-> IF r \in R THEN "closed" ELSE phase[r]]
  BY <1>2 DEF phase, Review
<1>4. Protocol!Close(R)
  BY <1>1, <1>3 DEF Protocol!Close, phase, locked, delivered
<1> QED
  BY <1>4 DEF Review

\* The clips approved so far are those before the current one, and maybe the current one.
LEMMA LockedPrefix ==
  ASSUME TypeOK, ReviewedInOrder, NEW r \in Review, cur[r] \in Clip
  PROVE  locked[r] = IF clip[r][cur[r]] = "locked" THEN 1..cur[r] ELSE 1..(cur[r] - 1)
<1>1. N \in Nat /\ cur[r] \in 1..N
  BY BoundsAssumption DEF Clip
<1>2. \A i \in Clip : /\ i < cur[r] => clip[r][i] = "locked"
                      /\ i > cur[r] => clip[r][i] = "pending"
  BY DEF ReviewedInOrder
<1>3. \A i \in Clip : i < cur[r] \/ i = cur[r] \/ i > cur[r]
  BY <1>1 DEF Clip
<1>4. CASE clip[r][cur[r]] = "locked"
  <2>1. \A i \in Clip : clip[r][i] = "locked" <=> i <= cur[r]
    BY <1>1, <1>2, <1>3, <1>4 DEF Clip
  <2> QED
    BY <1>1, <1>4, <2>1 DEF locked, Clip
<1>5. CASE clip[r][cur[r]] # "locked"
  <2>1. \A i \in Clip : clip[r][i] = "locked" <=> i < cur[r]
    BY <1>1, <1>2, <1>3, <1>5 DEF Clip
  <2> QED
    BY <1>1, <1>5, <2>1 DEF locked, Clip
<1> QED
  BY <1>4, <1>5

\* Approving again what is approved changes nothing.
LEMMA SameApprovals ==
  ASSUME NEW r \in Review, NEW S, locked[r] = S, locked' = [locked EXCEPT ![r] = S]
  PROVE  UNCHANGED locked
<1>1. locked = [q \in Review |-> locked[q]]
  BY DEF locked
<1> HIDE DEF locked
<1> QED
  BY <1>1

\* A reply changes the status of one clip; what that does to the approvals.
LEMMA StatusOfCurrent ==
  ASSUME TypeOK, ReviewedInOrder, NEW r \in Review, cur[r] \in Clip, NEW status,
         clip' = [clip EXCEPT ![r][cur[r]] = status]
  PROVE  locked' = [locked EXCEPT ![r] = IF status = "locked" THEN 1..cur[r]
                                         ELSE 1..(cur[r] - 1)]
<1>1. clip \in [Review -> [Clip -> ClipStatus]]
  BY DEF TypeOK, ReviewType
<1>2. clip'[r] = [clip[r] EXCEPT ![cur[r]] = status]
  BY <1>1
<1>3. \A q \in Review : q # r => clip'[q] = clip[q]
  BY <1>1
<1>4. N \in Nat /\ cur[r] \in 1..N
  BY BoundsAssumption DEF Clip
<1>5. \A i \in Clip : /\ i < cur[r] => clip[r][i] = "locked"
                      /\ i > cur[r] => clip[r][i] = "pending"
  BY DEF ReviewedInOrder
<1>6. \A i \in Clip : /\ i < cur[r] => clip'[r][i] = "locked"
                      /\ i > cur[r] => clip'[r][i] # "locked"
                      /\ i = cur[r] => clip'[r][i] = status
  BY <1>1, <1>2, <1>4, <1>5 DEF Clip
<1>7. {i \in Clip : clip'[r][i] = "locked"} =
        IF status = "locked" THEN 1..cur[r] ELSE 1..(cur[r] - 1)
  <2>1. \A i \in Clip : i < cur[r] \/ i = cur[r] \/ i > cur[r]
    BY <1>4 DEF Clip
  <2>2. CASE status = "locked"
    <3>1. \A i \in Clip : clip'[r][i] = "locked" <=> i <= cur[r]
      BY <1>4, <1>6, <2>1, <2>2 DEF Clip
    <3> QED
      BY <1>4, <2>2, <3>1 DEF Clip
  <2>3. CASE status # "locked"
    <3>1. \A i \in Clip : clip'[r][i] = "locked" <=> i < cur[r]
      BY <1>4, <1>6, <2>1, <2>3 DEF Clip
    <3> QED
      BY <1>4, <2>3, <3>1 DEF Clip
  <2> QED
    BY <2>2, <2>3
<1> QED
  BY <1>3, <1>7 DEF locked

---------------------------------------------------------------------------
(* The initial states and the steps.                                       *)

LEMMA InitRefines == Init => Protocol!Init
<1> SUFFICES ASSUME Init PROVE Protocol!Init
  OBVIOUS
<1>1. \A r \in Review : Phase(r) = "idle"
  BY BoundsAssumption DEF Init, Phase, Review
<1>2. \A r \in Review : {i \in Clip : clip[r][i] = "locked"} = {}
  BY DEF Init
<1>3. \A r \in Review : (sent[r].parts # <<>>) = FALSE
  BY DEF Init, NoVideo
<1> QED
  BY <1>1, <1>2, <1>3 DEF Protocol!Init, Review

\* A confirmed plan opens a review that was idle, whatever is pending.
LEMMA ConfirmOpens ==
  ASSUME RefInv, ConfirmPlan
  PROVE  \E r \in 1..MaxReviews : Protocol!Open(r)
<1>1. used \in Nat /\ used < MaxReviews /\ rid = 0 /\ rid' = used + 1 /\ used' = used + 1
      /\ UNCHANGED <<pending, clip, sent>>
  BY DEF ConfirmPlan, RefInv, IdleIsNowhere, OrderInv, TypeOK, ReviewType
<1>2. used + 1 \in Review /\ pending \in Nat /\ pending <= used
  BY <1>1, BoundsAssumption DEF RefInv, OrderInv, TypeOK, SessionType, KnownReviews, Review
<1>3. phase[used + 1] = "idle"
  BY <1>1, <1>2, PhaseAt DEF Opened
<1>4. ASSUME NEW r \in Review
      PROVE  Phase(r)' = IF r = used + 1 THEN "open" ELSE Phase(r)
  BY <1>1, <1>2 DEF Phase, Review
<1>5. phase' = [phase EXCEPT ![used + 1] = "open"]
  BY <1>2, <1>4 DEF phase
<1>6. Protocol!Open(used + 1)
  BY <1>1, <1>3, <1>5 DEF Protocol!Open, phase, locked, delivered
<1> QED
  BY <1>2, <1>6 DEF Review

\* The reply that is handled is about an open review, at its current clip.
LEMMA ReplyIsOpen ==
  ASSUME RefInv, pc = "start", pending # 0
  PROVE  /\ rid = 0 /\ pending \in Review /\ cur[pending] \in Clip /\ cur[pending] \in 1..N
         /\ phase[pending] = "open" /\ TypeOK /\ ReviewedInOrder /\ pending <= used
<1>1. TypeOK /\ ReviewedInOrder /\ rid = 0 /\ pending <= used
  BY DEF RefInv, OrderInv, IdleIsNowhere, KnownReviews
<1>2. pending \in Review
  BY <1>1 DEF TypeOK, SessionType, Review
<1>3. cur[pending] \in 0..N /\ cur[pending] # 0
  BY <1>1, <1>2 DEF TypeOK, WorkType, ReviewType
<1> QED
  BY <1>1, <1>2, <1>3, BoundsAssumption, PhaseAt DEF Clip, Opened

\* A revision withdraws the last approval, when the clip under review has one.
LEMMA RegenerateRejects ==
  ASSUME RefInv, ReviewRegenerate
  PROVE  \/ \E r \in 1..MaxReviews : Protocol!Reject(r)
         \/ \E R \in SUBSET (1..MaxReviews) : Protocol!Close(R)
<1> DEFINE c == cur[pending]
<1>1. /\ clip' = [clip EXCEPT ![pending][c] = "dirty"]
      /\ UNCHANGED <<used, pending, sent>> /\ rid' = pending /\ pc = "start" /\ pending # 0
  BY DEF ReviewRegenerate, Reviewing, SetClip, session, history
<1>2. /\ rid = 0 /\ pending \in Review /\ c \in Clip /\ c \in 1..N
      /\ phase[pending] = "open" /\ TypeOK /\ ReviewedInOrder
  BY <1>1, ReplyIsOpen
<1>3. locked[pending] = IF clip[pending][c] = "locked" THEN 1..c ELSE 1..(c - 1)
  BY <1>2, LockedPrefix
<1>4. locked' = [locked EXCEPT ![pending] = 1..(c - 1)]
  <2>1. locked' = [locked EXCEPT ![pending] = IF "dirty" = "locked" THEN 1..c ELSE 1..(c - 1)]
    BY <1>1, <1>2, StatusOfCurrent, Zenon
  <2> QED
    BY <2>1
<1>5. UNCHANGED delivered
  BY <1>1 DEF delivered
<1>6. UNCHANGED phase
  BY <1>1, <1>2 DEF phase, Phase, Review
<1>7. CASE clip[pending][c] = "locked"
  <2>1. PICK r \in 1..MaxReviews : r = pending
    BY <1>2 DEF Review
  <2>2. Protocol!Reject(r)
    BY <2>1, <1>2, <1>3, <1>4, <1>5, <1>6, <1>7
    DEF Protocol!Reject, Protocol!Withdraw, phase, locked, delivered
  <2> QED
    BY <2>2
<1>8. CASE clip[pending][c] # "locked"
  <2>1. UNCHANGED locked
    BY <1>2, <1>3, <1>4, <1>8, SameApprovals
  <2> QED
    BY <1>1, <1>2, <1>5, <2>1, ClosingStep
<1> QED
  BY <1>7, <1>8

\* A reply that continues approves the current clip, unless it is approved already.
LEMMA ContinueApproves ==
  ASSUME RefInv, ReviewContinue \/ ReviewLast
  PROVE  \/ \E r \in 1..MaxReviews : Protocol!Approve(r)
         \/ \E R \in SUBSET (1..MaxReviews) : Protocol!Close(R)
<1> DEFINE c == cur[pending]
<1>1. /\ clip' = [clip EXCEPT ![pending][c] = "locked"]
      /\ UNCHANGED <<used, pending, sent>> /\ rid' = pending /\ pc = "start" /\ pending # 0
  BY DEF ReviewContinue, ReviewLast, Reviewing, LockClip, SetClip, session
<1>2. /\ rid = 0 /\ pending \in Review /\ c \in Clip /\ c \in 1..N
      /\ phase[pending] = "open" /\ TypeOK /\ ReviewedInOrder
  BY <1>1, ReplyIsOpen
<1>3. locked[pending] = IF clip[pending][c] = "locked" THEN 1..c ELSE 1..(c - 1)
  BY <1>2, LockedPrefix
<1>4. locked' = [locked EXCEPT ![pending] = 1..c]
  BY <1>1, <1>2, StatusOfCurrent
<1>5. UNCHANGED delivered
  BY <1>1 DEF delivered
<1>6. UNCHANGED phase
  BY <1>1, <1>2 DEF phase, Phase, Review
<1>7. CASE clip[pending][c] # "locked"
  <2>1. PICK r \in 1..MaxReviews : r = pending
    BY <1>2 DEF Review
  <2>2. Protocol!Approve(r)
    BY <2>1, <1>2, <1>3, <1>4, <1>5, <1>6, <1>7 DEF Protocol!Approve, phase, locked, delivered
  <2> QED
    BY <2>2
<1>8. CASE clip[pending][c] = "locked"
  <2>1. UNCHANGED locked
    BY <1>2, <1>3, <1>4, <1>8, SameApprovals
  <2> QED
    BY <1>1, <1>2, <1>5, <2>1, ClosingStep
<1> QED
  BY <1>7, <1>8

\* A cancelled review is closed, and the approval of its current clip withdrawn.
LEMMA CancelCloses ==
  ASSUME RefInv, ReviewCancel
  PROVE  \/ \E r \in 1..MaxReviews : Protocol!Cancel(r)
         \/ \E R \in SUBSET (1..MaxReviews) : Protocol!Close(R)
<1> DEFINE c == cur[pending]
<1>1. /\ clip' = [clip EXCEPT ![pending][c] = "cancelled"] /\ pending' = 0 /\ rid' = 0
      /\ UNCHANGED <<used, sent>> /\ pc = "start" /\ pending # 0
  BY DEF ReviewCancel, Reviewing, SetClip, Release
<1>2. /\ rid = 0 /\ pending \in Review /\ c \in Clip /\ c \in 1..N
      /\ phase[pending] = "open" /\ TypeOK /\ ReviewedInOrder /\ pending <= used
  BY <1>1, ReplyIsOpen
<1>3. locked[pending] = IF clip[pending][c] = "locked" THEN 1..c ELSE 1..(c - 1)
  BY <1>2, LockedPrefix
<1>4. locked' = [locked EXCEPT ![pending] = 1..(c - 1)]
  <2>1. locked' = [locked EXCEPT ![pending] =
                     IF "cancelled" = "locked" THEN 1..c ELSE 1..(c - 1)]
    BY <1>1, <1>2, StatusOfCurrent, Zenon
  <2> QED
    BY <2>1
<1>5. UNCHANGED delivered
  BY <1>1 DEF delivered
<1>6. phase' = [phase EXCEPT ![pending] = "closed"]
  <2>1. ASSUME NEW r \in Review
        PROVE  Phase(r)' = IF r = pending THEN "closed" ELSE Phase(r)
    BY <1>1, <1>2 DEF Phase, Review
  <2> QED
    BY <1>2, <2>1 DEF phase
<1>7. CASE clip[pending][c] = "locked"
  <2>1. PICK r \in 1..MaxReviews : r = pending
    BY <1>2 DEF Review
  <2>2. Protocol!Cancel(r)
    BY <2>1, <1>2, <1>3, <1>4, <1>5, <1>6, <1>7
    DEF Protocol!Cancel, Protocol!Withdraw, phase, locked, delivered
  <2> QED
    BY <2>2
<1>8. CASE clip[pending][c] # "locked"
  <2>1. UNCHANGED locked
    BY <1>2, <1>3, <1>4, <1>8, SameApprovals
  <2> QED
    BY <1>1, <1>2, <1>5, <2>1, ClosingStep
<1> QED
  BY <1>7, <1>8

\* What is sent is not empty, and nothing else is sent.
LEMMA SentSomething ==
  ASSUME RefInv, FinalizeSend
  PROVE  /\ rid \in Review /\ sent'[rid].parts # <<>>
         /\ \A r \in Review \ {rid} : sent'[r] = sent[r]
<1>1. TypeOK /\ pc = "finalize" /\ paths[rid] # <<>>
  BY DEF FinalizeSend, RefInv, OrderInv
<1>2. rid \in Review /\ paths[rid] \in Seq(Clip)
  BY <1>1 DEF TypeOK, WorkType, LockType, ReviewType, Review
<1>3. PICK v : sent' = [sent EXCEPT ![rid] = v] /\ v.parts # <<>>
  <2> DEFINE part(k) == [clip |-> paths[rid][k], take |-> take[rid][paths[rid][k]]]
             all == [k \in DOMAIN paths[rid] |-> part(k)]
  <2>1. all # <<>> /\ <<part(1)>> # <<>>
    <3>1. 1 \in DOMAIN paths[rid]
      BY <1>1, <1>2, EmptySeq, LenProperties
    <3>2. DOMAIN all # {} /\ DOMAIN <<part(1)>> = {1} /\ DOMAIN <<>> = {}
      BY <3>1
    <3> QED
      BY <3>2
  <2>2. \/ sent' = [sent EXCEPT ![rid] = [parts |-> all, joined |-> TRUE]]
        \/ sent' = [sent EXCEPT ![rid] = [parts |-> <<part(1)>>, joined |-> FALSE]]
    BY DEF FinalizeSend
  <2>3. /\ [parts |-> all, joined |-> TRUE].parts # <<>>
        /\ [parts |-> <<part(1)>>, joined |-> FALSE].parts # <<>>
    BY <2>1
  <2> HIDE DEF all, part
  <2> QED
    BY <2>2, <2>3, Zenon
<1>4. sent \in [Review -> [parts : Seq(Shot), joined : BOOLEAN]]
  BY <1>1 DEF TypeOK, HistoryType
<1> QED
  BY <1>2, <1>3, <1>4

\* The video is sent while the review is open and when every clip is approved.
LEMMA SendDelivers ==
  ASSUME RefInv, FinalizeSend
  PROVE  \E r \in 1..MaxReviews : Protocol!Deliver(r)
<1>1. /\ pc = "finalize" /\ UNCHANGED <<used, pending, rid, clip>>
      /\ TypeOK /\ ReviewedInOrder
  BY DEF FinalizeSend, session, review, RefInv, OrderInv
<1>2. rid \in Review
  BY SentSomething
<1>3. cur[rid] = N /\ N \in Clip /\ clip[rid][N] = "locked"
  BY <1>1, BoundsAssumption DEF RefInv, OrderInv, WorkInOrder, Clip
<1>4. phase[rid] = "open" /\ locked[rid] = 1..N
  BY <1>1, <1>2, <1>3, LockedPrefix, PhaseAt DEF Opened
<1>5. UNCHANGED <<phase, locked>>
  BY <1>1 DEF phase, Phase, locked
<1>6. delivered' = [delivered EXCEPT ![rid] = TRUE]
  BY SentSomething DEF delivered
<1>7. PICK r \in 1..MaxReviews : r = rid
  BY <1>2 DEF Review
<1>8. Protocol!Deliver(r)
  BY <1>4, <1>5, <1>6, <1>7 DEF Protocol!Deliver, phase, locked, delivered
<1> QED
  BY <1>8

LEMMA StepRefines == RefInv /\ [Next]_vars => [Protocol!Next]_(Protocol!protocol)
<1> SUFFICES ASSUME RefInv, [Next]_vars PROVE Protocol!Next
  OBVIOUS
<1>1. CASE \/ \E t \in Text : Receive(t) \/ SelectTopic(t) \/ ScoreReply(t)
           \/ \E k \in DOMAIN scoring : FinishScore(k)
           \/ \E k \in DOMAIN accepted : StartTask(k)
           \/ UNCHANGED vars
  <2>1. UNCHANGED <<used, clip, sent, pending, rid>>
    BY <1>1 DEF Receive, SelectTopic, ScoreReply, FinishScore, StartTask, vars, session, review,
                lock, history
  <2> QED
    BY <2>1, ClosingStep DEF locked, delivered, Protocol!Next
<1>2. CASE \/ RunChain \/ ConfirmRefused \/ ConfirmAborted \/ GenerateClip \/ GenerateFailed
           \/ WarningFailed \/ ReviewIgnored \/ FinalizeDrift \/ FinalizeFailed
           \/ FinalizeReport
  <2>1. UNCHANGED <<used, clip, sent>> /\ pending' \in {pending, rid} /\ rid' = 0
    BY <1>2 DEF RunChain, ConfirmRefused, ConfirmAborted, GenerateClip, GenerateFailed,
                WarningFailed, ReviewIgnored, FinalizeDrift, FinalizeFailed, FinalizeReport,
                Release, session, review, history
  <2> QED
    BY <2>1, ClosingStep DEF locked, delivered, Protocol!Next
<1>3. CASE ConfirmPrepared \/ FinalizeClose \/ Restart
  <2>1. UNCHANGED <<used, clip, sent>> /\ pending' \in {0, pending} /\ rid' \in {0, rid}
    BY <1>3 DEF ConfirmPrepared, FinalizeClose, Restart, session, review, history
  <2> QED
    BY <2>1, ClosingStep DEF locked, delivered, Protocol!Next
<1>4. CASE \/ ConfirmPlan \/ ReviewRegenerate \/ ReviewContinue \/ ReviewLast \/ ReviewCancel
           \/ FinalizeSend
  BY <1>4, ConfirmOpens, RegenerateRejects, ContinueApproves, CancelCloses, SendDelivers
  DEF Protocol!Next
<1> QED
  BY <1>1, <1>2, <1>3, <1>4 DEF Next, Holder

\* The conversation implements the approval protocol: whatever the interleaving of messages
\* and tasks, the failures and the restarts, a review is opened once, its clips are approved
\* one after the other, only the last approval is withdrawn, the video is delivered while
\* the review is open and every clip approved, and a closed review never changes.
THEOREM ReviewImplementsProtocol == Spec => ImplementsProtocol
<1>1. Init => Protocol!Init
  BY InitRefines
<1>2. RefInv /\ [Next]_vars => [Protocol!Next]_(Protocol!protocol)
  BY StepRefines
<1> QED
  BY <1>1, <1>2, RefInvCorrect, PTL DEF Spec, ImplementsProtocol, Protocol!Spec

---------------------------------------------------------------------------
(* What a joined video is made of.                                         *)

Elements(s) == {s[k] : k \in DOMAIN s}
Joined(r) == Elements(paths[r])

\* The clip taken off the list that is being generated again.
Redone(r) == IF pc = "generate" /\ rid = r /\ idx = cur[r] THEN {idx} ELSE {}

\* In an open review every clip up to the current one is in the list of files, or its
\* revision was lost, or is being generated; a plan not confirmed yet has no files.
FilesOrLost ==
  \A r \in Review :
    /\ r > used => paths[r] = <<>> /\ lost[r] = {}
    /\ Opened(r) => /\ Joined(r) \cup lost[r] \cup Redone(r) = 1..cur[r]
                    /\ Joined(r) \cap lost[r] = {}

FilesInv == RefInv /\ FilesOrLost

\* The clips of a list after one was added, ...
LEMMA AppendNewElements ==
  ASSUME NEW s \in Seq(Clip), NEW c \in Clip
  PROVE  Elements(AppendNew(s, c)) = Elements(s) \cup {c}
<1> USE DEF Elements
<1>1. CASE \E k \in DOMAIN s : s[k] = c
  BY <1>1 DEF AppendNew
<1>2. CASE ~\E k \in DOMAIN s : s[k] = c
  <2>1. AppendNew(s, c) = Append(s, c)
    BY <1>2, Zenon DEF AppendNew
  <2>2. /\ Append(s, c) \in Seq(Clip) /\ Len(Append(s, c)) = Len(s) + 1
        /\ Append(s, c)[Len(s) + 1] = c
        /\ \A k \in 1..Len(s) : Append(s, c)[k] = s[k]
    BY AppendProperties
  <2>3. /\ DOMAIN Append(s, c) = 1..(Len(s) + 1) /\ DOMAIN s = 1..Len(s) /\ Len(s) \in Nat
    BY <2>2, LenProperties
  <2> QED
    BY <2>1, <2>2, <2>3
<1> QED
  BY <1>1, <1>2

\* ... and after the last one of an ordered list was taken off.
LEMMA WithoutElements ==
  ASSUME NEW s \in Seq(Clip), NEW c \in Clip, Increasing(s)
  PROVE  Elements(Without(s, c)) = Elements(s) \ {c}
<1> USE DEF Elements
<1>1. /\ DOMAIN s = 1..Len(s) /\ Len(s) \in Nat
      /\ \A k \in DOMAIN s : s[k] \in Int
  BY BoundsAssumption, LenProperties DEF Clip
<1>2. CASE \E k \in DOMAIN s : s[k] = c
  <2> DEFINE k == CHOOSE k \in DOMAIN s : s[k] = c
             t == DropAt(s, k)
  <2>1. k \in DOMAIN s /\ s[k] = c
    BY <1>2
  <2>2. /\ t \in Seq(Clip) /\ Len(t) = Len(s) - 1
        /\ \A j \in DOMAIN t : t[j] = IF j < k THEN s[j] ELSE s[j + 1]
    BY <2>1, DropAtElements
  <2>3. DOMAIN t = 1..(Len(s) - 1)
    BY <2>2, LenProperties
  <2>4. Without(s, c) = t
    BY <1>2 DEF Without
  <2> HIDE DEF k, t
  <2>5. \A j \in DOMAIN s : s[j] = c => j = k
    BY <1>1, <2>1 DEF Increasing
  <2>6. \A j \in DOMAIN t : \E i \in DOMAIN s : t[j] = s[i] /\ i # k
    BY <1>1, <2>1, <2>2, <2>3
  <2>7. ASSUME NEW i \in DOMAIN s, i # k PROVE \E j \in DOMAIN t : t[j] = s[i]
    <3>1. CASE i < k
      <4>1. i \in DOMAIN t
        BY <1>1, <2>1, <2>3, <3>1
      <4> QED
        BY <2>2, <3>1, <4>1
    <3>2. CASE i > k
      <4>1. i - 1 \in DOMAIN t /\ ~(i - 1 < k) /\ i - 1 + 1 = i
        BY <1>1, <2>1, <2>3, <3>2
      <4>2. t[i - 1] = s[i - 1 + 1]
        BY <2>2, <4>1
      <4> QED
        BY <4>1, <4>2
    <3> QED
      BY <1>1, <2>1, <2>7, <3>1, <3>2
  <2> QED
    BY <2>1, <2>4, <2>5, <2>6, <2>7
<1>3. CASE ~\E k \in DOMAIN s : s[k] = c
  BY <1>3 DEF Without
<1> QED
  BY <1>2, <1>3

LEMMA FilesInit == Init => FilesOrLost
<1> SUFFICES ASSUME Init PROVE FilesOrLost
  OBVIOUS
<1>1. /\ \A r \in Review : paths[r] = <<>> /\ lost[r] = {} /\ ~Opened(r)
  BY BoundsAssumption DEF Init, Opened, Review
<1> QED
  BY <1>1 DEF FilesOrLost

\* A step that generates nothing, and changes neither the list nor the losses.
LEMMA FilesKept ==
  ASSUME FilesInv, UNCHANGED <<used, cur, paths, lost>>, pc # "generate",
         pc' = "generate" => rid' # 0 /\ idx' # cur[rid'],
         pending' \in {0, pending, rid}, rid' \in {0, pending, rid}
  PROVE  FilesOrLost'
<1> SUFFICES ASSUME NEW r \in Review
             PROVE  /\ r > used => paths[r] = <<>> /\ lost[r] = {}
                    /\ Opened(r)' => /\ Joined(r) \cup lost[r] \cup Redone(r)' = 1..cur[r]
                                     /\ Joined(r) \cap lost[r] = {}
  BY DEF FilesOrLost, Joined
<1>1. Opened(r)' => Opened(r)
  BY BoundsAssumption DEF Opened, Review
<1>2. Redone(r) = {} /\ Redone(r)' = {}
  BY DEF Redone
<1> QED
  BY <1>1, <1>2 DEF FilesInv, FilesOrLost

\* What is about to be generated: the dirty current clip or the untouched one after it.
LEMMA WorkOfGenerate ==
  ASSUME RefInv, pc = "generate"
  PROVE  /\ rid \in Review /\ idx \in Clip /\ idx \in Int /\ TypeOK
         /\ cur[rid] \in Int /\ cur[rid] >= 0 /\ rid <= used
         /\ paths[rid] \in Seq(Clip)
         /\ \/ idx = cur[rid] /\ clip[rid][idx] = "dirty"
            \/ idx = cur[rid] + 1 /\ clip[rid][idx] = "pending"
<1>1. TypeOK /\ WorkInOrder /\ ReviewedInOrder /\ KnownReviews
  BY DEF RefInv, OrderInv
<1>2. rid \in Review /\ idx \in Clip
  BY <1>1 DEF TypeOK, WorkType, LockType, Review, Clip
<1>3. cur[rid] \in 0..N /\ paths[rid] \in Seq(Clip)
  BY <1>1, <1>2 DEF TypeOK, ReviewType
<1>4. idx \in Int /\ rid <= used
  BY <1>1, <1>2, BoundsAssumption DEF Clip, KnownReviews
<1> QED
  BY <1>1, <1>2, <1>3, <1>4, BoundsAssumption DEF WorkInOrder, ReviewedInOrder

\* A failed generation loses the clip when it was a revision, and only then.
LEMMA FilesLost ==
  ASSUME FilesInv, pc = "generate", LoseRevision, Release,
         UNCHANGED <<used, cur, paths, pending>>
  PROVE  FilesOrLost'
<1>1. /\ rid \in Review /\ idx \in Clip /\ TypeOK /\ rid <= used
      /\ cur[rid] \in Int /\ cur[rid] >= 0
      /\ \/ idx = cur[rid] /\ clip[rid][idx] = "dirty"
         \/ idx = cur[rid] + 1 /\ clip[rid][idx] = "pending"
  BY WorkOfGenerate DEF FilesInv
<1>2. rid' = 0 /\ pc' # "generate"
  BY <1>1, ReleaseType DEF TypeOK
<1>3. used \in Nat /\ lost \in [Review -> SUBSET Clip] /\ idx \in Int
  BY <1>1, BoundsAssumption DEF TypeOK, ReviewType, HistoryType, Clip
<1>4. ASSUME NEW r \in Review
      PROVE  /\ r > used => paths[r] = <<>> /\ lost'[r] = {}
             /\ Opened(r)' => /\ Joined(r) \cup lost'[r] \cup Redone(r)' = 1..cur[r]
                              /\ Joined(r) \cap lost'[r] = {}
  <2>1. Redone(r)' = {} /\ (Opened(r)' => Opened(r))
    BY <1>2, BoundsAssumption DEF Redone, Opened, Review
  <2>2. CASE r # rid
    <3>1. lost'[r] = lost[r] /\ Redone(r) = {}
      BY <1>1, <1>3, <2>2 DEF LoseRevision, Redone
    <3> QED
      BY <2>1, <3>1 DEF FilesInv, FilesOrLost
  <2>3. CASE r = rid
    <3>1. ~(r > used) /\ Opened(r)
      BY <1>1, <1>3, <2>3 DEF Opened, Review
    <3>2. /\ Joined(r) \cup lost[r] \cup Redone(r) = 1..cur[r]
          /\ Joined(r) \cap lost[r] = {}
      BY <3>1 DEF FilesInv, FilesOrLost
    <3>3. CASE idx = cur[rid] /\ clip[rid][idx] = "dirty"
      <4>1. Redone(r) = {idx} /\ lost'[r] = lost[r] \cup {idx}
        BY <1>1, <1>3, <2>3, <3>3 DEF Redone, LoseRevision
      <4>2. idx \notin Joined(r)
        <5>1. \A k \in DOMAIN paths[rid] : paths[rid][k] < idx
          BY DEF FilesInv, RefInv, OrderInv, WorkInOrder
        <5>2. ~(idx < idx)
          BY <1>3
        <5> QED
          BY <2>3, <5>1, <5>2, Zenon DEF Joined, Elements
      <4> QED
        BY <2>1, <3>1, <3>2, <4>1, <4>2
    <3>4. CASE idx = cur[rid] + 1 /\ clip[rid][idx] = "pending"
      <4>1. Redone(r) = {} /\ lost'[r] = lost[r]
        BY <1>1, <2>3, <3>4 DEF Redone, LoseRevision
      <4> QED
        BY <2>1, <3>1, <3>2, <4>1
    <3> QED
      BY <1>1, <3>3, <3>4
  <2> QED
    BY <2>2, <2>3
<1> QED
  BY <1>4 DEF FilesOrLost, Joined

\* A generated clip is in the list and no longer lost.
LEMMA FilesGenerated ==
  ASSUME FilesInv, GenerateClip
  PROVE  FilesOrLost'
<1>1. /\ pc = "generate" /\ pending' = rid /\ UNCHANGED used /\ Release
      /\ paths' = [paths EXCEPT ![rid] = AppendNew(paths[rid], idx)]
      /\ cur' = [cur EXCEPT ![rid] = idx]
      /\ lost' = [lost EXCEPT ![rid] = lost[rid] \ {idx}]
  BY DEF GenerateClip
<1>2. /\ rid \in Review /\ idx \in Clip /\ TypeOK /\ rid <= used /\ idx \in Int
      /\ cur[rid] \in Int /\ cur[rid] >= 0 /\ paths[rid] \in Seq(Clip)
      /\ idx = cur[rid] \/ idx = cur[rid] + 1
  BY <1>1, WorkOfGenerate DEF FilesInv
<1>3. rid' = 0 /\ pc' # "generate"
  BY <1>1, <1>2, ReleaseType DEF TypeOK
<1>4. /\ used \in Nat /\ lost \in [Review -> SUBSET Clip] /\ cur \in [Review -> 0..N]
      /\ paths \in [Review -> Seq(Clip)]
  BY <1>2 DEF TypeOK, ReviewType, HistoryType
<1>5. ASSUME NEW r \in Review
      PROVE  /\ r > used => paths'[r] = <<>> /\ lost'[r] = {}
             /\ Opened(r)' => /\ Joined(r)' \cup lost'[r] \cup Redone(r)' = 1..cur'[r]
                              /\ Joined(r)' \cap lost'[r] = {}
  <2>1. Redone(r)' = {} /\ (Opened(r)' => r = rid)
    BY <1>1, <1>3, BoundsAssumption DEF Redone, Opened, Review
  <2>2. CASE r # rid
    <3>1. lost'[r] = lost[r] /\ paths'[r] = paths[r]
      BY <1>1, <1>2, <1>4, <2>2
    <3> QED
      BY <2>1, <2>2, <3>1 DEF FilesInv, FilesOrLost
  <2>3. CASE r = rid
    <3>1. ~(r > used) /\ Opened(r)
      BY <1>2, <1>4, <2>3 DEF Opened, Review
    <3>2. /\ Joined(r) \cup lost[r] \cup Redone(r) = 1..cur[r]
          /\ Joined(r) \cap lost[r] = {}
      BY <3>1 DEF FilesInv, FilesOrLost
    <3>3. /\ paths'[r] = AppendNew(paths[r], idx) /\ cur'[r] = idx
          /\ lost'[r] = lost[r] \ {idx}
      BY <1>1, <1>2, <1>4, <2>3
    <3>4. Joined(r)' = Joined(r) \cup {idx}
      BY <1>2, <2>3, <3>3, AppendNewElements DEF Joined
    <3>5. Redone(r) \subseteq {idx}
      BY DEF Redone
    <3>6. Joined(r) \cup lost[r] \cup {idx} = 1..idx
      <4>1. CASE idx = cur[rid]
        <5>1. Redone(r) = {idx}
          BY <1>1, <2>3, <4>1 DEF Redone
        <5> QED
          BY <2>3, <3>2, <4>1, <5>1
      <4>2. CASE idx = cur[rid] + 1
        <5>1. Redone(r) = {} /\ 1..idx = 1..cur[r] \cup {idx}
          BY <1>2, <2>3, <4>2 DEF Redone
        <5> QED
          BY <3>2, <5>1
      <4> QED
        BY <1>2, <4>1, <4>2
    <3>7. Joined(r)' \cup lost'[r] \cup Redone(r)' = 1..cur'[r]
      BY <2>1, <3>3, <3>4, <3>6
    <3>8. Joined(r)' \cap lost'[r] = {}
      BY <3>2, <3>3, <3>4
    <3> QED
      BY <3>1, <3>7, <3>8
  <2> QED
    BY <2>2, <2>3
<1> QED
  BY <1>1, <1>5 DEF FilesOrLost

\* A revision takes the current clip off the list before it is generated again.
LEMMA FilesRedone ==
  ASSUME FilesInv, ReviewRegenerate
  PROVE  FilesOrLost'
<1> DEFINE c == cur[pending]
<1>1. /\ paths' = [paths EXCEPT ![pending] = Without(paths[pending], c)]
      /\ UNCHANGED <<used, cur, lost, pending>>
      /\ pc' = "generate" /\ rid' = pending /\ idx' = c /\ pc = "start" /\ pending # 0
  BY DEF ReviewRegenerate, Reviewing, Continue, session, history
<1>2. /\ rid = 0 /\ pending \in Review /\ c \in Clip /\ c \in 1..N /\ TypeOK
      /\ ReviewedInOrder /\ pending <= used
  BY <1>1, ReplyIsOpen DEF FilesInv
<1>3. /\ used \in Nat /\ paths \in [Review -> Seq(Clip)]
  BY <1>2 DEF TypeOK, ReviewType
<1>4. Elements(Without(paths[pending], c)) = Joined(pending) \ {c}
  BY <1>2, <1>3, WithoutElements DEF ReviewedInOrder, Joined
<1>5. ASSUME NEW r \in Review
      PROVE  /\ r > used => paths'[r] = <<>> /\ lost[r] = {}
             /\ Opened(r)' => /\ Joined(r)' \cup lost[r] \cup Redone(r)' = 1..cur[r]
                              /\ Joined(r)' \cap lost[r] = {}
  <2>1. Redone(r) = {} /\ (Opened(r)' => r = pending)
    BY <1>1, <1>2, BoundsAssumption DEF Redone, Opened, Review
  <2>2. CASE r # pending
    <3>1. paths'[r] = paths[r]
      BY <1>1, <1>2, <1>3, <2>2
    <3> QED
      BY <2>1, <2>2, <3>1 DEF FilesInv, FilesOrLost
  <2>3. CASE r = pending
    <3>1. ~(r > used) /\ Opened(r)
      BY <1>2, <1>3, <2>3 DEF Opened, Review
    <3>2. Joined(r) \cup lost[r] = 1..cur[r] /\ Joined(r) \cap lost[r] = {}
      BY <2>1, <3>1 DEF FilesInv, FilesOrLost
    <3>3. paths'[r] = Without(paths[pending], c)
      BY <1>1, <1>2, <1>3, <2>3
    <3>4. Joined(r)' = Joined(r) \ {c}
      BY <1>4, <2>3, <3>3 DEF Joined
    <3>5. Redone(r)' = {c} /\ c \in 1..cur[r]
      BY <1>1, <1>2, <2>3 DEF Redone
    <3> QED
      BY <3>1, <3>2, <3>4, <3>5
  <2> QED
    BY <2>2, <2>3
<1> QED
  BY <1>1, <1>5 DEF FilesOrLost

\* A new plan starts with no files.
LEMMA FilesOfNewPlan ==
  ASSUME FilesInv, ConfirmPlan
  PROVE  FilesOrLost'
<1>1. /\ rid = 0 /\ rid' = used + 1 /\ used' = used + 1 /\ pc = "start" /\ pc' = "prepare"
      /\ UNCHANGED <<pending, cur, paths, lost>> /\ used \in Nat
  BY DEF ConfirmPlan, Continue, FilesInv, RefInv, IdleIsNowhere, OrderInv, TypeOK, ReviewType
<1> SUFFICES ASSUME NEW r \in Review
             PROVE  /\ r > used' => paths[r] = <<>> /\ lost[r] = {}
                    /\ Opened(r)' => /\ Joined(r) \cup lost[r] \cup Redone(r)' = 1..cur[r]
                                     /\ Joined(r) \cap lost[r] = {}
  BY <1>1 DEF FilesOrLost, Joined
<1>2. Redone(r) = {} /\ Redone(r)' = {} /\ (Opened(r)' => Opened(r) \/ r = used + 1)
  BY <1>1 DEF Redone, Opened
<1>3. CASE r = used + 1
  <2>1. paths[r] = <<>> /\ lost[r] = {} /\ cur[r] = 0
    BY <1>1, <1>3 DEF FilesInv, FilesOrLost, RefInv, OrderInv, KnownReviews
  <2>2. Joined(r) = {}
    BY <2>1 DEF Joined, Elements
  <2> QED
    BY <1>2, <2>1, <2>2
<1>4. CASE r # used + 1
  <2>1. r > used' => r > used
    BY <1>1 DEF Review
  <2> QED
    BY <1>2, <1>4, <2>1 DEF FilesInv, FilesOrLost
<1> QED
  BY <1>3, <1>4

LEMMA FilesStep == FilesInv /\ [Next]_vars => FilesOrLost'
<1> SUFFICES ASSUME FilesInv, [Next]_vars PROVE FilesOrLost'
  OBVIOUS
<1>t. RefInv /\ TypeOK /\ LockType
  BY DEF FilesInv, RefInv, OrderInv, TypeOK
<1>1. CASE \/ \E t \in Text : Receive(t) \/ SelectTopic(t) \/ ScoreReply(t)
           \/ \E k \in DOMAIN scoring : FinishScore(k)
           \/ UNCHANGED vars
  <2>1. UNCHANGED <<used, cur, paths, lost, pending, rid, pc, idx>>
    BY <1>1 DEF Receive, SelectTopic, ScoreReply, FinishScore, vars, session, review, lock,
                history
  <2> QED
    BY <2>1 DEF FilesInv, FilesOrLost, Opened, Joined, Redone
<1>2. ASSUME NEW k \in DOMAIN accepted, StartTask(k) PROVE FilesOrLost'
  <2>1. UNCHANGED <<used, cur, paths, lost, pending, rid, idx>> /\ pc' \in {pc, "start"}
        /\ (pc' # pc => pc = "free")
    BY <1>2 DEF StartTask, session, review, history, Locked
  <2>2. \A r \in Review : Redone(r)' = Redone(r)
    BY <2>1 DEF Redone
  <2> QED
    BY <2>1, <2>2 DEF FilesInv, FilesOrLost, Opened, Joined
<1>3. CASE \/ RunChain \/ ConfirmRefused \/ ConfirmAborted \/ ReviewIgnored \/ ReviewCancel
           \/ FinalizeDrift \/ FinalizeFailed \/ FinalizeReport
  <2>1. /\ UNCHANGED <<used, cur, paths, lost>> /\ pending' \in {0, pending} /\ Release
        /\ pc # "generate"
    BY <1>3 DEF RunChain, ConfirmRefused, ConfirmAborted, ReviewIgnored, ReviewCancel, Reviewing,
                FinalizeDrift, FinalizeFailed, FinalizeReport, session, review, history
  <2>2. rid' = 0 /\ pc' # "generate"
    BY <1>t, <2>1, ReleaseType
  <2> QED
    BY <2>1, <2>2, FilesKept
<1>4. CASE ReviewContinue \/ ReviewLast
  <2>1. /\ UNCHANGED <<used, cur, paths, lost, pending>> /\ pc = "start" /\ pending # 0
        /\ rid' = pending /\ (pc' = "finalize" \/ idx' = cur[pending] + 1)
    BY <1>4 DEF ReviewContinue, ReviewLast, Reviewing, Continue, session
  <2>2. cur[pending] \in 1..N
    BY <1>t, <2>1, ReplyIsOpen
  <2>3. cur[pending] + 1 # cur[pending]
    BY <2>2
  <2>4. pc' = "generate" => rid' # 0 /\ idx' # cur[rid']
    BY <2>1, <2>3
  <2> QED
    BY <2>1, <2>4, FilesKept
<1>5. CASE ConfirmPrepared
  <2>1. /\ UNCHANGED <<used, cur, paths, lost, pending, rid>> /\ pc = "prepare" /\ idx' = 1
    BY <1>5 DEF ConfirmPrepared, session, review
  <2>2. cur[rid] = 0 /\ rid # 0
    BY <1>t, <2>1 DEF RefInv, OrderInv, WorkInOrder, TypeOK, WorkType
  <2> QED
    BY <2>1, <2>2, FilesKept
<1>6. CASE FinalizeSend \/ FinalizeClose
  <2>1. /\ UNCHANGED <<used, cur, paths, lost, rid>> /\ pending' \in {0, pending}
        /\ pc # "generate" /\ pc' # "generate"
    BY <1>6 DEF FinalizeSend, FinalizeClose, Continue, session, review, history
  <2> QED
    BY <2>1, FilesKept
<1>7. CASE Restart
  <2>1. /\ UNCHANGED <<used, cur, paths, lost>> /\ pending' = 0 /\ rid' = 0
    BY <1>7 DEF Restart, review
  <2>2. \A r \in Review : ~Opened(r)'
    BY <2>1, BoundsAssumption DEF Opened, Review
  <2> QED
    BY <2>1, <2>2 DEF FilesInv, FilesOrLost
<1>8. CASE GenerateFailed \/ WarningFailed
  <2>1. /\ UNCHANGED <<used, cur, paths, pending>> /\ pc = "generate" /\ LoseRevision /\ Release
    BY <1>8 DEF GenerateFailed, WarningFailed, session, review
  <2> QED
    BY <2>1, FilesLost
<1> QED
  BY <1>1, <1>2, <1>3, <1>4, <1>5, <1>6, <1>7, <1>8, FilesGenerated, FilesRedone, FilesOfNewPlan
  DEF Next, Holder

\* A video joined from its clips lacks exactly those whose last revision could not be
\* generated, whatever messages, failures and restarts came before: the list of files and
\* the clips lost share the plan out between them as long as the review is open.
THEOREM AlwaysCompleteUnlessLost == Spec => CompleteUnlessLost
<1> DEFINE Complete(r) == Clip \ {sent'[r].parts[k].clip : k \in DOMAIN sent'[r].parts} = lost[r]
<1>1. ASSUME FilesInv, [Next]_vars, NEW r \in Review, sent'[r] # sent[r], sent'[r].joined
      PROVE  Complete(r)
  <2>1. FinalizeSend
    BY <1>1 DEF Next, Holder, Receive, SelectTopic, ScoreReply, FinishScore, StartTask, RunChain,
         ConfirmRefused, ConfirmPlan, ConfirmPrepared, ConfirmAborted, GenerateClip,
         GenerateFailed, WarningFailed, ReviewIgnored, ReviewCancel, ReviewRegenerate,
         ReviewContinue, ReviewLast, FinalizeDrift, FinalizeFailed, FinalizeClose,
         FinalizeReport, Restart, history, vars
  <2>2. sent \in [Review -> [parts : Seq(Shot), joined : BOOLEAN]] /\ TypeOK
    BY <1>1 DEF FilesInv, RefInv, OrderInv, TypeOK, HistoryType
  <2>3. rid = r /\ pc = "finalize"
    BY <1>1, <2>1, <2>2 DEF FinalizeSend
  <2>4. cur[r] = N
    BY <1>1, <2>3 DEF FilesInv, RefInv, OrderInv, WorkInOrder
  <2>5. Joined(r) \cup lost[r] = 1..N /\ Joined(r) \cap lost[r] = {}
    <3>1. Redone(r) = {} /\ Opened(r)
      BY <2>3 DEF Redone, Opened
    <3> QED
      BY <1>1, <2>4, <3>1 DEF FilesInv, FilesOrLost
  <2> DEFINE part(k) == [clip |-> paths[r][k], take |-> take[r][paths[r][k]]]
             all == [k \in DOMAIN paths[r] |-> part(k)]
  <2>6. sent'[r].parts = all
    <3>1. \/ sent' = [sent EXCEPT ![r] = [parts |-> all, joined |-> TRUE]]
          \/ sent' = [sent EXCEPT ![r] = [parts |-> <<part(1)>>, joined |-> FALSE]]
      BY <2>1, <2>3 DEF FinalizeSend
    <3> HIDE DEF all, part
    <3>2. \/ sent'[r] = [parts |-> all, joined |-> TRUE]
          \/ sent'[r] = [parts |-> <<part(1)>>, joined |-> FALSE]
      BY <2>2, <3>1
    <3> QED
      BY <1>1, <3>2
  <2>7. {all[k].clip : k \in DOMAIN all} = Joined(r)
    BY DEF Joined, Elements
  <2> HIDE DEF all
  <2>8. Clip \ Joined(r) = lost[r]
    BY <2>5 DEF Clip
  <2> QED
    BY <2>6, <2>7, <2>8
<1>2. FilesInv /\ [Next]_vars =>
        [\A r \in Review : sent'[r] # sent[r] /\ sent'[r].joined => Complete(r)]_vars
  BY <1>1
<1>3. Spec => []FilesInv
  <2>1. Init => FilesInv
    BY OrderInit, IdleInit, FilesInit DEF FilesInv, RefInv
  <2>2. FilesInv /\ [Next]_vars => FilesInv'
    BY OrderStep, IdleStep, FilesStep DEF FilesInv, RefInv
  <2> QED
    BY <2>1, <2>2, PTL DEF Spec
<1> QED
  BY <1>2, <1>3, PTL DEF Spec, CompleteUnlessLost
=============================================================================
