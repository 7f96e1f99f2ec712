-------------------------- MODULE ClipReviewWaiting --------------------------
(* What ClipReview guarantees where the environment is not arbitrary: the chain of first   *)
(* frames when every generation and every preview succeeds, and what a chat that waits    *)
(* for the answer to one message before it sends the next one may rely on.                 *)
EXTENDS ClipReviewProofs

LEMMA NotFaulty ==
  ASSUME NEW f, f \notin Faults
  PROVE  ~Fault(f)
BY DEF Fault

---------------------------------------------------------------------------
(* The chain of first frames.                                              *)

\* The shot a clip may start from: the approved take of the one before it, or none.
Follows(i, shot, takes, failures) ==
  \/ shot = NoShot /\ (i = 1 \/ failures > 0)
  \/ i > 1 /\ shot = [clip |-> i - 1, take |-> takes[i - 1]]

\* The clip the tail frame of a review is for.
Target(r) == IF pc = "generate" /\ rid = r THEN idx ELSE cur[r]

TailFollows ==
  \A r \in Review :
    /\ Opened(r) /\ Target(r) # 0 => Follows(Target(r), tail[r], approved[r], faults)
    /\ cur[r] = 0 => tail[r] = NoShot
    /\ \A i \in Clip : take[r][i] > 0 =>
         i <= cur[r] /\ Follows(i, frame[r][i], approved[r], faults)

ChainInv == RefInv /\ TailFollows

LEMMA ChainFrameFollows == ChainInv => ChainFrame
BY DEF ChainInv, TailFollows, ChainFrame, Follows

\* A shot stays the right one while the approvals before it stay.
LEMMA FollowsKept ==
  ASSUME NEW i \in Clip, NEW shot, NEW f \in Nat, NEW g \in Nat, f <= g, NEW a, NEW b,
         \A j \in Clip : j < i => b[j] = a[j], Follows(i, shot, a, f)
  PROVE  Follows(i, shot, b, g)
<1>1. N \in Nat /\ i \in 1..N
  BY BoundsAssumption DEF Clip
<1>2. i > 1 => i - 1 \in Clip /\ i - 1 < i
  BY <1>1 DEF Clip
<1> QED
  BY <1>1, <1>2 DEF Follows

LEMMA ChainInit == Init => TailFollows
<1> SUFFICES ASSUME Init PROVE TailFollows
  OBVIOUS
<1>1. \A r \in Review : /\ ~Opened(r) /\ tail[r] = NoShot
                        /\ \A i \in Clip : ~(take[r][i] > 0)
  BY BoundsAssumption DEF Init, Opened, Review
<1> QED
  BY <1>1 DEF TailFollows

\* A step that generates nothing and keeps the tail frames.
LEMMA ChainKept ==
  ASSUME ChainInv, TypeOK', UNCHANGED <<cur, tail, take, frame>>, faults' \in {faults, faults + 1},
         \A r \in Review : Opened(r)' /\ Target(r)' # 0 =>
           \/ Opened(r) /\ Target(r)' = Target(r)
           \/ cur[r] = 0 /\ Target(r)' = 1,
         \A r \in Review : \A j \in Clip : approved'[r][j] # approved[r][j] =>
           j >= cur[r] /\ (Opened(r)' => j >= Target(r)')
  PROVE  TailFollows'
<1>1. TypeOK /\ faults \in Nat /\ faults' \in Nat /\ faults <= faults'
  BY DEF ChainInv, RefInv, OrderInv, TypeOK, HistoryType
<1> SUFFICES ASSUME NEW r \in Review
             PROVE  /\ Opened(r)' /\ Target(r)' # 0 =>
                         Follows(Target(r)', tail[r], approved'[r], faults')
                    /\ cur[r] = 0 => tail[r] = NoShot
                    /\ \A i \in Clip : take[r][i] > 0 =>
                         i <= cur[r] /\ Follows(i, frame[r][i], approved'[r], faults')
  BY DEF TailFollows
<1>2. cur[r] \in Int /\ Target(r)' \in 0..N /\ \A i \in Clip : i \in Int
  BY <1>1, BoundsAssumption DEF TypeOK, ReviewType, LockType, Target, Clip
<1>3. ASSUME Opened(r)', Target(r)' # 0
      PROVE  Follows(Target(r)', tail[r], approved'[r], faults')
  <2>1. Target(r)' \in Clip
    BY <1>2, <1>3, BoundsAssumption DEF Clip
  <2>2. \A j \in Clip : j < Target(r)' => approved'[r][j] = approved[r][j]
    BY <1>2, <1>3
  <2>3. CASE Opened(r) /\ Target(r)' = Target(r)
    <3>1. Follows(Target(r)', tail[r], approved[r], faults)
      BY <1>3, <2>3 DEF ChainInv, TailFollows
    <3> HIDE DEF Target
    <3> QED
      BY <1>1, <2>1, <2>2, <3>1, FollowsKept
  <2>4. CASE cur[r] = 0 /\ Target(r)' = 1
    BY <2>4 DEF ChainInv, TailFollows, Follows
  <2> QED
    BY <1>3, <2>3, <2>4
<1>4. ASSUME NEW i \in Clip, take[r][i] > 0
      PROVE  i <= cur[r] /\ Follows(i, frame[r][i], approved'[r], faults')
  <2>1. i <= cur[r] /\ Follows(i, frame[r][i], approved[r], faults)
    BY <1>4 DEF ChainInv, TailFollows
  <2>2. \A j \in Clip : j < i => approved'[r][j] = approved[r][j]
    BY <1>2, <2>1
  <2> QED
    BY <1>1, <2>1, <2>2, FollowsKept
<1> QED
  BY <1>3, <1>4 DEF ChainInv, TailFollows

\* A clip is generated from the tail frame.
LEMMA ChainGenerated ==
  ASSUME ChainInv, TypeOK', GenerateClip
  PROVE  TailFollows'
<1>1. /\ pc = "generate" /\ pending' = rid /\ UNCHANGED <<tail, approved>> /\ Release
      /\ take' = [take EXCEPT ![rid][idx] = take[rid][idx] + 1]
      /\ frame' = [frame EXCEPT ![rid][idx] = tail[rid]]
      /\ cur' = [cur EXCEPT ![rid] = idx]
      /\ faults' \in {faults, faults + 1}
  BY DEF GenerateClip, NoFault, Fault
<1>2. /\ rid \in Review /\ idx \in Clip /\ TypeOK /\ idx \in Int /\ idx > 0
      /\ cur[rid] \in Int /\ cur[rid] <= idx
  BY <1>1, WorkOfGenerate, BoundsAssumption DEF ChainInv, Clip
<1>3. rid' = 0 /\ pc' # "generate"
  BY <1>1, <1>2, ReleaseType DEF TypeOK
<1>4. /\ take \in [Review -> [Clip -> Nat]] /\ frame \in [Review -> [Clip -> Shot]]
      /\ cur \in [Review -> 0..N] /\ faults \in Nat /\ faults' \in Nat /\ faults <= faults'
  BY <1>1, <1>2 DEF TypeOK, ReviewType, HistoryType
<1>5. ASSUME NEW r \in Review, NEW i \in Clip, NEW shot, Follows(i, shot, approved[r], faults)
      PROVE  Follows(i, shot, approved[r], faults')
  BY <1>4, <1>5, FollowsKept
<1>6. Follows(idx, tail[rid], approved[rid], faults)
  BY <1>1, <1>2 DEF ChainInv, TailFollows, Target, Opened
<1> SUFFICES ASSUME NEW r \in Review
             PROVE  /\ Opened(r)' /\ Target(r)' # 0 =>
                         Follows(Target(r)', tail[r], approved[r], faults')
                    /\ cur'[r] = 0 => tail[r] = NoShot
                    /\ \A i \in Clip : take'[r][i] > 0 =>
                         i <= cur'[r] /\ Follows(i, frame'[r][i], approved[r], faults')
  BY <1>1 DEF TailFollows
<1>7. CASE r = rid
  <2>1. cur'[r] = idx /\ Target(r)' = idx
    BY <1>2, <1>3, <1>4, <1>1, <1>7 DEF Target
  <2>2. ASSUME NEW i \in Clip, take'[r][i] > 0
        PROVE  i <= cur'[r] /\ Follows(i, frame'[r][i], approved[r], faults')
    <3>1. CASE i = idx
      <4>1. frame'[r][i] = tail[rid]
        BY <1>1, <1>2, <1>4, <1>7, <3>1
      <4> QED
        BY <1>2, <1>5, <1>6, <1>7, <2>1, <3>1, <4>1
    <3>2. CASE i # idx
      <4>1. frame'[r][i] = frame[r][i] /\ take'[r][i] = take[r][i]
        BY <1>1, <1>2, <1>4, <1>7, <3>2
      <4>2. i <= cur[r] /\ Follows(i, frame[r][i], approved[r], faults)
        BY <2>2, <4>1 DEF ChainInv, TailFollows
      <4>3. i \in Int
        BY BoundsAssumption DEF Clip
      <4> QED
        BY <1>2, <1>5, <1>7, <2>1, <4>1, <4>2, <4>3
    <3> QED
      BY <3>1, <3>2
  <2>3. Follows(idx, tail[r], approved[r], faults')
    BY <1>2, <1>5, <1>6, <1>7
  <2>4. cur'[r] # 0 /\ Follows(Target(r)', tail[r], approved[r], faults')
    BY <1>2, <2>1, <2>3
  <2> QED
    BY <2>2, <2>4
<1>8. CASE r # rid
  <2>1. ~Opened(r)'
    BY <1>1, <1>3, <1>8, BoundsAssumption DEF Opened, Review
  <2>2. cur'[r] = cur[r] /\ take'[r] = take[r] /\ frame'[r] = frame[r]
    BY <1>1, <1>2, <1>4, <1>8
  <2> QED
    BY <1>5, <2>1, <2>2 DEF ChainInv, TailFollows
<1> QED
  BY <1>7, <1>8

\* An approval hands the last frame of the take it is for to the clip after it.
LEMMA ChainContinued ==
  ASSUME ChainInv, TypeOK', ReviewContinue
  PROVE  TailFollows'
<1> DEFINE c == cur[pending]
<1>1. /\ pc = "start" /\ pending # 0 /\ pc' = "generate" /\ rid' = pending /\ idx' = c + 1
      /\ approved' = [approved EXCEPT ![pending][c] = take[pending][c]]
      /\ UNCHANGED <<pending, cur, take, frame>> /\ faults' \in {faults, faults + 1}
      /\ ~(c >= N)
      /\ \/ tail' = [tail EXCEPT ![pending] = TailOf(pending, c)]
         \/ faults' = faults + 1 /\ tail' = [tail EXCEPT ![pending] = NoShot]
  BY DEF ReviewContinue, Reviewing, LockClip, Continue, session, NoFault, Fault, IsLast
<1>2. pending \in Review /\ c \in Clip /\ c \in 1..N /\ TypeOK
  BY <1>1, ReplyIsOpen DEF ChainInv
<1>3. /\ approved \in [Review -> [Clip -> Nat]] /\ tail \in [Review -> Shot]
      /\ cur \in [Review -> 0..N] /\ faults \in Nat /\ faults' \in Nat /\ faults <= faults'
      /\ \A i \in Clip : i \in Int
  <2>1. /\ approved \in [Review -> [Clip -> Nat]] /\ tail \in [Review -> Shot]
        /\ cur \in [Review -> 0..N] /\ faults \in Nat
    BY <1>2 DEF TypeOK, ReviewType, HistoryType
  <2>2. faults' \in Nat /\ faults <= faults'
    BY <1>1, <2>1
  <2>3. \A i \in Clip : i \in Int
    BY BoundsAssumption DEF Clip
  <2> QED
    BY <2>1, <2>2, <2>3
<1>4. ASSUME NEW r \in Review, NEW j \in Clip, ~(r = pending /\ j = c)
      PROVE  approved'[r][j] = approved[r][j]
  BY <1>1, <1>2, <1>3, <1>4
<1>5. approved'[pending][c] = take[pending][c]
  BY <1>1, <1>2, <1>3
<1> SUFFICES ASSUME NEW r \in Review
             PROVE  /\ Opened(r)' /\ Target(r)' # 0 =>
                         Follows(Target(r)', tail'[r], approved'[r], faults')
                    /\ cur[r] = 0 => tail'[r] = NoShot
                    /\ \A i \in Clip : take[r][i] > 0 =>
                         i <= cur[r] /\ Follows(i, frame[r][i], approved'[r], faults')
  BY <1>1 DEF TailFollows
<1>6. ASSUME NEW i \in Clip, take[r][i] > 0
      PROVE  i <= cur[r] /\ Follows(i, frame[r][i], approved'[r], faults')
  <2>1. i <= cur[r] /\ Follows(i, frame[r][i], approved[r], faults)
    BY <1>6 DEF ChainInv, TailFollows
  <2>2. \A j \in Clip : j < i => approved'[r][j] = approved[r][j]
    BY <1>2, <1>3, <1>4, <2>1
  <2> QED
    BY <1>3, <2>1, <2>2, FollowsKept
<1>7. CASE r = pending
  <2>1. c # 0 /\ cur[r] # 0
    BY <1>2, <1>7
  <2>4. Target(r)' = c + 1
    BY <1>1, <1>7, Zenon DEF Target
  <2>2. tail'[r] = [clip |-> c, take |-> take[pending][c]] \/ (faults' > 0 /\ tail'[r] = NoShot)
    <3>1. tail'[pending] = TailOf(pending, c) \/ (faults' > 0 /\ tail'[pending] = NoShot)
      <4>1. CASE tail' = [tail EXCEPT ![pending] = TailOf(pending, c)]
        BY <1>2, <1>3, <4>1
      <4>2. CASE faults' = faults + 1 /\ tail' = [tail EXCEPT ![pending] = NoShot]
        BY <1>2, <1>3, <4>2
      <4> QED
        BY <1>1, <4>1, <4>2
    <3> QED
      BY <1>7, <3>1 DEF TailOf
  <2>3. Follows(c + 1, tail'[r], approved'[r], faults')
    BY <1>2, <1>5, <1>7, <2>2 DEF Follows
  <2> QED
    BY <1>6, <2>1, <2>3, <2>4
<1>8. CASE r # pending
  <2>1. ~Opened(r)' /\ tail'[r] = tail[r]
    BY <1>1, <1>2, <1>3, <1>8 DEF Opened
  <2> QED
    BY <1>6, <2>1 DEF ChainInv, TailFollows
<1> QED
  BY <1>7, <1>8

LEMMA ChainStep ==
  ASSUME "generate" \notin Faults, "send" \notin Faults, ChainInv, [Next]_vars, TypeOK'
  PROVE  TailFollows'
<1>t. TypeOK /\ LockType /\ RefInv
  BY DEF ChainInv, RefInv, OrderInv, TypeOK
<1>u. /\ \A r \in Review : cur[r] \in 0..N
      /\ approved \in [Review -> [Clip -> Nat]] /\ take \in [Review -> [Clip -> Nat]]
  BY <1>t DEF TypeOK, ReviewType, HistoryType
<1>1. CASE \/ \E t \in Text : Receive(t) \/ SelectTopic(t) \/ ScoreReply(t)
           \/ \E k \in DOMAIN scoring : FinishScore(k)
           \/ UNCHANGED vars
  <2>1. UNCHANGED <<cur, tail, take, frame, approved, pending, rid, pc, idx>>
        /\ faults' \in {faults, faults + 1}
    BY <1>1 DEF Receive, SelectTopic, ScoreReply, FinishScore, vars, session, review, lock,
                history, NoFault, Fault
  <2>2. \A r \in Review : Opened(r)' = Opened(r) /\ Target(r)' = Target(r)
    BY <2>1 DEF Opened, Target
  <2> QED
    BY <2>1, <2>2, ChainKept
<1>2. ASSUME NEW k \in DOMAIN accepted, StartTask(k) PROVE TailFollows'
  <2>1. UNCHANGED <<cur, tail, take, frame, approved, pending, rid, idx, faults>>
        /\ pc' \in {pc, "start"} /\ (pc' # pc => pc = "free")
    BY <1>2 DEF StartTask, session, review, history, Locked
  <2>2. \A r \in Review : Opened(r)' = Opened(r) /\ Target(r)' = Target(r)
    BY <2>1 DEF Opened, Target
  <2> QED
    BY <2>1, <2>2, ChainKept
<1>3. CASE \/ RunChain \/ ConfirmRefused \/ ConfirmAborted \/ ReviewIgnored \/ ReviewCancel
           \/ FinalizeDrift \/ FinalizeFailed \/ FinalizeReport
  <2>1. /\ UNCHANGED <<cur, tail, take, frame, approved>> /\ pending' \in {0, pending}
        /\ pc # "generate" /\ Release /\ faults' \in {faults, faults + 1}
    BY <1>3 DEF RunChain, ConfirmRefused, ConfirmAborted, ReviewIgnored, ReviewCancel, Reviewing,
                FinalizeDrift, FinalizeFailed, FinalizeReport, session, review, history,
                NoFault, Fault
  <2>2. rid' = 0 /\ pc' # "generate"
    BY <1>t, <2>1, ReleaseType
  <2>3. \A r \in Review : (Opened(r)' => Opened(r)) /\ Target(r)' = Target(r)
    BY <2>1, <2>2, BoundsAssumption DEF Opened, Target, Review
  <2> QED
    BY <2>1, <2>3, ChainKept
<1>4. CASE ReviewRegenerate
  <2>1. /\ UNCHANGED <<cur, tail, take, frame, approved, pending, faults>> /\ rid' = pending
        /\ idx' = cur[pending] /\ pc = "start"
    BY <1>4 DEF ReviewRegenerate, Reviewing, session, history
  <2>2. \A r \in Review : (Opened(r)' => Opened(r)) /\ Target(r)' = Target(r)
    BY <2>1 DEF Opened, Target
  <2> QED
    BY <2>1, <2>2, ChainKept
<1>5. CASE ReviewLast
  <2> DEFINE c == cur[pending]
  <2>1. /\ UNCHANGED <<cur, tail, take, frame, pending, faults>> /\ rid' = pending
        /\ approved' = [approved EXCEPT ![pending][c] = take[pending][c]]
        /\ pc = "start" /\ pc' = "finalize" /\ pending # 0
    BY <1>5 DEF ReviewLast, Reviewing, LockClip, Continue, session
  <2>2. pending \in Review /\ c \in Clip
    BY <1>t, <2>1, ReplyIsOpen
  <2>3. \A r \in Review : (Opened(r)' => Opened(r)) /\ Target(r)' = Target(r)
                          /\ Target(r)' = cur[r]
    BY <2>1 DEF Opened, Target
  <2>4. \A r \in Review : \A j \in Clip : approved'[r][j] # approved[r][j] => j = cur[r]
    BY <1>u, <2>1, <2>2
  <2>5. \A r \in Review : \A j \in Clip : j = cur[r] => j >= cur[r] /\ j >= Target(r)'
    BY <1>u, <2>3
  <2> QED
    BY <2>1, <2>3, <2>4, <2>5, ChainKept
<1>6. CASE ConfirmPlan
  <2>1. /\ UNCHANGED <<cur, tail, take, frame, approved, pending>> /\ rid = 0
        /\ rid' = used + 1 /\ pc = "start" /\ pc' = "prepare"
        /\ faults' \in {faults, faults + 1} /\ used \in Nat
    BY <1>6, <1>t DEF ConfirmPlan, Continue, NoFault, Fault, RefInv, IdleIsNowhere, TypeOK,
                      ReviewType
  <2>2. \A r \in Review : Target(r)' = Target(r) /\ (Opened(r)' => Opened(r) \/ Target(r)' = 0)
    <3>1. \A r \in Review : r = used + 1 => cur[r] = 0
      BY <1>t, <2>1 DEF RefInv, OrderInv, KnownReviews
    <3> QED
      BY <2>1, <3>1 DEF Opened, Target
  <2> QED
    BY <2>1, <2>2, ChainKept
<1>7. CASE ConfirmPrepared
  <2>1. /\ UNCHANGED <<cur, tail, take, frame, approved, pending, rid>>
        /\ idx' = 1 /\ pc = "prepare" /\ pc' = "generate" /\ faults' \in {faults, faults + 1}
    BY <1>7 DEF ConfirmPrepared, Continue, session, review, NoFault, Fault
  <2>2. cur[rid] = 0
    BY <1>t, <2>1 DEF RefInv, OrderInv, WorkInOrder
  <2>3. \A r \in Review : /\ Opened(r)' = Opened(r)
                          /\ Target(r)' = Target(r) \/ (cur[r] = 0 /\ Target(r)' = 1)
    BY <2>1, <2>2 DEF Opened, Target
  <2> QED
    BY <2>1, <2>3, ChainKept
<1>8. CASE FinalizeSend \/ FinalizeClose \/ Restart
  <2>1. /\ UNCHANGED <<cur, tail, take, frame, approved>> /\ pending' \in {0, pending}
        /\ pc' \in {"close", "report", "free"} /\ rid' \in {0, rid}
        /\ faults' \in {faults, faults + 1} /\ (pc = "generate" => pending' = 0 /\ rid' = 0)
    BY <1>8 DEF FinalizeSend, FinalizeClose, Restart, Continue, session, review, history,
                NoFault, Fault
  <2>2. \A r \in Review : Opened(r)' => Opened(r) /\ Target(r)' = Target(r)
    BY <2>1, BoundsAssumption DEF Opened, Target, Review
  <2> QED
    BY <2>1, <2>2, ChainKept
<1>9. ~GenerateFailed /\ ~WarningFailed
  BY NotFaulty DEF GenerateFailed, WarningFailed
<1> QED
  BY <1>1, <1>2, <1>3, <1>4, <1>5, <1>6, <1>7, <1>8, <1>9, ChainGenerated, ChainContinued
  DEF Next, Holder

\* When no generation fails and every message can be sent, each take of a clip starts from
\* the last frame of the approved take of the clip before it, for any number of queued
\* replies, other failures and restarts. (A failed generation breaks the chain: the tail
\* frame then is the clip's own.)
THEOREM AlwaysChainFrame ==
  ASSUME "generate" \notin Faults, "send" \notin Faults
  PROVE  Spec => []ChainFrame
<1>1. Init => ChainInv
  BY OrderInit, IdleInit, ChainInit DEF ChainInv, RefInv
<1>2. ChainInv /\ [Next]_vars => ChainInv'
  <2> SUFFICES ASSUME ChainInv, [Next]_vars PROVE ChainInv'
    OBVIOUS
  <2>1. RefInv' /\ TypeOK'
    BY OrderStep, IdleStep DEF ChainInv, RefInv, OrderInv
  <2> QED
    BY <2>1, ChainStep DEF ChainInv
<1> QED
  BY <1>1, <1>2, ChainFrameFollows, PTL DEF Spec

---------------------------------------------------------------------------
(* A chat that waits: one accepted task at a time.                         *)

\* One task, queued or started, and one score reply.
OneTask ==
  /\ Len(accepted) <= 1 /\ waiting = <<>> /\ Len(scoring) <= 1
  /\ accepted # <<>> => pc = "free"

LEMMA OneTaskInit == Init => OneTask
BY DEF Init, OneTask

\* Leaving the semaphore frees it: nobody waits.
LEMMA ReleaseFrees ==
  ASSUME OneTask, Release
  PROVE  pc' = "free" /\ waiting' = <<>> /\ accepted' = accepted /\ rid' = 0 /\ idx' = 0
BY DEF OneTask, Release

\* The started task is the only one.
LEMMA StartAlone ==
  ASSUME OneTask, LockType, NEW k \in DOMAIN accepted, StartTask(k)
  PROVE  /\ pc = "free" /\ pc' = "start" /\ task' = accepted[k]
         /\ accepted' = <<>> /\ UNCHANGED waiting
<1>1. accepted \in Seq(Task) /\ accepted # <<>> /\ Len(accepted) \in Nat
  BY LenProperties DEF LockType
<1>2. pc = "free" /\ waiting = <<>>
  BY <1>1 DEF OneTask
<1>3. ~Locked
  BY <1>2 DEF Locked
<1>4. DropAt(accepted, k) \in Seq(Task) /\ Len(DropAt(accepted, k)) = Len(accepted) - 1
  BY <1>1, DropAtElements
<1>5. Len(accepted) = 1
  <2>1. Len(accepted) # 0
    BY <1>1, EmptySeq
  <2>2. Len(accepted) <= 1
    BY DEF OneTask
  <2>3. Len(accepted) \in Nat
    BY <1>1
  <2>4. \A n \in Nat : n # 0 /\ n <= 1 => n = 1
    OBVIOUS
  <2> QED
    BY <2>1, <2>2, <2>3, <2>4, Zenon
<1>6. DropAt(accepted, k) = <<>>
  BY <1>4, <1>5, EmptySeq
<1> QED
  BY <1>2, <1>3, <1>6 DEF StartTask

LEMMA OneTaskStep ==
  ASSUME MaxQueue = 1, TypeOK, OneTask, [Next]_vars
  PROVE  OneTask'
<1>t. accepted \in Seq(Task) /\ scoring \in Seq(Scoring) /\ LockType
  BY DEF TypeOK, LockType, ScoringType
<1>1. ASSUME NEW t \in Text, Receive(t) PROVE OneTask'
  <2>1. /\ pc = "free" /\ Len(accepted) < 1 /\ UNCHANGED <<pc, waiting, scoring>>
        /\ accepted' = Append(accepted, [kind |-> Destination(t), text |-> t, seen |-> shown])
    BY <1>1 DEF Receive, Busy, Locked
  <2>2. Len(accepted') = Len(accepted) + 1
    BY <1>t, <2>1
  <2> QED
    BY <1>t, <2>1, <2>2 DEF OneTask
<1>2. ASSUME NEW t \in Text, ScoreReply(t) PROVE OneTask'
  <2>1. Len(scoring) < 1 /\ UNCHANGED <<pc, waiting, accepted>>
        /\ \E x : scoring' = Append(scoring, x)
    BY <1>2 DEF ScoreReply, lock
  <2>2. Len(scoring') = Len(scoring) + 1
    BY <1>t, <2>1
  <2> QED
    BY <1>t, <2>1, <2>2 DEF OneTask
<1>3. ASSUME NEW k \in DOMAIN scoring, FinishScore(k) PROVE OneTask'
  <2>1. Len(DropAt(scoring, k)) = Len(scoring) - 1
    BY <1>t, DropAtElements
  <2> QED
    BY <1>3, <1>t, <2>1 DEF FinishScore, lock, OneTask
<1>4. ASSUME NEW k \in DOMAIN accepted, StartTask(k) PROVE OneTask'
  <2>1. UNCHANGED scoring
    BY <1>4 DEF StartTask
  <2> QED
    BY <1>4, <1>t, <2>1, StartAlone DEF OneTask
<1>5. CASE (\E t \in Text : SelectTopic(t)) \/ UNCHANGED vars
  BY <1>5 DEF SelectTopic, vars, lock, OneTask
<1>6. CASE \/ RunChain \/ ConfirmRefused \/ ConfirmAborted \/ GenerateClip \/ GenerateFailed
           \/ WarningFailed \/ ReviewIgnored \/ ReviewCancel \/ FinalizeDrift
           \/ FinalizeFailed \/ FinalizeReport
  <2>1. Release /\ UNCHANGED scoring
    BY <1>6 DEF RunChain, ConfirmRefused, ConfirmAborted, GenerateClip, GenerateFailed,
                WarningFailed, ReviewIgnored, ReviewCancel, FinalizeDrift, FinalizeFailed,
                FinalizeReport
  <2> QED
    BY <2>1, ReleaseFrees DEF OneTask
<1>7. CASE \/ ConfirmPlan \/ ConfirmPrepared \/ ReviewRegenerate \/ ReviewContinue
           \/ ReviewLast \/ FinalizeSend \/ FinalizeClose
  <2>1. pc # "free" /\ UNCHANGED <<accepted, waiting, scoring>>
    BY <1>7 DEF ConfirmPlan, ConfirmPrepared, ReviewRegenerate, ReviewContinue, ReviewLast,
                Reviewing, FinalizeSend, FinalizeClose, Continue
  <2> QED
    BY <2>1 DEF OneTask
<1>8. CASE Restart
  BY <1>8 DEF Restart, OneTask
<1> QED
  BY <1>1, <1>2, <1>3, <1>4, <1>5, <1>6, <1>7, <1>8 DEF Next, Holder

WaitInv == RefInv /\ OneTask

LEMMA WaitInit == Init => WaitInv
BY OrderInit, IdleInit, OneTaskInit DEF WaitInv, RefInv

LEMMA WaitStep ==
  ASSUME MaxQueue = 1, WaitInv, [Next]_vars
  PROVE  WaitInv' /\ TypeOK'
BY OrderStep, IdleStep, OneTaskStep DEF WaitInv, RefInv, OrderInv

---------------------------------------------------------------------------
(* What was approved is what was shown.                                    *)

\* The last preview of the chat is the file of the clip that is under review, ...
ShownIsPending ==
  pending # 0 =>
    shown = <<pending, [clip |-> cur[pending], take |-> take[pending][cur[pending]]]>>

\* ... and what the author of the message at work had seen.
SeenIsShown ==
  /\ \A k \in DOMAIN accepted : accepted[k].seen = shown
  /\ pc = "start" => task.seen = shown

SeenInv == WaitInv /\ ShownIsPending /\ SeenIsShown

LEMMA SeenStep ==
  ASSUME MaxQueue = 1, "send" \notin Faults, SeenInv, [Next]_vars
  PROVE  (ShownIsPending /\ SeenIsShown)'
<1>t. /\ TypeOK /\ LockType /\ accepted \in Seq(Task) /\ OneTask
      /\ (pc # "free" => accepted = <<>>)
  BY DEF SeenInv, WaitInv, RefInv, OrderInv, TypeOK, LockType, OneTask
<1>1. ASSUME NEW t \in Text, Receive(t) PROVE (ShownIsPending /\ SeenIsShown)'
  <2>1. /\ UNCHANGED <<pc, task, shown, pending, cur, take>>
        /\ accepted' = Append(accepted, [kind |-> Destination(t), text |-> t, seen |-> shown])
        /\ Len(accepted) < 1 /\ pc = "free"
    BY <1>1 DEF Receive, session, review, Busy, Locked
  <2>2. accepted = <<>>
    BY <1>t, <2>1, EmptySeq, LenProperties
  <2>3. accepted' = <<[kind |-> Destination(t), text |-> t, seen |-> shown]>>
    BY <2>1, <2>2
  <2>4. \A k \in DOMAIN accepted' : accepted'[k].seen = shown
    BY <2>3
  <2> QED
    BY <2>1, <2>4 DEF SeenInv, ShownIsPending, SeenIsShown
<1>2. ASSUME NEW k \in DOMAIN accepted, StartTask(k) PROVE (ShownIsPending /\ SeenIsShown)'
  <2>1. UNCHANGED <<shown, pending, cur, take>> /\ accepted' = <<>> /\ task' = accepted[k]
    BY <1>2, <1>t, StartAlone DEF StartTask, session, review, history
  <2> QED
    BY <2>1 DEF SeenInv, ShownIsPending, SeenIsShown
<1>3. CASE \/ \E t \in Text : SelectTopic(t) \/ ScoreReply(t)
           \/ \E k \in DOMAIN scoring : FinishScore(k)
           \/ UNCHANGED vars
  <2>1. UNCHANGED <<shown, pending, cur, take, accepted, task, pc>>
    BY <1>3 DEF SelectTopic, ScoreReply, FinishScore, vars, session, review, lock, history
  <2> QED
    BY <2>1 DEF SeenInv, ShownIsPending, SeenIsShown
<1>4. CASE \/ RunChain \/ ConfirmRefused \/ ConfirmAborted \/ GenerateFailed
           \/ ReviewIgnored \/ ReviewCancel \/ FinalizeDrift \/ FinalizeFailed \/ FinalizeReport
  <2>1. UNCHANGED <<shown, cur, take>> /\ pending' \in {0, pending} /\ Release /\ pc # "free"
    BY <1>4 DEF RunChain, ConfirmRefused, ConfirmAborted, GenerateFailed, ReviewIgnored,
                ReviewCancel, Reviewing, FinalizeDrift, FinalizeFailed, FinalizeReport, session,
                review, history
  <2>2. pc' = "free" /\ accepted' = <<>>
    BY <1>t, <2>1, ReleaseFrees
  <2> QED
    BY <2>1, <2>2 DEF SeenInv, ShownIsPending, SeenIsShown
<1>5. CASE \/ ConfirmPlan \/ ConfirmPrepared \/ ReviewRegenerate \/ ReviewContinue \/ ReviewLast
           \/ FinalizeSend \/ FinalizeClose
  <2>1. /\ UNCHANGED <<shown, cur, take, accepted>> /\ pending' \in {0, pending}
        /\ pc # "free" /\ pc' # "start"
    BY <1>5 DEF ConfirmPlan, ConfirmPrepared, ReviewRegenerate, ReviewContinue, ReviewLast,
                Reviewing, FinalizeSend, FinalizeClose, Continue, session, review, history
  <2> QED
    BY <1>t, <2>1 DEF SeenInv, ShownIsPending, SeenIsShown
<1>6. CASE GenerateClip
  <2>1. /\ pc = "generate" /\ pending' = rid /\ Release
        /\ take' = [take EXCEPT ![rid][idx] = take[rid][idx] + 1]
        /\ cur' = [cur EXCEPT ![rid] = idx]
        /\ shown' = <<rid, [clip |-> idx, take |-> take[rid][idx] + 1]>>
    BY <1>6, NotFaulty DEF GenerateClip
  <2>2. rid \in Review /\ idx \in Clip
    BY <2>1, WorkOfGenerate DEF SeenInv, WaitInv
  <2>3. cur'[rid] = idx /\ take'[rid][idx] = take[rid][idx] + 1
    BY <1>t, <2>1, <2>2 DEF TypeOK, ReviewType
  <2>4. pc' = "free" /\ accepted' = <<>>
    BY <1>t, <2>1, ReleaseFrees
  <2> QED
    BY <2>1, <2>3, <2>4 DEF ShownIsPending, SeenIsShown
<1>7. CASE Restart
  BY <1>7 DEF Restart, ShownIsPending, SeenIsShown
<1>8. ~WarningFailed
  BY NotFaulty DEF WarningFailed
<1> QED
  BY <1>1, <1>2, <1>3, <1>4, <1>5, <1>6, <1>7, <1>8 DEF Next, Holder

\* In a chat that waits, and as long as messages can be sent, every approval that is
\* recorded was given to the preview its author had seen, through failed generations,
\* revisions and restarts. (A reply sent before the answer to another one locks a clip
\* its author never saw.)
THEOREM AlwaysApprovedWasShown ==
  ASSUME MaxQueue = 1, "send" \notin Faults
  PROVE  Spec => ApprovedWasShown
<1> DEFINE Shown(r, i) == task.seen = <<r, [clip |-> i, take |-> take[r][i]]>>
<1>1. ASSUME SeenInv, [Next]_vars, NEW r \in Review, NEW i \in Clip,
             clip[r][i] # "locked", clip'[r][i] = "locked"
      PROVE  Shown(r, i)
  <2>1. clip \in [Review -> [Clip -> ClipStatus]] /\ RefInv
    BY <1>1 DEF SeenInv, WaitInv, RefInv, OrderInv, TypeOK, ReviewType
  <2>2. clip' # clip
    BY <1>1
  <2>3. ReviewCancel \/ ReviewRegenerate \/ ReviewContinue \/ ReviewLast
    BY <1>1, <2>2 DEF Next, Holder, Receive, SelectTopic, ScoreReply, FinishScore, StartTask,
         RunChain, ConfirmRefused, ConfirmPlan, ConfirmPrepared, ConfirmAborted, GenerateClip,
         GenerateFailed, WarningFailed, ReviewIgnored, FinalizeDrift, FinalizeFailed,
         FinalizeSend, FinalizeClose, FinalizeReport, Restart, review, vars
  <2>4. pc = "start" /\ pending # 0
    BY <2>3 DEF ReviewCancel, ReviewRegenerate, ReviewContinue, ReviewLast, Reviewing
  <2>5. pending \in Review /\ cur[pending] \in Clip
    BY <2>1, <2>4, ReplyIsOpen
  <2>6. PICK status : clip' = [clip EXCEPT ![pending][cur[pending]] = status]
    BY <2>3 DEF ReviewCancel, ReviewRegenerate, ReviewContinue, ReviewLast, LockClip, SetClip
  <2>7. r = pending /\ i = cur[pending]
    BY <1>1, <2>1, <2>5, <2>6
  <2> QED
    BY <1>1, <2>4, <2>7 DEF SeenInv, ShownIsPending, SeenIsShown
<1>2. SeenInv /\ [Next]_vars =>
        [\A r \in Review, i \in Clip :
           clip[r][i] # "locked" /\ clip'[r][i] = "locked" => Shown(r, i)]_vars
  BY <1>1
<1>3. Init => SeenInv
  BY WaitInit DEF SeenInv, Init, ShownIsPending, SeenIsShown
<1>4. SeenInv /\ [Next]_vars => SeenInv'
  BY SeenStep, WaitStep DEF SeenInv
<1> QED
  BY <1>2, <1>3, <1>4, PTL DEF Spec, ApprovedWasShown

---------------------------------------------------------------------------
(* The rows of the sessions.                                               *)

\* A chat that waits opens one plan at a time: "confirm" is accepted and handled while no
\* review is pending, and a task that is past that works on the pending one.
OnePlan ==
  /\ \A k \in DOMAIN accepted : accepted[k].kind = "confirm" => pending = 0
  /\ pc = "start" /\ task.kind = "confirm" => pending = 0
  /\ pc \in {"prepare", "report"} => pending = 0
  /\ pc \in {"generate", "finalize", "close"} => pending \in {0, rid}

\* Unless a row could not be created, the id in the session store is that of the open plan.
RowsCreated == faults = 0 \/ "gs_create" \notin Faults
OwnSession == RowsCreated => \A r \in Review : Opened(r) => gsid = r

PlanInv == WaitInv /\ OnePlan /\ OwnSession

\* Only a confirmed plan opens a review; only it and a restart change the id.
LEMMA OnlyConfirmOpens ==
  ASSUME RefInv, [Next]_vars, ~ConfirmPlan
  PROVE  /\ \A r \in Review : Opened(r)' => Opened(r)
         /\ gsid' = gsid \/ \A r \in Review : ~Opened(r)'
         /\ UNCHANGED used
<1> SUFFICES /\ pending' \in {0, pending, rid} /\ rid' \in {0, pending, rid}
             /\ gsid' = gsid \/ (pending' = 0 /\ rid' = 0)
             /\ UNCHANGED used
  BY BoundsAssumption DEF Opened, Review
<1>1. CASE \/ \E t \in Text : Receive(t) \/ SelectTopic(t) \/ ScoreReply(t)
           \/ \E k \in DOMAIN scoring : FinishScore(k)
           \/ \E k \in DOMAIN accepted : StartTask(k)
           \/ UNCHANGED vars
  BY <1>1 DEF Receive, SelectTopic, ScoreReply, FinishScore, StartTask, vars, session, review,
              lock
<1>2. CASE \/ RunChain \/ ConfirmRefused \/ ConfirmAborted \/ GenerateClip \/ GenerateFailed
           \/ WarningFailed \/ ReviewIgnored \/ ReviewCancel \/ FinalizeDrift
           \/ FinalizeFailed \/ FinalizeReport
  BY <1>2 DEF RunChain, ConfirmRefused, ConfirmAborted, GenerateClip, GenerateFailed,
              WarningFailed, ReviewIgnored, ReviewCancel, FinalizeDrift, FinalizeFailed,
              FinalizeReport, Release, session, review
<1>3. CASE \/ ConfirmPrepared \/ ReviewRegenerate \/ ReviewContinue \/ ReviewLast
           \/ FinalizeSend \/ FinalizeClose \/ Restart
  BY <1>3 DEF ConfirmPrepared, ReviewRegenerate, ReviewContinue, ReviewLast, FinalizeSend,
              FinalizeClose, Restart, session, review
<1> QED
  BY <1>1, <1>2, <1>3 DEF Next, Holder

LEMMA FaultsGrow ==
  ASSUME [Next]_vars
  PROVE  faults' \in {faults, faults + 1}
BY DEF Next, Holder, Receive, SelectTopic, ScoreReply, FinishScore, StartTask, RunChain,
   ConfirmRefused, ConfirmPlan, ConfirmPrepared, ConfirmAborted, GenerateClip, GenerateFailed,
   WarningFailed, ReviewIgnored, ReviewCancel, ReviewRegenerate, ReviewContinue, ReviewLast,
   FinalizeDrift, FinalizeFailed, FinalizeSend, FinalizeClose, FinalizeReport, Restart,
   history, vars, NoFault, Fault

LEMMA RowsStayCreated ==
  ASSUME TypeOK, [Next]_vars, RowsCreated'
  PROVE  RowsCreated
BY FaultsGrow DEF RowsCreated, TypeOK, HistoryType

\* A new plan replaces none, and its row, when created, is the session's.
LEMMA PlanOpened ==
  ASSUME PlanInv, ConfirmPlan
  PROVE  /\ pending = 0 /\ pending' = 0 /\ rid' = used + 1 /\ used' = used + 1
         /\ used + 1 \in Review /\ pc' = "prepare"
         /\ \A r \in Review : Opened(r)' <=> r = used + 1
         /\ \/ gs' = [gs EXCEPT ![used + 1] = "draft"] /\ gsid' = used + 1
            \/ ~RowsCreated' /\ UNCHANGED gs
<1>1. /\ pc = "start" /\ task.kind = "confirm" /\ used < MaxReviews /\ UNCHANGED pending
      /\ rid' = used + 1 /\ used' = used + 1 /\ pc' = "prepare"
      /\ \/ gs' = [gs EXCEPT ![used + 1] = "draft"] /\ gsid' = used + 1
         \/ "gs_create" \in Faults /\ faults' = faults + 1 /\ UNCHANGED gs
  BY DEF ConfirmPlan, Continue, Fault
<1>2. pending = 0
  BY <1>1 DEF PlanInv, OnePlan
<1>3. faults \in Nat /\ used \in Nat
  BY DEF PlanInv, WaitInv, RefInv, OrderInv, TypeOK, HistoryType, ReviewType
<1>4. used + 1 \in Review
  BY <1>1, <1>3, BoundsAssumption DEF Review
<1> QED
  BY <1>1, <1>2, <1>3, <1>4, BoundsAssumption DEF RowsCreated, Opened, Review

LEMMA OnePlanStep ==
  ASSUME MaxQueue = 1, PlanInv, [Next]_vars
  PROVE  OnePlan'
<1>t. /\ RefInv /\ TypeOK /\ LockType /\ accepted \in Seq(Task) /\ OneTask
      /\ (pc # "free" => accepted = <<>>)
  BY DEF PlanInv, WaitInv, RefInv, OrderInv, TypeOK, LockType, OneTask
<1>1. ASSUME NEW t \in Text, Receive(t) PROVE OnePlan'
  <2>1. /\ UNCHANGED <<pc, task, pending, rid>>
        /\ accepted' = Append(accepted, [kind |-> Destination(t), text |-> t, seen |-> shown])
        /\ Len(accepted) < 1 /\ pc = "free"
    BY <1>1 DEF Receive, session, Busy, Locked
  <2>2. accepted = <<>>
    BY <1>t, <2>1, EmptySeq, LenProperties
  <2>3. accepted' = <<[kind |-> Destination(t), text |-> t, seen |-> shown]>>
    BY <2>1, <2>2
  <2>4. \A k \in DOMAIN accepted' : accepted'[k].kind = Destination(t)
    BY <2>3
  <2>5. Destination(t) = "confirm" => pending = 0
    BY DEF Destination
  <2> QED
    BY <2>1, <2>4, <2>5 DEF OnePlan
<1>2. ASSUME NEW k \in DOMAIN accepted, StartTask(k) PROVE OnePlan'
  <2>1. UNCHANGED pending /\ accepted' = <<>> /\ task' = accepted[k] /\ pc' = "start"
    BY <1>2, <1>t, StartAlone DEF StartTask, session
  <2> QED
    BY <2>1 DEF PlanInv, OnePlan
<1>3. CASE \/ \E t \in Text : SelectTopic(t) \/ ScoreReply(t)
           \/ \E k \in DOMAIN scoring : FinishScore(k)
           \/ UNCHANGED vars
  <2>1. UNCHANGED <<pending, accepted, task, pc, rid>>
    BY <1>3 DEF SelectTopic, ScoreReply, FinishScore, vars, session, lock
  <2> QED
    BY <2>1 DEF PlanInv, OnePlan
<1>4. CASE \/ RunChain \/ ConfirmRefused \/ ConfirmAborted \/ GenerateClip \/ GenerateFailed
           \/ WarningFailed \/ ReviewIgnored \/ ReviewCancel \/ FinalizeDrift
           \/ FinalizeFailed \/ FinalizeReport
  <2>1. Release /\ pc # "free"
    BY <1>4 DEF RunChain, ConfirmRefused, ConfirmAborted, GenerateClip, GenerateFailed,
                WarningFailed, ReviewIgnored, ReviewCancel, Reviewing, FinalizeDrift,
                FinalizeFailed, FinalizeReport
  <2>2. pc' = "free" /\ accepted' = <<>>
    BY <1>t, <2>1, ReleaseFrees
  <2> QED
    BY <2>2 DEF OnePlan
<1>5. CASE ConfirmPrepared \/ ReviewRegenerate \/ ReviewContinue \/ ReviewLast \/ FinalizeSend
  <2>1. /\ UNCHANGED <<pending, accepted>> /\ pc # "free"
        /\ pc' \in {"generate", "finalize", "close"}
        /\ rid' = pending \/ pending \in {0, rid'}
    BY <1>5 DEF ConfirmPrepared, ReviewRegenerate, ReviewContinue, ReviewLast, Reviewing,
                FinalizeSend, Continue, session, PlanInv, OnePlan
  <2> QED
    BY <1>t, <2>1 DEF OnePlan
<1>6. CASE ConfirmPlan \/ FinalizeClose \/ Restart
  <2>1. /\ pending' = 0 /\ pc' \in {"prepare", "report", "free"}
    BY <1>6, PlanOpened DEF FinalizeClose, Restart, Continue
  <2> QED
    BY <2>1 DEF OnePlan
<1> QED
  BY <1>1, <1>2, <1>3, <1>4, <1>5, <1>6 DEF Next, Holder

LEMMA PlanStep ==
  ASSUME MaxQueue = 1, PlanInv, [Next]_vars
  PROVE  PlanInv' /\ TypeOK /\ TypeOK'
<1>1. WaitInv' /\ TypeOK' /\ TypeOK /\ RefInv
  BY WaitStep DEF PlanInv, WaitInv, RefInv, OrderInv
<1>2. OwnSession'
  <2> SUFFICES ASSUME RowsCreated', NEW r \in Review, Opened(r)' PROVE gsid' = r
    BY DEF OwnSession
  <2>1. RowsCreated
    BY <1>1, RowsStayCreated
  <2>2. CASE ConfirmPlan
    BY <2>2, PlanOpened
  <2>3. CASE ~ConfirmPlan
    BY <1>1, <2>1, <2>3, OnlyConfirmOpens DEF PlanInv, OwnSession
  <2> QED
    BY <2>2, <2>3
<1> QED
  BY <1>1, <1>2, OnePlanStep DEF PlanInv

LEMMA PlanInit == Init => PlanInv
<1> SUFFICES ASSUME Init PROVE PlanInv
  OBVIOUS
<1>1. \A r \in Review : ~Opened(r)
  BY BoundsAssumption DEF Init, Opened, Review
<1>2. OnePlan
  BY DEF Init, OnePlan
<1> QED
  BY <1>1, <1>2, WaitInit DEF PlanInv, OwnSession

\* The row a handler writes is that of the plan it works on.
LEMMA SessionOfOpen ==
  ASSUME PlanInv, RowsCreated, NEW r \in Review, Opened(r)
  PROVE  SessionOf(r) = r /\ r # 0 /\ r <= used
BY BoundsAssumption
DEF PlanInv, OwnSession, SessionOf, Review, Opened, WaitInv, RefInv, OrderInv, KnownReviews

---------------------------------------------------------------------------
(* No plan is left behind.                                                 *)

ReachInv == PlanInv /\ OpenSessionReachable

LEMMA ReachStep ==
  ASSUME ReachInv, TypeOK', [Next]_vars
  PROVE  OpenSessionReachable'
<1> SUFFICES ASSUME NEW r \in Review, faults' = 0, gs'[r] \in {"draft", "in_progress"}
             PROVE  Opened(r)'
  BY DEF OpenSessionReachable, Opened
<1>t. /\ TypeOK /\ RefInv /\ OnePlan /\ PlanInv /\ faults \in Nat /\ faults' = faults
      /\ faults = 0 /\ RowsCreated
  <2>1. TypeOK /\ RefInv /\ OnePlan /\ PlanInv /\ faults \in Nat
    BY DEF ReachInv, PlanInv, WaitInv, RefInv, OrderInv, TypeOK, HistoryType
  <2> QED
    BY <2>1, FaultsGrow DEF RowsCreated
<1>g. gs \in [Review -> GsStatus] /\ r \in Nat /\ r # 0
  BY <1>t, BoundsAssumption DEF TypeOK, DbType, Review
<1>i. gs[r] \in {"draft", "in_progress"} => Opened(r)
  BY <1>t DEF ReachInv, OpenSessionReachable, Opened
<1>f. ASSUME NEW f PROVE ~Fault(f)
  BY <1>t DEF Fault
<1>1. CASE \/ \E t \in Text : Receive(t) \/ SelectTopic(t) \/ ScoreReply(t)
           \/ \E k \in DOMAIN scoring : FinishScore(k)
           \/ \E k \in DOMAIN accepted : StartTask(k)
           \/ FinalizeSend
           \/ UNCHANGED vars
  <2>1. UNCHANGED <<gs, pending, rid>>
    BY <1>1 DEF Receive, SelectTopic, ScoreReply, FinishScore, StartTask, FinalizeSend, vars,
                session, db, lock
  <2> QED
    BY <1>i, <2>1 DEF Opened
<1>2. CASE RunChain \/ ConfirmRefused \/ ReviewIgnored
  <2>1. UNCHANGED <<gs, pending>> /\ rid = 0
    BY <1>2, <1>t DEF RunChain, ConfirmRefused, ReviewIgnored, session, db, RefInv, IdleIsNowhere
  <2> QED
    BY <1>g, <1>i, <2>1 DEF Opened
<1>3. CASE ReviewRegenerate \/ ReviewContinue \/ ReviewLast
  <2>1. UNCHANGED <<gs, pending>> /\ rid = 0
    BY <1>3, <1>t DEF ReviewRegenerate, ReviewContinue, ReviewLast, Reviewing, session, db,
                      RefInv, IdleIsNowhere
  <2> QED
    BY <1>g, <1>i, <2>1 DEF Opened
<1>4. CASE GenerateClip
  <2>1. UNCHANGED gs /\ pending' = rid /\ pending \in {0, rid}
    BY <1>4, <1>t DEF GenerateClip, db, OnePlan
  <2> QED
    BY <1>g, <1>i, <2>1 DEF Opened
<1>5. CASE FinalizeClose
  <2>1. UNCHANGED <<gs, rid>> /\ pending \in {0, rid}
    BY <1>5, <1>t DEF FinalizeClose, db, OnePlan
  <2> QED
    BY <1>g, <1>i, <2>1 DEF Opened
<1>6. CASE ConfirmPrepared
  <2>1. UNCHANGED <<pending, rid>> /\ \A q \in Review : q # rid => gs'[q] = gs[q]
    BY <1>6, <1>g DEF ConfirmPrepared, SetStatus, session
  <2> QED
    BY <1>i, <2>1 DEF Opened
<1>7. CASE ConfirmPlan
  <2>1. /\ gs' = [gs EXCEPT ![used + 1] = "draft"] /\ rid' = used + 1 /\ pending = 0
    BY <1>7, <1>t, PlanOpened DEF RowsCreated
  <2>2. rid = 0
    BY <1>7, <1>t DEF ConfirmPlan, RefInv, IdleIsNowhere
  <2>3. r # used + 1 => gs'[r] = gs[r]
    BY <2>1, <1>g
  <2> QED
    BY <1>g, <1>i, <2>1, <2>2, <2>3 DEF Opened
<1>8. CASE ReviewCancel
  <2>1. pc = "start" /\ pending # 0 /\ SetStatus(SessionOf(pending), "cancelled")
    BY <1>8, <1>f DEF ReviewCancel, Reviewing
  <2>2. pending \in Review /\ rid = 0
    BY <1>t, <2>1, ReplyIsOpen
  <2>3. SessionOf(pending) = pending
    BY <1>t, <2>2, SessionOfOpen DEF Opened
  <2>4. gs' = [gs EXCEPT ![pending] = "cancelled"]
    BY <2>1, <2>3 DEF SetStatus
  <2>5. r # pending /\ gs'[r] = gs[r]
    BY <1>g, <2>2, <2>4
  <2> QED
    BY <1>g, <1>i, <2>2, <2>5 DEF Opened
<1>9. CASE FinalizeFailed \/ FinalizeReport
  <2>1. /\ pc \in {"finalize", "close", "report"}
        /\ \E status \in {"failed", "completed"} : SetStatus(SessionOf(rid), status)
    BY <1>9, <1>f DEF FinalizeFailed, FinalizeReport
  <2>2. rid \in Review /\ pending \in {0, rid}
    BY <1>t, <2>1 DEF TypeOK, WorkType, LockType, OnePlan, Review
  <2>3. SessionOf(rid) = rid /\ rid # 0
    BY <1>t, <2>2, SessionOfOpen DEF Opened
  <2>4. PICK status \in {"failed", "completed"} : gs' = [gs EXCEPT ![rid] = status]
    <3>1. PICK status \in {"failed", "completed"} : SetStatus(SessionOf(rid), status)
      BY <2>1
    <3>2. gs' = [gs EXCEPT ![rid] = status]
      BY <2>3, <3>1 DEF SetStatus
    <3> QED
      BY <3>2
  <2>5. r # rid /\ gs'[r] = gs[r]
    BY <1>g, <2>2, <2>4
  <2> QED
    BY <1>g, <1>i, <2>2, <2>5 DEF Opened
<1>10. ~(ConfirmAborted \/ GenerateFailed \/ WarningFailed \/ FinalizeDrift \/ Restart)
  BY <1>f DEF ConfirmAborted, GenerateFailed, WarningFailed, FinalizeDrift, Restart
<1> QED
  BY <1>1, <1>2, <1>3, <1>4, <1>5, <1>6, <1>7, <1>8, <1>9, <1>10 DEF Next, Holder

\* In a chat that waits, and as long as nothing failed, the row of a plan that is not at its
\* end belongs to the pending review or to the running task. (Two confirmations in a row
\* leave the first plan's row open for ever.)
THEOREM AlwaysOpenSessionReachable ==
  ASSUME MaxQueue = 1
  PROVE  Spec => []OpenSessionReachable
<1>1. Init => ReachInv
  BY PlanInit DEF ReachInv, Init, OpenSessionReachable
<1>2. ReachInv /\ [Next]_vars => ReachInv'
  BY PlanStep, ReachStep DEF ReachInv
<1>3. ReachInv => OpenSessionReachable
  BY DEF ReachInv
<1> QED
  BY <1>1, <1>2, <1>3, PTL DEF Spec

---------------------------------------------------------------------------
(* Completed rows, scores and memories.                                    *)

\* A plan that was not confirmed has no row; a completed one has sent its video and is
\* closed.
CompletedSent ==
  /\ pc \in {"close", "report"} => sent[rid].parts # <<>>
  /\ \A r \in Review : /\ r > used => gs[r] = "none"
                       /\ gs[r] = "completed" => sent[r].parts # <<>> /\ ~Opened(r)

CompletedInv == PlanInv /\ CompletedSent

\* How the rows change.
LEMMA StatusStep ==
  ASSUME PlanInv, RowsCreated, [Next]_vars
  PROVE  \/ UNCHANGED gs
         \/ ConfirmPlan
         \/ FinalizeReport
         \/ \E r \in Review, status \in GsStatus \ {"completed"} :
              Opened(r) /\ r <= used /\ gs' = [gs EXCEPT ![r] = status]
<1>t. TypeOK /\ RefInv /\ KnownReviews
  BY DEF PlanInv, WaitInv, RefInv, OrderInv
<1>1. CASE \/ \E t \in Text : Receive(t) \/ SelectTopic(t) \/ ScoreReply(t)
           \/ \E k \in DOMAIN scoring : FinishScore(k)
           \/ \E k \in DOMAIN accepted : StartTask(k)
           \/ UNCHANGED vars
  BY <1>1 DEF Receive, SelectTopic, ScoreReply, FinishScore, StartTask, vars, db
<1>2. CASE \/ RunChain \/ ConfirmRefused \/ ConfirmAborted \/ GenerateClip \/ GenerateFailed
           \/ WarningFailed \/ ReviewIgnored \/ ReviewRegenerate \/ ReviewContinue
           \/ ReviewLast \/ FinalizeDrift \/ FinalizeSend \/ FinalizeClose \/ Restart
  BY <1>2 DEF RunChain, ConfirmRefused, ConfirmAborted, GenerateClip, GenerateFailed,
              WarningFailed, ReviewIgnored, ReviewRegenerate, ReviewContinue, ReviewLast,
              FinalizeDrift, FinalizeSend, FinalizeClose, Restart, db
<1>3. CASE ConfirmPrepared
  <2>1. rid \in Review /\ rid # 0
    BY <1>3, <1>t DEF ConfirmPrepared, TypeOK, WorkType, LockType, Review
  <2>2. \/ UNCHANGED gs
        \/ \E status \in GsStatus \ {"completed"} : gs' = [gs EXCEPT ![rid] = status]
    BY <1>3, <2>1 DEF ConfirmPrepared, SetStatus, GsStatus
  <2> QED
    BY <1>t, <2>1, <2>2 DEF Opened, KnownReviews
<1>4. CASE ReviewCancel
  <2>1. /\ pc = "start" /\ pending # 0
        /\ SetStatus(SessionOf(pending), "cancelled") \/ UNCHANGED gs
    BY <1>4 DEF ReviewCancel, Reviewing
  <2>2. pending \in Review
    BY <1>t, <2>1, ReplyIsOpen
  <2>3. SessionOf(pending) = pending /\ pending # 0 /\ pending <= used /\ Opened(pending)
    BY <2>2, SessionOfOpen DEF Opened
  <2>4. gs' = [gs EXCEPT ![pending] = "cancelled"] \/ UNCHANGED gs
    BY <2>1, <2>3 DEF SetStatus
  <2> QED
    BY <2>2, <2>3, <2>4 DEF GsStatus
<1>5. CASE FinalizeFailed
  <2>1. rid \in Review
    BY <1>5, <1>t DEF FinalizeFailed, TypeOK, WorkType, LockType, Review
  <2>2. SessionOf(rid) = rid /\ rid # 0 /\ rid <= used /\ Opened(rid)
    BY <2>1, SessionOfOpen DEF Opened
  <2>3. gs' = [gs EXCEPT ![rid] = "failed"] \/ UNCHANGED gs
    BY <1>5, <2>2 DEF FinalizeFailed, SetStatus
  <2> QED
    BY <2>1, <2>2, <2>3 DEF GsStatus
<1> QED
  BY <1>1, <1>2, <1>3, <1>4, <1>5 DEF Next, Holder

\* The report completes the row of the plan whose video was sent, and asks for its score.
LEMMA ReportCompletes ==
  ASSUME PlanInv, RowsCreated, FinalizeReport
  PROVE  /\ rid \in Review /\ pc = "report" /\ pending' = 0 /\ rid' = 0 /\ Opened(rid)
         /\ UNCHANGED <<sent, memory, scoring>>
         /\ \/ gs' = [gs EXCEPT ![rid] = "completed"]
            \/ UNCHANGED gs
         /\ \/ gs' = [gs EXCEPT ![rid] = "completed"] /\ scoreFor' = rid
            \/ UNCHANGED scoreFor
<1>1. TypeOK /\ OnePlan /\ pc = "report" /\ pending' = pending /\ rid' = 0
  BY DEF FinalizeReport, Release, PlanInv, WaitInv, RefInv, OrderInv
<1>2. rid \in Review /\ pending = 0
  BY <1>1 DEF TypeOK, WorkType, LockType, OnePlan, Review
<1>3. SessionOf(rid) = rid /\ rid # 0 /\ Opened(rid)
  BY <1>2, SessionOfOpen DEF Opened
<1> QED
  BY <1>1, <1>2, <1>3 DEF FinalizeReport, SetStatus

LEMMA SentStays ==
  ASSUME [Next]_vars, ~FinalizeSend
  PROVE  UNCHANGED sent
BY DEF Next, Holder, Receive, SelectTopic, ScoreReply, FinishScore, StartTask, RunChain,
   ConfirmRefused, ConfirmPlan, ConfirmPrepared, ConfirmAborted, GenerateClip, GenerateFailed,
   WarningFailed, ReviewIgnored, ReviewCancel, ReviewRegenerate, ReviewContinue, ReviewLast,
   FinalizeDrift, FinalizeFailed, FinalizeClose, FinalizeReport, Restart, history, vars

LEMMA CompletedStep ==
  ASSUME "gs_create" \notin Faults, CompletedInv, TypeOK', [Next]_vars
  PROVE  CompletedSent'
<1>t. /\ TypeOK /\ RefInv /\ PlanInv /\ RowsCreated /\ gs \in [Review -> GsStatus]
      /\ used \in Nat /\ CompletedSent
  BY DEF CompletedInv, PlanInv, WaitInv, RefInv, OrderInv, TypeOK, DbType, ReviewType, RowsCreated
<1>w. used' \in {used, used + 1} /\ (used' # used => ConfirmPlan)
  <2>1. CASE ConfirmPlan
    BY <2>1 DEF ConfirmPlan
  <2>2. CASE ~ConfirmPlan
    BY <1>t, <2>2, OnlyConfirmOpens
  <2> QED
    BY <2>1, <2>2
<1>1. \A r \in Review : sent[r].parts # <<>> => sent'[r].parts # <<>>
  BY <1>t, SentStays, SentSomething
<1>2. pc' \in {"close", "report"} => sent'[rid'].parts # <<>>
  <2>1. CASE FinalizeSend
    BY <1>t, <2>1, SentSomething DEF FinalizeSend
  <2>2. CASE FinalizeClose
    BY <1>t, <2>2 DEF FinalizeClose, CompletedSent, history
  <2>3. CASE \E k \in DOMAIN accepted : StartTask(k)
    <3>1. UNCHANGED <<rid, sent>> /\ pc' \in {pc, "start"}
      BY <2>3 DEF StartTask, history
    <3> QED
      BY <1>t, <3>1 DEF CompletedSent
  <2>4. CASE \/ \E t \in Text : Receive(t) \/ SelectTopic(t) \/ ScoreReply(t)
             \/ \E k \in DOMAIN scoring : FinishScore(k)
             \/ UNCHANGED vars
    <3>1. UNCHANGED <<rid, sent, pc>>
      BY <2>4 DEF Receive, SelectTopic, ScoreReply, FinishScore, vars, lock, history
    <3> QED
      BY <1>t, <3>1 DEF CompletedSent
  <2>5. CASE \/ RunChain \/ ConfirmRefused \/ ConfirmAborted \/ GenerateClip \/ GenerateFailed
             \/ WarningFailed \/ ReviewIgnored \/ ReviewCancel \/ FinalizeDrift
             \/ FinalizeFailed \/ FinalizeReport
    <3>1. Release
      BY <2>5 DEF RunChain, ConfirmRefused, ConfirmAborted, GenerateClip, GenerateFailed,
                  WarningFailed, ReviewIgnored, ReviewCancel, FinalizeDrift, FinalizeFailed,
                  FinalizeReport
    <3> QED
      BY <3>1 DEF Release
  <2>6. CASE \/ ConfirmPlan \/ ConfirmPrepared \/ ReviewRegenerate \/ ReviewContinue
             \/ ReviewLast \/ Restart
    BY <2>6 DEF ConfirmPlan, ConfirmPrepared, ReviewRegenerate, ReviewContinue, ReviewLast,
                Restart, Continue
  <2> QED
    BY <2>1, <2>2, <2>3, <2>4, <2>5, <2>6 DEF Next, Holder
<1>3. ASSUME NEW r \in Review
      PROVE  /\ r > used' => gs'[r] = "none"
             /\ gs'[r] = "completed" => sent'[r].parts # <<>> /\ ~Opened(r)'
  <2>r. r \in Nat /\ (r > used' => r > used)
    BY <1>t, <1>w, BoundsAssumption DEF Review
  <2>i. /\ r > used => gs[r] = "none"
        /\ gs[r] = "completed" => sent'[r].parts # <<>> /\ ~Opened(r)
    BY <1>1, <1>t DEF CompletedSent
  <2>o. CASE ~ConfirmPlan /\ gs'[r] = gs[r]
    BY <1>t, <2>r, <2>i, <2>o, OnlyConfirmOpens
  <2>1. CASE ConfirmPlan
    <3>1. /\ gs' = [gs EXCEPT ![used + 1] = "draft"] \/ UNCHANGED gs
          /\ used' = used + 1 /\ (Opened(r)' => r = used + 1)
      BY <1>t, <2>1, PlanOpened
    <3>2. CASE r = used + 1
      BY <1>t, <2>i, <3>1, <3>2
    <3>3. CASE r # used + 1
      BY <1>t, <2>r, <2>i, <3>1, <3>3
    <3> QED
      BY <3>2, <3>3
  <2>2. CASE FinalizeReport
    <3>1. /\ rid \in Review /\ pc = "report" /\ pending' = 0 /\ rid' = 0
          /\ gs' = [gs EXCEPT ![rid] = "completed"] \/ UNCHANGED gs
      BY <1>t, <2>2, ReportCompletes
    <3>2. ~ConfirmPlan
      BY <3>1 DEF ConfirmPlan
    <3>3. CASE r = rid
      <4>1. sent[r].parts # <<>> /\ ~(r > used)
        BY <1>t, <2>r, <3>1, <3>3
        DEF CompletedSent, RefInv, OrderInv, KnownReviews, TypeOK, LockType
      <4>2. ~Opened(r)'
        BY <3>1, BoundsAssumption DEF Opened, Review
      <4> QED
        BY <1>1, <2>r, <4>1, <4>2
    <3>4. CASE r # rid
      <4>1. gs'[r] = gs[r]
        BY <1>t, <3>1, <3>4
      <4> QED
        BY <2>o, <3>2, <4>1
    <3> QED
      BY <3>3, <3>4
  <2>3. CASE ~ConfirmPlan /\ ~FinalizeReport
    <3>1. CASE UNCHANGED gs
      BY <2>3, <2>o, <3>1
    <3>2. ASSUME NEW q \in Review, NEW status \in GsStatus \ {"completed"},
                 Opened(q), q <= used, gs' = [gs EXCEPT ![q] = status]
          PROVE  /\ r > used' => gs'[r] = "none"
                 /\ gs'[r] = "completed" => sent'[r].parts # <<>> /\ ~Opened(r)'
      <4>1. CASE r = q
        <5>1. gs'[r] = status /\ ~(r > used)
          BY <1>t, <2>r, <3>2, <4>1
        <5> QED
          BY <2>r, <3>2, <5>1
      <4>2. CASE r # q
        <5>1. gs'[r] = gs[r]
          BY <1>t, <3>2, <4>2
        <5> QED
          BY <2>3, <2>o, <5>1
      <4> QED
        BY <4>1, <4>2
    <3> QED
      BY <1>t, <2>3, <3>1, <3>2, StatusStep
  <2> QED
    BY <2>1, <2>2, <2>3
<1> QED
  BY <1>2, <1>3 DEF CompletedSent

LEMMA CompletedInit == Init => CompletedInv
<1> SUFFICES ASSUME Init PROVE CompletedInv
  OBVIOUS
<1>1. CompletedSent
  BY DEF Init, CompletedSent
<1> QED
  BY <1>1, PlanInit DEF CompletedInv

LEMMA CompletedKept ==
  ASSUME MaxQueue = 1, "gs_create" \notin Faults
  PROVE  CompletedInv /\ [Next]_vars => CompletedInv'
BY PlanStep, CompletedStep DEF CompletedInv

\* In a chat that waits, where the rows of its sessions could be created, a row is completed
\* only when the video of its own plan was sent: the id in the session store is that of the
\* plan at work whenever a row is written.
THEOREM AlwaysCompletedWasSent ==
  ASSUME MaxQueue = 1, "gs_create" \notin Faults
  PROVE  Spec => []CompletedWasSent
<1>1. CompletedInv => CompletedWasSent
  BY DEF CompletedInv, CompletedSent, CompletedWasSent
<1> QED
  BY <1>1, CompletedInit, CompletedKept, PTL DEF Spec

\* What was scored is completed, and stays so.
ScoresCompleted ==
  /\ scoreFor # 0 => gs[scoreFor] = "completed"
  /\ \A k \in DOMAIN scoring : gs[scoring[k].sid] = "completed"
  /\ \A r \in Review : memory[r] > 0 => gs[r] = "completed"

ScoredInv == CompletedInv /\ ScoresCompleted

LEMMA CompletedStays ==
  ASSUME "gs_create" \notin Faults, CompletedInv, [Next]_vars, NEW r \in Review,
         gs[r] = "completed"
  PROVE  gs'[r] = "completed"
<1>t. /\ PlanInv /\ RowsCreated /\ gs \in [Review -> GsStatus] /\ used \in Nat
  BY DEF CompletedInv, PlanInv, WaitInv, RefInv, OrderInv, TypeOK, DbType, ReviewType, RowsCreated
<1>c. ~Opened(r) /\ r <= used
  BY <1>t, BoundsAssumption DEF CompletedInv, CompletedSent, Review
<1>1. CASE ConfirmPlan
  <2>1. gs' = [gs EXCEPT ![used + 1] = "draft"] \/ UNCHANGED gs
    BY <1>t, <1>1, PlanOpened
  <2>2. r # used + 1
    BY <1>t, <1>c, BoundsAssumption DEF Review
  <2> QED
    BY <1>t, <2>1, <2>2
<1>2. CASE FinalizeReport
  BY <1>t, <1>2, ReportCompletes
<1>3. ASSUME NEW q \in Review, NEW status, Opened(q), gs' = [gs EXCEPT ![q] = status]
      PROVE  gs'[r] = "completed"
  BY <1>t, <1>c, <1>3
<1> QED
  BY <1>t, <1>1, <1>2, <1>3, StatusStep

\* Only a report, a score reply and a restart touch the question and its answers.
LEMMA PromptKept ==
  ASSUME [Next]_vars, ~FinalizeReport, ~Restart, \A t \in Text : ~ScoreReply(t),
         \A k \in DOMAIN scoring : ~FinishScore(k)
  PROVE  UNCHANGED <<scoreFor, memory, scoring>>
BY Zenon DEF Next, Holder, Receive, SelectTopic, StartTask, RunChain, ConfirmRefused, ConfirmPlan,
   ConfirmPrepared, ConfirmAborted, GenerateClip, GenerateFailed, WarningFailed, ReviewIgnored,
   ReviewCancel, ReviewRegenerate, ReviewContinue, ReviewLast, FinalizeDrift, FinalizeFailed,
   FinalizeSend, FinalizeClose, session, db, vars

\* The replies that are being recorded after the one at k has left.
LEMMA ScoringDropped ==
  ASSUME NEW s \in Seq(Scoring), NEW k \in DOMAIN s
  PROVE  /\ s[k] \in Scoring /\ DropAt(s, k) \in Seq(Scoring)
         /\ \A j \in DOMAIN DropAt(s, k) : \E m \in DOMAIN s : DropAt(s, k)[j] = s[m]
<1>1. /\ DOMAIN s = 1..Len(s) /\ Len(s) \in Nat /\ k \in Int
      /\ DropAt(s, k) \in Seq(Scoring) /\ DOMAIN DropAt(s, k) = 1..(Len(s) - 1)
      /\ \A j \in DOMAIN DropAt(s, k) : DropAt(s, k)[j] = IF j < k THEN s[j] ELSE s[j + 1]
  BY DropAtElements, LenProperties
<1>2. s[k] \in Scoring
  BY <1>1, ElementOfSeq
<1>3. ASSUME NEW j \in DOMAIN DropAt(s, k)
      PROVE  \E m \in DOMAIN s : DropAt(s, k)[j] = s[m]
  <2>1. j \in DOMAIN s /\ j + 1 \in DOMAIN s
    BY <1>1
  <2> QED
    BY <1>1, <2>1
<1> QED
  BY <1>1, <1>2, <1>3

LEMMA ScoresStep ==
  ASSUME "gs_create" \notin Faults, ScoredInv, [Next]_vars
  PROVE  ScoresCompleted'
<1>t. /\ PlanInv /\ RowsCreated /\ scoring \in Seq(Scoring) /\ gs \in [Review -> GsStatus]
      /\ memory \in [Review -> Nat] /\ scoreFor \in 0..MaxReviews /\ CompletedInv
  BY DEF ScoredInv, CompletedInv, PlanInv, WaitInv, RefInv, OrderInv, TypeOK, DbType,
         ScoringType, SessionType, RowsCreated
<1>s. \A r \in Review : gs[r] = "completed" => gs'[r] = "completed"
  BY <1>t, CompletedStays
<1>k. \A k \in DOMAIN scoring : scoring[k] \in Scoring /\ scoring[k].sid \in Review
  BY <1>t, ScoringDropped DEF Scoring
<1>r. scoreFor # 0 => scoreFor \in Review
  BY <1>t, BoundsAssumption DEF Review
<1>u. /\ scoreFor # 0 => gs'[scoreFor] = "completed"
      /\ \A k \in DOMAIN scoring : gs'[scoring[k].sid] = "completed"
      /\ \A r \in Review : memory[r] > 0 => gs'[r] = "completed"
  BY <1>s, <1>k, <1>r DEF ScoredInv, ScoresCompleted
<1>1. ASSUME NEW t \in Text, ScoreReply(t) PROVE ScoresCompleted'
  <2>1. scoreFor # 0 /\ UNCHANGED <<scoreFor, memory>>
    BY <1>1 DEF ScoreReply, Destination, session
  <2>2. PICK x : scoring' = Append(scoring, x) /\ x.sid = scoreFor
    BY <1>1 DEF ScoreReply
  <2>3. \A k \in DOMAIN scoring' : \/ k \in DOMAIN scoring /\ scoring'[k] = scoring[k]
                                   \/ scoring'[k].sid = scoreFor
    BY <1>t, <2>2
  <2> QED
    BY <1>u, <2>1, <2>3 DEF ScoresCompleted
<1>2. ASSUME NEW k \in DOMAIN scoring, FinishScore(k) PROVE ScoresCompleted'
  <2>1. scoreFor' \in {0, scoreFor} /\ UNCHANGED gs /\ scoring' = DropAt(scoring, k)
        /\ memory' \in {memory, [memory EXCEPT ![scoring[k].sid] = memory[scoring[k].sid] + 1]}
    BY <1>2 DEF FinishScore, DropPrompt, Remember
  <2>2. \A r \in Review : memory'[r] > 0 => gs'[r] = "completed"
    <3>1. \A r \in Review : memory'[r] = memory[r] \/ r = scoring[k].sid
      BY <1>t, <1>k, <2>1
    <3> QED
      BY <1>u, <3>1
  <2>3. \A j \in DOMAIN scoring' : \E m \in DOMAIN scoring : scoring'[j] = scoring[m]
    BY <1>t, <2>1, ScoringDropped
  <2> QED
    BY <1>u, <2>1, <2>2, <2>3 DEF ScoresCompleted
<1>3. CASE FinalizeReport
  <2>1. /\ rid \in Review /\ UNCHANGED <<memory, scoring>>
        /\ \/ gs' = [gs EXCEPT ![rid] = "completed"] /\ scoreFor' = rid
           \/ UNCHANGED scoreFor
    BY <1>t, <1>3, ReportCompletes
  <2>2. scoreFor' # 0 => gs'[scoreFor'] = "completed"
    BY <1>t, <1>u, <2>1
  <2> QED
    BY <1>u, <2>1, <2>2 DEF ScoresCompleted
<1>4. CASE ~FinalizeReport /\ ~(\E t \in Text : ScoreReply(t))
           /\ ~(\E k \in DOMAIN scoring : FinishScore(k)) /\ ~Restart
  <2>1. UNCHANGED <<scoreFor, memory, scoring>>
    BY <1>4, PromptKept
  <2> QED
    BY <1>u, <2>1 DEF ScoresCompleted
<1>5. CASE Restart
  BY <1>5, <1>u DEF Restart, db, ScoresCompleted
<1> QED
  BY <1>1, <1>2, <1>3, <1>4, <1>5

\* In a chat that waits, where the rows of its sessions could be created, memory is proposed
\* from completed sessions only: the score that is asked for and the replies that are being
\* recorded are those of a completed session, and no later plan reopens it.
THEOREM AlwaysMemoryOnlyFromCompleted ==
  ASSUME MaxQueue = 1, "gs_create" \notin Faults
  PROVE  Spec => []MemoryOnlyFromCompleted
<1>1. Init => ScoredInv
  <2> SUFFICES ASSUME Init PROVE ScoredInv
    OBVIOUS
  <2>1. ScoresCompleted
    BY DEF Init, ScoresCompleted
  <2> QED
    BY <2>1, CompletedInit DEF ScoredInv
<1>2. ScoredInv /\ [Next]_vars => ScoredInv'
  BY CompletedKept, ScoresStep DEF ScoredInv
<1>3. ScoredInv => MemoryOnlyFromCompleted
  BY DEF ScoredInv, ScoresCompleted, MemoryOnlyFromCompleted
<1> QED
  BY <1>1, <1>2, <1>3, PTL DEF Spec

\* A session whose score is asked for or being recorded has no memory yet.
ScoredOnce ==
  /\ scoreFor # 0 => memory[scoreFor] = 0
  /\ \A k \in DOMAIN scoring : memory[scoring[k].sid] = 0
  /\ \A r \in Review : memory[r] <= 1

OnceInv == ScoredInv /\ ScoredOnce

\* Of one reply nothing is left after it was recorded.
LEMMA LastScore ==
  ASSUME NEW s \in Seq(Scoring), Len(s) <= 1, NEW k \in DOMAIN s
  PROVE  DropAt(s, k) = <<>>
<1>1. DOMAIN s = 1..Len(s) /\ Len(s) \in Nat
  BY LenProperties
<1>2. Len(s) = 1
  BY <1>1
<1>3. DropAt(s, k) \in Seq(Scoring) /\ Len(DropAt(s, k)) = 0
  BY <1>2, DropAtElements
<1> QED
  BY <1>3, EmptySeq

LEMMA OnceStep ==
  ASSUME "gs_create" \notin Faults, "send" \notin Faults, OnceInv, [Next]_vars
  PROVE  ScoredOnce'
<1>t. /\ PlanInv /\ RowsCreated /\ scoring \in Seq(Scoring) /\ Len(scoring) <= 1
      /\ memory \in [Review -> Nat] /\ scoreFor \in 0..MaxReviews /\ CompletedInv
  BY DEF OnceInv, ScoredInv, CompletedInv, PlanInv, WaitInv, OneTask, RefInv, OrderInv, TypeOK,
         DbType, ScoringType, SessionType, RowsCreated
<1>1. ASSUME NEW t \in Text, ScoreReply(t) PROVE ScoredOnce'
  <2>1. scoreFor # 0 /\ UNCHANGED <<scoreFor, memory>>
    BY <1>1 DEF ScoreReply, Destination, session
  <2>2. PICK x : scoring' = Append(scoring, x) /\ x.sid = scoreFor
    BY <1>1 DEF ScoreReply
  <2>3. \A k \in DOMAIN scoring' : \/ k \in DOMAIN scoring /\ scoring'[k] = scoring[k]
                                   \/ scoring'[k].sid = scoreFor
    BY <1>t, <2>2
  <2> QED
    BY <2>1, <2>3 DEF OnceInv, ScoredOnce
<1>2. ASSUME NEW k \in DOMAIN scoring, FinishScore(k) PROVE ScoredOnce'
  <2>1. scoreFor' = 0 /\ scoring' = DropAt(scoring, k)
        /\ memory' \in {memory, [memory EXCEPT ![scoring[k].sid] = memory[scoring[k].sid] + 1]}
    BY <1>2, NotFaulty DEF FinishScore, DropPrompt, Remember
  <2>2. scoring' = <<>>
    BY <1>t, <2>1, LastScore
  <2>3. scoring[k].sid \in Review /\ memory[scoring[k].sid] = 0
    BY <1>t, ScoringDropped DEF Scoring, OnceInv, ScoredOnce
  <2>4. \A r \in Review : memory'[r] <= 1
    BY <1>t, <2>1, <2>3 DEF OnceInv, ScoredOnce
  <2> QED
    BY <2>1, <2>2, <2>4 DEF ScoredOnce
<1>3. CASE FinalizeReport
  <2>1. /\ rid \in Review /\ Opened(rid) /\ UNCHANGED <<memory, scoring>>
        /\ scoreFor' \in {rid, scoreFor}
    BY <1>t, <1>3, ReportCompletes
  <2>2. memory[rid] = 0
    BY <1>t, <2>1 DEF OnceInv, ScoredInv, ScoresCompleted, CompletedInv, CompletedSent
  <2> QED
    BY <2>1, <2>2 DEF OnceInv, ScoredOnce
<1>4. CASE ~FinalizeReport /\ ~(\E t \in Text : ScoreReply(t))
           /\ ~(\E k \in DOMAIN scoring : FinishScore(k)) /\ ~Restart
  <2>1. UNCHANGED <<scoreFor, memory, scoring>>
    BY <1>4, PromptKept
  <2> QED
    BY <2>1 DEF OnceInv, ScoredOnce
<1>5. CASE Restart
  BY <1>5 DEF Restart, db, OnceInv, ScoredOnce
<1> QED
  BY <1>1, <1>2, <1>3, <1>4, <1>5

\* In a chat that waits, where rows could be created and answers sent, a session is scored
\* into memory once: the question is dropped with its first answer and is not asked again for
\* the same session. (The answer to the score that cannot be sent leaves the question open,
\* and two score replies at once are both recorded.)
THEOREM AlwaysOneMemoryPerSession ==
  ASSUME MaxQueue = 1, "gs_create" \notin Faults, "send" \notin Faults
  PROVE  Spec => []OneMemoryPerSession
<1>1. Init => OnceInv
  <2> SUFFICES ASSUME Init PROVE OnceInv
    OBVIOUS
  <2>1. ScoresCompleted /\ ScoredOnce
    BY DEF Init, ScoresCompleted, ScoredOnce
  <2> QED
    BY <2>1, CompletedInit DEF ScoredInv, OnceInv
<1>2. OnceInv /\ [Next]_vars => OnceInv'
  BY CompletedKept, ScoresStep, OnceStep DEF OnceInv, ScoredInv
<1>3. OnceInv => OneMemoryPerSession
  BY DEF OnceInv, ScoredOnce, OneMemoryPerSession
<1> QED
  BY <1>1, <1>2, <1>3, PTL DEF Spec
=============================================================================
