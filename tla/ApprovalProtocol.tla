-------------------------- MODULE ApprovalProtocol --------------------------
(***************************************************************************)
(* What the clip review promises, whatever fails and however messages      *)
(* interleave: a review is opened once; its clips are approved one after   *)
(* the other; only the last approval can be withdrawn (for a new take of   *)
(* that clip); the video is delivered only while the review is open and    *)
(* every clip is approved; and a review that was closed never changes.     *)
(***************************************************************************)
EXTENDS Integers

CONSTANTS MaxReviews, N

VARIABLES
  phase,      \* "idle", "open" or "closed"
  locked,     \* the approved clips
  delivered   \* the final video was sent

protocol == <<phase, locked, delivered>>

Init ==
  /\ phase = [r \in 1..MaxReviews |-> "idle"]
  /\ locked = [r \in 1..MaxReviews |-> {}]
  /\ delivered = [r \in 1..MaxReviews |-> FALSE]

Open(r) ==
  /\ phase[r] = "idle"
  /\ phase' = [phase EXCEPT ![r] = "open"]
  /\ UNCHANGED <<locked, delivered>>

Approve(r) ==
  /\ phase[r] = "open"
  /\ \E i \in 1..N : /\ locked[r] = 1..(i - 1)
                     /\ locked' = [locked EXCEPT ![r] = 1..i]
  /\ UNCHANGED <<phase, delivered>>

Withdraw(r) ==
  \E i \in 1..N : /\ locked[r] = 1..i
                  /\ locked' = [locked EXCEPT ![r] = 1..(i - 1)]

Reject(r) ==
  /\ phase[r] = "open"
  /\ Withdraw(r)
  /\ UNCHANGED <<phase, delivered>>

Deliver(r) ==
  /\ phase[r] = "open" /\ locked[r] = 1..N
  /\ delivered' = [delivered EXCEPT ![r] = TRUE]
  /\ UNCHANGED <<phase, locked>>

Cancel(r) ==
  /\ phase[r] = "open"
  /\ phase' = [phase EXCEPT ![r] = "closed"]
  /\ Withdraw(r)
  /\ UNCHANGED delivered

\* One review ends, or all of them at once when the process restarts.
Close(R) ==
  /\ \A r \in R : phase[r] = "open"
  /\ phase' = [r \in DOMAIN phase |-> IF r \in R THEN "closed" ELSE phase[r]]
  /\ UNCHANGED <<locked, delivered>>

Next ==
  \/ \E r \in 1..MaxReviews : \/ Open(r) \/ Approve(r) \/ Reject(r)
                              \/ Deliver(r) \/ Cancel(r)
  \/ \E R \in SUBSET (1..MaxReviews) : Close(R)

Spec == Init /\ [][Next]_protocol
=============================================================================
