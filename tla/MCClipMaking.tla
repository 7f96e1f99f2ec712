--------------------------- MODULE MCClipMaking ---------------------------
(* Instances of ClipMaking for TLC.                                         *)
EXTENDS ClipMaking

Seg(t, l, r) == [text |-> t, len |-> l, rank |-> r, textFree |-> FALSE]
SaidSeg(t, l) == [text |-> t, len |-> l, rank |-> "plain", textFree |-> TRUE]

\* A prompt only its short guard and its segments' order can save.
LongPrompt == [body |-> <<Seg("opening", 900, "plain"), Seg("mood", 500, "low"),
                          Seg("portrait", 700, "high"), Seg("pose", 300, "medium"),
                          Seg("mood", 500, "low")>>, guard |-> "none"]
\* One segment beyond the limit.
HugePrompt == [body |-> <<Seg("essay", 3000, "plain")>>, guard |-> "none"]

MCPrompts == {LongPrompt, HugePrompt}

\* No anchors; a scene of one segment; and a scene of two, the second of which
\* runs on into the prompt, with a character whom the portrait names.
MCAnchors == {[scene |-> <<>>, cast |-> <<>>],
              [scene |-> <<Seg("street", 60, "plain")>>, cast |-> <<>>],
              [scene |-> <<Seg("street", 60, "plain"), Seg("rain", 1900, "low")>>,
               cast |-> <<[in |-> {"portrait", "essay"}, len |-> 40, textFree |-> FALSE]>>]}

\* No change asked for; one asked for twice; and one taken for the guard.
MCNotes == {<<>>, <<Seg("note", 500, "high"), Seg("note", 500, "high")>>, <<SaidSeg("claim", 20)>>}

MCStyle == <<Seg("film", 90, "low"), Seg("skin", 350, "plain")>>

MCTexts == OwnTexts \cup {"opening", "mood", "portrait", "pose", "essay", "note", "claim",
                          "street", "rain", "film", "skin"}

Cam(t, h, v, z) == [type |-> t, horizontal |-> h, vertical |-> v, zoom |-> z]
MCCameras == {Cam("push_in", 0, 0, -40), Cam("pan_left", 0, 0, 0), Cam("tilt_down", 0, 30, 0),
              Cam("other", 5, 5, 5)}
=============================================================================
