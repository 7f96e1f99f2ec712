------------------------------ MODULE MCCanvas ------------------------------
EXTENDS Canvas
MCShots == {"shot1", "shot2"}
MCFirstFrames == {1}
=============================================================================
