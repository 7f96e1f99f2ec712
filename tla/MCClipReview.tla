---------------------------- MODULE MCClipReview ----------------------------
EXTENDS ClipReview
=============================================================================
