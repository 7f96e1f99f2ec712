----------------------------- MODULE MCRegenJob -----------------------------
EXTENDS RegenJob
=============================================================================
