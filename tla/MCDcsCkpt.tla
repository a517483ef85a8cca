----------------------------- MODULE MCDcsCkpt -----------------------------
EXTENDS DcsCkpt, TLC
=============================================================================
