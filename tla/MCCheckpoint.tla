---------------------------- MODULE MCCheckpoint ----------------------------
EXTENDS Checkpoint

MCOrder == {0, 1}

=============================================================================
