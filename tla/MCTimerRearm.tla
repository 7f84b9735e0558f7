---------------------------- MODULE MCTimerRearm ----------------------------
EXTENDS TimerRearm
=============================================================================
