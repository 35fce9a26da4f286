---------------------------- MODULE MCTimerWheel ----------------------------
EXTENDS TimerWheel, TLC

CONSTANTS a, b, c

AllDelays == 1 .. Clock \div 2 - 1

=============================================================================
