----------------------------- MODULE MCTimeWheel -----------------------------
(* Instances of TimeWheel: durations in half ticks, a wheel of 3 slots.     *)
EXTENDS TimeWheel, TLC

MCDelays == {0, 1, 4, 6, 9}     \* 1, 1, 2, 3 and 5 ticks: up to a turn and more
MCPeriods == {2, 7}             \* 1 and 4 ticks: no whole turn
=============================================================================
