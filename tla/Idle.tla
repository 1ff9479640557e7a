-------------------------------- MODULE Idle --------------------------------
(***************************************************************************)
(* How long the user has been idle, from two readings of a counter of        *)
(* milliseconds that starts again at zero (sources.go, win32_windows.go).    *)
(***************************************************************************)
EXTENDS Naturals

CONSTANTS TickValues,    \* the counter's values: 2^32
          IdleThreshold  \* seconds

\* GetTickCount, or the time of the last input, at time t of a clock that goes on.
Ticks(t) == t % TickValues

IdleFromTickCount(nowTick, lastInputTick) ==
    IF nowTick >= lastInputTick
    THEN nowTick - lastInputTick
    ELSE (TickValues - 1 - lastInputTick) + nowTick + 1

\* A sample's Active.
Active(nowTick, lastInputTick) ==
    IdleFromTickCount(nowTick, lastInputTick) < 1000 * IdleThreshold
=============================================================================
