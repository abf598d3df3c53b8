--------------------------- MODULE MCTimingWheel ---------------------------
EXTENDS TimingWheel
CONSTANTS t1, t2, t3
Alike == Permutations({t1, t2})

\* Times matter only relative to the last tick, and a timer that is over only
\* by being over: what the wheel does next and every property depend on this.
Relative ==
    <<clock - current_time_ms, current_slot,
      [s \in Slots |-> [i \in DOMAIN wheel[s] |->
          <<wheel[s][i].ref, wheel[s][i].expiry_ms - current_time_ms,
            wheel[s][i].cancelled>>]],
      timer_index, sending, Used,
      [r \in DOMAIN timer_index |->
          <<born[r].delay, born[r].at - current_time_ms, born[r].ticks>>]>>
============================================================================
