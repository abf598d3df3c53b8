----------------------------- MODULE TimingWheel -----------------------------
(***************************************************************************)
(* The timing wheel of the asyncio backend and the task that ticks it      *)
(* (timing_wheel.py, and sleep, send_after, cancel_timer, read_timer and   *)
(* _run_timing_wheel of backend.py).  The wheel is a ring of slots, each a *)
(* list of timers; a timer goes to the slot its delay selects and is       *)
(* cancelled through an index of (slot, position).  A tick handles one     *)
(* slot.  Ticks come at least tick_ms apart and may come late.             *)
(***************************************************************************)
EXTENDS Integers, Sequences, SequencesExt, FiniteSets

CONSTANTS Refs,        \* the timers; _ref_counter never repeats one
          Sleeps,      \* those set by sleep(), which wake a process directly
          Delays,      \* the delays asked for
          tick_ms, num_slots,
          MaxLate      \* bound: how late a tick may be

ASSUME WheelAssumption ==
    /\ tick_ms \in Nat \ {0} /\ num_slots \in Nat \ {0} /\ MaxLate \in Nat
    /\ Delays \subseteq Nat /\ Sleeps \subseteq Refs

VARIABLES clock,             \* the monotonic clock
          current_time_ms, current_slot, wheel, timer_index,
          sending,           \* tasks that tick created to send, in order
          delivered,         \* what was sent or woken
          born               \* history: each timer's delay, when it was set,
                             \* the ticks it has seen

vars == <<clock, current_time_ms, current_slot, wheel, timer_index, sending,
          delivered, born>>

Slots == 0 .. num_slots - 1
Used  == DOMAIN born
At(f, x, v) == [y \in DOMAIN f \union {x} |-> IF y = x THEN v ELSE f[y]]

Init ==
    /\ clock = 0 /\ current_time_ms = 0 /\ current_slot = 0
    /\ wheel = [s \in Slots |-> <<>>]
    /\ timer_index = <<>> /\ born = <<>>
    /\ sending = <<>> /\ delivered = {}

TimePasses ==
    /\ clock < current_time_ms + tick_ms + MaxLate
    /\ clock' = clock + 1
    /\ UNCHANGED <<current_time_ms, current_slot, wheel, timer_index, sending,
                   delivered, born>>

\* Fault: a slot too late.
TargetSlotLate(delay_ms) ==
    (current_slot + delay_ms \div tick_ms + 1) % num_slots

TargetSlot(delay_ms) == (current_slot + delay_ms \div tick_ms) % num_slots

\* insert, from sleep() or send_after(): the time is that of the last tick.
Insert(r, delay_ms) ==
    LET target_slot == TargetSlot(delay_ms)
        timer == [ref |-> r, expiry_ms |-> current_time_ms + delay_ms,
                  cancelled |-> FALSE]
    IN /\ r \notin Used
       /\ wheel' = [wheel EXCEPT ![target_slot] = Append(@, timer)]
       /\ timer_index' = At(timer_index, r,
              [slot |-> target_slot, index |-> Len(wheel[target_slot]) + 1])
       /\ born' = At(born, r, [delay |-> delay_ms, at |-> clock, ticks |-> 0])
       /\ UNCHANGED <<clock, current_time_ms, current_slot, sending, delivered>>

\* cancel_timer: the timer is marked where the index says it is.
Cancel(r) ==
    /\ r \in DOMAIN timer_index \ Sleeps
    /\ LET loc == timer_index[r]
       IN wheel' = IF loc.index <= Len(wheel[loc.slot])
                   THEN [wheel EXCEPT ![loc.slot][loc.index].cancelled = TRUE]
                   ELSE wheel
    /\ timer_index' = [q \in DOMAIN timer_index \ {r} |-> timer_index[q]]
    /\ UNCHANGED <<clock, current_time_ms, current_slot, sending, delivered,
                   born>>

\* read_timer; -1 stands for None.
ReadTimer(r) ==
    IF r \notin DOMAIN timer_index THEN -1
    ELSE LET loc  == timer_index[r]
             slot == wheel[loc.slot]
         IN IF loc.index > Len(slot) \/ slot[loc.index].cancelled THEN -1
            ELSE IF slot[loc.index].expiry_ms <= current_time_ms THEN 0
            ELSE slot[loc.index].expiry_ms - current_time_ms

-----------------------------------------------------------------------------
\* The list of what slot has at the positions S, in the same order.
Picked(slot, S) ==
    [i \in 1 .. Cardinality(S) |->
        slot[CHOOSE p \in S : Cardinality({q \in S : q <= p}) = i]]

\* Mutant: a cancelled timer fires.
ExpiredOfMarked(slot, t) ==
    Picked(slot, {i \in DOMAIN slot : slot[i].expiry_ms <= t})

\* The lists tick makes of a slot at time t, and the index it leaves.
ExpiredOf(slot, t) ==
    Picked(slot, {i \in DOMAIN slot : ~slot[i].cancelled /\ slot[i].expiry_ms <= t})
RemainingOf(slot, t) ==
    Picked(slot, {i \in DOMAIN slot : ~slot[i].cancelled /\ slot[i].expiry_ms > t})
RefsOf(slot) == [i \in DOMAIN slot |-> slot[i].ref]
\* Mutant: a slot is compacted without new positions.
ReindexedNot(remaining, expired) ==
    [q \in DOMAIN timer_index \ ToSet(RefsOf(expired)) |-> timer_index[q]]

Reindexed(remaining, expired) ==
    [q \in DOMAIN timer_index \ ToSet(RefsOf(expired)) |->
        IF \E i \in DOMAIN remaining : remaining[i].ref = q
        THEN [timer_index[q] EXCEPT
                 !.index = CHOOSE i \in DOMAIN remaining : remaining[i].ref = q]
        ELSE timer_index[q]]

\* One turn of _run_timing_wheel: callbacks run at once, a message gets a task.
Tick ==
    LET slot      == wheel[current_slot]
        expired   == ExpiredOf(slot, clock)
        remaining == RemainingOf(slot, clock)
        fired     == RefsOf(expired)
    IN /\ clock >= current_time_ms + tick_ms
       /\ current_time_ms' = clock
       /\ wheel' = [wheel EXCEPT ![current_slot] = remaining]
       /\ timer_index' = Reindexed(remaining, expired)
       /\ current_slot' = (current_slot + 1) % num_slots
       /\ delivered' = delivered \union (ToSet(fired) \intersect Sleeps)
       /\ sending' = sending \o Picked(fired, {i \in DOMAIN fired : fired[i] \notin Sleeps})
       /\ born' = [r \in Used |-> IF r \in DOMAIN timer_index
                                  THEN [born[r] EXCEPT !.ticks = @ + 1]
                                  ELSE born[r]]
       /\ UNCHANGED clock

\* A task that tick created runs send.
Send ==
    /\ sending # <<>>
    /\ delivered' = delivered \union {Head(sending)}
    /\ sending' = Tail(sending)
    /\ UNCHANGED <<clock, current_time_ms, current_slot, wheel, timer_index,
                   born>>

Next == \/ TimePasses \/ Tick \/ Send
        \/ \E r \in Refs, d \in Delays : Insert(r, d)
        \/ \E r \in Refs : Cancel(r)

Spec == Init /\ [][Next]_vars

-----------------------------------------------------------------------------
\* The timers that are neither cancelled nor fired, with their slots.
Live == UNION {{<<s, i>> : i \in {j \in DOMAIN wheel[s] : ~wheel[s][j].cancelled}} :
                  s \in Slots}
Pending ==
    [r \in {wheel[x[1]][x[2]].ref : x \in Live} |->
        LET x == CHOOSE y \in Live : wheel[y[1]][y[2]].ref = r
        IN wheel[x[1]][x[2]].expiry_ms]

\* The wheel is a timer service: a timer fires once, never after it was
\* cancelled and never before it expires (tick and cancel, timing_wheel.py).
Fired   == delivered \union ToSet(sending)
Service == INSTANCE Timers
               WITH due <- Pending, past <- Used, fired <- Fired
ServiceStep ==
    \/ \E r \in Refs, d \in Delays : Service!Set(r, current_time_ms + d)
    \/ \E r \in Refs : Service!Cancel(r)
    \/ Service!Fire(Fired' \ Fired, clock)
KeepsTimerPromise == Service!Init /\ [][ServiceStep]_<<Pending, Used, Fired>>

\* Moving a timer within its slot or cancelling its neighbour never leaves the
\* index pointing elsewhere: every live timer is found where it says, and
\* nothing else is (cancel and read_timer trust it blindly).
IndexExact ==
    /\ DOMAIN timer_index = DOMAIN Pending
    /\ \A r \in DOMAIN timer_index :
          LET loc == timer_index[r]
          IN /\ loc.index \in DOMAIN wheel[loc.slot]
             /\ wheel[loc.slot][loc.index].ref = r
             /\ ReadTimer(r) = IF Pending[r] <= current_time_ms THEN 0
                               ELSE Pending[r] - current_time_ms

\* A delay within the wheel's reach is not cut short by more than a tick,
\* though the expiry is counted from the last tick and ticks may be late.
NeverEarly ==
    [][\A r \in Fired' \ Fired :
          born[r].delay < tick_ms * num_slots =>
             clock + tick_ms > born[r].at + born[r].delay]_vars

\* No timer is passed over: it fires at the latest at the tick its delay
\* selects, whatever revolution that is in and however late ticks are.
LateByTicksOnly ==
    \A r \in DOMAIN timer_index : born[r].ticks <= born[r].delay \div tick_ms

\* A timer fires neither early by more than a tick nor later than its tick.
Punctual == NeverEarly /\ [][LateByTicksOnly']_vars
=============================================================================
