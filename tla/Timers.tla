------------------------------- MODULE Timers -------------------------------
(***************************************************************************)
(* What a service of timers promises: a timer that was set stays pending   *)
(* until it is cancelled or fires; it fires at most once, and not before   *)
(* it is due.  How late it fires is left open.                             *)
(***************************************************************************)
EXTENDS Naturals

CONSTANT Refs   \* the references of timers, each used once

VARIABLES due,   \* when each pending timer is due
          past,  \* the references that have been used, pending or not
          fired  \* the timers that fired

Init == due = <<>> /\ past = {} /\ fired = {}

\* rs are taken out of the pending timers.
Without(rs) == [q \in DOMAIN due \ rs |-> due[q]]

Set(r, t) ==
    /\ r \notin past
    /\ past' = past \union {r}
    /\ due' = [q \in DOMAIN due \union {r} |-> IF q = r THEN t ELSE due[q]]
    /\ UNCHANGED fired

Cancel(r) ==
    /\ r \in DOMAIN due
    /\ due' = Without({r})
    /\ UNCHANGED <<past, fired>>

\* At time t some of the timers that are due fire.
Fire(rs, t) ==
    /\ rs \subseteq {r \in DOMAIN due : due[r] <= t}
    /\ due' = Without(rs)
    /\ fired' = fired \union rs
    /\ UNCHANGED past
=============================================================================
