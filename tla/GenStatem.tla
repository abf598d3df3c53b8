------------------------------ MODULE GenStatem ------------------------------
(***************************************************************************)
(* A state machine of gen_statem/core.py: its start handshake, its loop    *)
(* with the whole handling of an event, its state timeout, and calls to it.*)
(* A user's handler answers an event with a result and a list of actions;  *)
(* both are left to chance.  The timing wheel is reduced to what a machine *)
(* sees of it: a live timer fires, a task then sends its message.          *)
(***************************************************************************)
EXTENDS Naturals, Sequences, SequencesExt, FiniteSets

CONSTANTS
    Clients,      \* processes that call the machine, once each
    Casts,        \* casts and other messages sent to it; both come, as a
                  \* bound, only when its starter has stopped waiting
    Mail,         \* what others send to its starter meanwhile
    Results,      \* what handlers return: "next" or "repeat", which differ
                  \* only in name here, "keep", and "stop" or "crash"
    ActionLists,  \* with which actions
    InitResults,  \* what init does: "ok", "timeout" (ok, with a timeout), "error"
    MaxStates,    \* bound: the states entered
    MaxTimers,    \* bound: the timeouts set
    MaxInternal,  \* bound: the NextEvent actions
    None

\* NextState, RepeatState, KeepState, StopState, and an exception.
ResultKinds == {"next", "repeat", "keep", "stop", "crash"}
\* ReplyAction (to this caller or an older one), StateTimeoutAction, PostponeAction,
\* NextEventAction.
ActionKinds == {"reply", "reply_old", "timeout", "postpone", "internal"}

ASSUME StatemAssumption ==
    /\ Results \subseteq ResultKinds
    /\ ActionLists \subseteq Seq(ActionKinds)
    /\ InitResults \subseteq {"ok", "timeout", "error"}
    /\ Mail \cap {"ok", "error"} = {}  \* the machine's own answers
    /\ None \notin Nat

VARIABLES
    starter, starter_mailbox, buffered_messages,
    machine,            \* "init", "loop" or how it ended
    mailbox, state_name,
    postponed_events, state_timeout_ref,
    timers,             \* of each timer: how it stands, the state it was set in
    internal,           \* how many NextEvent actions there were
    call,               \* how each client's call stands
    replies,            \* how many replies wait in each client's mailbox
    accepted, done,     \* history: the events sent, those finished with
    held                \* history: the state in which one was last postponed

vars == <<starter, starter_mailbox, buffered_messages, machine, mailbox,
          state_name, postponed_events, state_timeout_ref, timers, internal,
          call, replies, accepted, done, held>>
start_vars  == <<starter, starter_mailbox, buffered_messages>>
loop_vars   == <<state_name, postponed_events, state_timeout_ref, internal,
                 done, held>>
client_vars == <<call, replies>>

Event(type, id, from) == [type |-> type, id |-> <<type, id>>, from |-> from]
Alive == machine \in {"init", "loop"}

Init ==
    /\ starter = "waiting" /\ starter_mailbox = <<>> /\ buffered_messages = <<>>
    /\ machine = "init" /\ mailbox = <<>> /\ state_name = 1
    /\ postponed_events = <<>> /\ state_timeout_ref = None /\ timers = <<>>
    /\ internal = 0 /\ accepted = {} /\ done = {} /\ held = <<>>
    /\ call = [c \in Clients |-> "idle"] /\ replies = [c \in Clients |-> 0]

-----------------------------------------------------------------------------
\* start and start_link: what arrives before the machine's answer is buffered
\* and sent again, to the end of the mailbox, when the start is over.
Disturb(m) ==
    /\ <<"mail", m>> \notin accepted /\ starter = "waiting"
    /\ accepted' = accepted \union {<<"mail", m>>}
    /\ starter_mailbox' = Append(starter_mailbox, m)
    /\ UNCHANGED <<starter, buffered_messages, machine, mailbox, timers,
                   loop_vars, client_vars>>

Started(outcome, rest) ==
    /\ starter' = outcome
    /\ starter_mailbox' = rest \o buffered_messages
    /\ buffered_messages' = <<>>

StarterReceives ==
    /\ starter = "waiting" /\ starter_mailbox # <<>>
    /\ LET m == Head(starter_mailbox)  rest == Tail(starter_mailbox)
       IN \/ m \in {"ok", "error"} /\ Started(m, rest)
          \/ /\ m \in Mail
             /\ buffered_messages' = Append(buffered_messages, m)
             /\ starter_mailbox' = rest
             /\ UNCHANGED starter
    /\ UNCHANGED <<machine, mailbox, timers, accepted, loop_vars, client_vars>>

\* Five seconds without a message; the machine goes on with its init.
StarterTimeout ==
    /\ starter = "waiting" /\ starter_mailbox = <<>>
    /\ Started("timeout", <<>>)
    /\ UNCHANGED <<machine, mailbox, timers, accepted, loop_vars, client_vars>>

\* A timeout is set: the live timer it replaces is marked, and a timer that
\* has fired already is beyond reach.
CancelIn(ts, ref) ==
    IF ref # None /\ ts[ref].at = "live"
    THEN [ts EXCEPT ![ref].at = "cancelled"] ELSE ts
SetIn(ts, ref, state) ==
    Append(CancelIn(ts, ref), [at |-> "live", in |-> state])

RunInit ==
    /\ machine = "init"
    /\ \E r \in InitResults :
          /\ machine' = IF r = "error" THEN "ended" ELSE "loop"
          /\ starter_mailbox' =
                Append(starter_mailbox, IF r = "error" THEN "error" ELSE "ok")
          /\ timers' = IF r = "timeout" THEN SetIn(timers, None, 1) ELSE timers
          /\ state_timeout_ref' = IF r = "timeout" THEN 1 ELSE None
    /\ UNCHANGED <<starter, buffered_messages, mailbox, state_name,
                   postponed_events, internal, accepted, done, held, client_vars>>

-----------------------------------------------------------------------------
\* What the loop does with the actions of a result, in order.  l holds its
\* local variables; a reply binds from_ anew, as the match statement does.
Act(l, a) ==
    CASE a = "reply" /\ l.caller # None -> [l EXCEPT !.to = Append(@, l.caller)]
      [] a = "reply_old" /\ l.old # None ->
            [l EXCEPT !.to = Append(@, l.old), !.from_ = l.old]
      [] a = "timeout" /\ Len(l.timers) < MaxTimers ->
            [l EXCEPT !.timers = SetIn(@, l.ref, l.state),
                      !.ref = Len(l.timers) + 1]
      [] a = "postpone" -> [l EXCEPT !.postpone = TRUE]
      [] a = "internal" /\ l.internal < MaxInternal ->
            [l EXCEPT !.internal = @ + 1,
                      !.mailbox = Append(@, Event("internal", l.internal, None))]
      [] OTHER -> l
Acted(l, actions) ==
    LET after[k \in 0 .. Len(actions)] ==
            IF k = 0 THEN l ELSE Act(after[k - 1], actions[k])
    IN after[Len(actions)]

\* Mutant: a new state keeps the old state's timeout.
EnteredWithTimeout(l) == [l EXCEPT !.state = @ + 1]
\* A state change cancels the old state's timeout before any action runs.
Entered(l) == [l EXCEPT !.state = @ + 1, !.ref = None,
                        !.timers = CancelIn(@, l.ref)]

Kept(e, l) == IF l.postpone THEN <<[e EXCEPT !.from = l.from_]>> ELSE <<>>

\* Mutants: the list is not cleared, or replayed without this event.
ReplayAgain(e, l) ==
    /\ mailbox' = l.mailbox \o postponed_events \o Kept(e, l)
    /\ postponed_events' = postponed_events
ReplayOthers(e, l) ==
    /\ mailbox' = l.mailbox \o postponed_events
    /\ postponed_events' = <<>>
\* After a state change all postponed events are sent to the machine again,
\* this one last, behind whatever waits in the mailbox.
Replay(e, l) ==
    /\ mailbox' = l.mailbox \o postponed_events \o Kept(e, l)
    /\ postponed_events' = <<>>
Keep(e, l) ==
    /\ mailbox' = l.mailbox
    /\ postponed_events' = postponed_events \o Kept(e, l)

Locals(e, old) ==
    [mailbox |-> Tail(mailbox), state |-> state_name, timers |-> timers,
     ref |-> state_timeout_ref, internal |-> internal, postpone |-> FALSE,
     caller |-> e.from, from_ |-> e.from, old |-> old, to |-> <<>>]

\* One turn of _gen_statem_loop that does not end it.
Handle(result, actions, old) ==
    LET e       == Head(mailbox)
        changed == result \in {"next", "repeat"}
        l0      == Locals(e, old)
        l       == Acted(IF changed THEN Entered(l0) ELSE l0, actions)
    IN /\ changed => state_name < MaxStates
       /\ IF changed THEN Replay(e, l) ELSE Keep(e, l)
       /\ state_name' = l.state
       /\ timers' = l.timers
       /\ state_timeout_ref' = l.ref
       /\ internal' = l.internal
       /\ replies' = [c \in Clients |->
              replies[c] + Cardinality({k \in DOMAIN l.to : l.to[k] = c})]
       /\ accepted' = accepted \union {m.id : m \in ToSet(l.mailbox)}
       /\ done' = IF l.postpone THEN done ELSE done \union {e.id}
       /\ held' = [x \in {m.id : m \in ToSet(postponed_events')} |->
                      IF x = e.id THEN l.state ELSE held[x]]
       /\ UNCHANGED <<machine, call, start_vars>>

\* StopState, an exception of the handler or no handler for the state.
End(how) ==
    /\ machine' = how
    /\ mailbox' = <<>> /\ postponed_events' = <<>> /\ held' = <<>>
    /\ UNCHANGED <<timers, accepted, start_vars, client_vars, state_name,
                   state_timeout_ref, internal, done>>

\* Calls that were handled and neither answered nor postponed.
Owed == {c \in Clients : call[c] = "waiting" /\ replies[c] = 0
                         /\ <<"call", c>> \in done}

HandleEvent ==
    /\ machine = "loop" /\ mailbox # <<>>
    /\ \E r \in Results :
          IF r \in {"stop", "crash"} THEN End(r)
          ELSE \E a \in ActionLists, old \in Owed \union {None} :
                   /\ old = None => "reply_old" \notin ToSet(a)
                   /\ old # None => "reply_old" \in ToSet(a)
                   /\ Handle(r, a, old)

-----------------------------------------------------------------------------
TimerFires(i) ==
    /\ timers[i].at = "live"
    /\ timers' = [timers EXCEPT ![i].at = "sending"]
    /\ UNCHANGED <<machine, mailbox, accepted, start_vars, loop_vars, client_vars>>

Deliver(e) ==
    IF Alive THEN /\ mailbox' = Append(mailbox, e)
                  /\ accepted' = accepted \union {e.id}
             ELSE UNCHANGED <<mailbox, accepted>>

TimeoutSent(i) ==
    /\ timers[i].at = "sending"
    /\ timers' = [timers EXCEPT ![i].at = "sent"]
    /\ Deliver(Event("state_timeout", i, None))
    /\ UNCHANGED <<machine, start_vars, loop_vars, client_vars>>

Cast(m) ==
    /\ <<"cast", m>> \notin accepted /\ Alive /\ starter # "waiting"
    /\ Deliver(Event("cast", m, None))
    /\ UNCHANGED <<machine, timers, start_vars, loop_vars, client_vars>>

\* call: a name that is not registered is refused.  The caller drops every
\* message but its reply, and waits for a DOWN of four fields, which is never
\* sent: only its own timeout ends a call to a machine that is gone.
Ask(c) ==
    /\ call[c] = "idle" /\ starter # "waiting"
    /\ IF Alive THEN /\ call' = [call EXCEPT ![c] = "waiting"]
                     /\ Deliver(Event("call", c, c))
                ELSE /\ call' = [call EXCEPT ![c] = "not_found"]
                     /\ UNCHANGED <<mailbox, accepted>>
    /\ UNCHANGED <<machine, timers, replies, start_vars, loop_vars>>

TakeReply(c) ==
    /\ call[c] = "waiting" /\ replies[c] > 0
    /\ call' = [call EXCEPT ![c] = "answered"]
    /\ replies' = [replies EXCEPT ![c] = @ - 1]
    /\ UNCHANGED <<machine, mailbox, timers, accepted, start_vars, loop_vars>>

CallTimeout(c) ==
    /\ call[c] = "waiting"
    /\ call' = [call EXCEPT ![c] = "timed_out"]
    /\ UNCHANGED <<machine, mailbox, timers, accepted, replies, start_vars,
                   loop_vars>>

Next == \/ \E m \in Mail : Disturb(m)
        \/ StarterReceives \/ StarterTimeout \/ RunInit \/ HandleEvent
        \/ \E i \in DOMAIN timers : TimerFires(i) \/ TimeoutSent(i)
        \/ \E m \in Casts : Cast(m)
        \/ \E c \in Clients : Ask(c) \/ TakeReply(c) \/ CallTimeout(c)

\* asyncio runs the machine when it has mail.
Spec == Init /\ [][Next]_vars /\ WF_vars(RunInit) /\ WF_vars(HandleEvent)

-----------------------------------------------------------------------------
Occurrences(x, s) == Cardinality({i \in DOMAIN s : s[i].id = x})

\* While the machine runs, each event it was sent waits exactly once, in the
\* mailbox or in the list of postponed events, until a handler is done with
\* it; the list holds only events of the present state, so that none misses a
\* state change.  Nor does the handshake lose or double its starter's mail
\* (_gen_statem_loop and start, gen_statem/core.py).
NothingLost ==
    /\ machine = "loop" =>
          /\ \A x \in {y \in accepted : y[1] # "mail"} :
                Occurrences(x, mailbox) + Occurrences(x, postponed_events)
                    = IF x \in done THEN 0 ELSE 1
          /\ \A e \in ToSet(postponed_events) : held[e.id] = state_name
    /\ \A m \in Mail : <<"mail", m>> \in accepted =>
          Cardinality({i \in DOMAIN starter_mailbox : starter_mailbox[i] = m})
            + Cardinality({i \in DOMAIN buffered_messages :
                              buffered_messages[i] = m}) = 1
    /\ starter # "waiting" => buffered_messages = <<>>

\* At most one timeout can still fire, the one the machine would cancel, and
\* it was set in the present state: a timeout that reaches a later state had
\* fired before the change (lines 555 to 585 of gen_statem/core.py).
OneTimeout ==
    machine = "loop" =>
        \A i \in DOMAIN timers :
            timers[i].at = "live" => /\ i = state_timeout_ref
                                     /\ timers[i].in = state_name

\* Every event the machine was sent is handled: it is then done with, or
\* postponed in a state that has not changed since.
EventsHandled ==
    \A x \in {<<"cast", m>> : m \in Casts} \union {<<"call", c>> : c \in Clients} :
        (x \in accepted) ~>
            (\/ x \in done \/ machine # "loop"
             \/ x \in {e.id : e \in ToSet(postponed_events)})
==============================================================================
