------------------------------ MODULE Starters ------------------------------
(***************************************************************************)
(* A process that starts others, one after another, with start or          *)
(* start_link of any behaviour, while it gets other mail.  Every start     *)
(* spawns a loop and waits in the caller's own mailbox for the loop's      *)
(* word; the behaviours differ in what they do with other messages that    *)
(* come first.                                                             *)
(***************************************************************************)
EXTENDS Naturals, Sequences, FiniteSets

CONSTANTS
    MaxStarts,   \* bound: starts
    OtherMail    \* messages of others to the starter, each sent once

ASSUME StartersAssumption == MaxStarts \in Nat

StartBehaviors == {"gen_server", "gen_statem", "supervisor", "dynamic_supervisor", "task"}
StartIds == 1 .. MaxStarts

VARIABLES
    traps,       \* whether the starter traps exits
    waiting,     \* the start it waits in; 0: none
    gone,        \* a process it was linked to took it along
    starts,      \* the starts made: behaviour, and whether linked
    spawned,     \* each start's process: init, up, failed (it said so) or killed
    outcome,     \* what each start came to
    letters,     \* the starter's mailbox
    kept,        \* buffered_messages
    arrived,     \* history: other mail that reached it
    read,        \* history: what its own code received
    swallowed    \* history: what a start received and did not want

startVars == <<traps, waiting, gone, starts, spawned, outcome, letters, kept, arrived, read, swallowed>>

Ok(k) == [tag |-> "ok", start |-> k]
Failed(k) == [tag |-> "error", start |-> k]
ExitOf(k) == [tag |-> "EXIT", start |-> k]
Other(m) == [tag |-> "mail", id |-> m]

StartsInit ==
    /\ traps \in BOOLEAN
    /\ waiting = 0 /\ gone = FALSE /\ starts = <<>>
    /\ spawned = [k \in StartIds |-> "absent"]
    /\ outcome = [k \in StartIds |-> "none"]
    /\ letters = <<>> /\ kept = <<>>
    /\ arrived = {} /\ read = {} /\ swallowed = {}

-----------------------------------------------------------------------------
(* The starter.                                                            *)

BeginStart(behavior, linked) ==
    /\ ~gone /\ waiting = 0 /\ Len(starts) < MaxStarts
    /\ waiting' = Len(starts) + 1
    /\ starts' = Append(starts, [behavior |-> behavior, linked |-> linked])
    /\ spawned' = [spawned EXCEPT ![Len(starts) + 1] = "init"]
    /\ UNCHANGED <<traps, gone, outcome, letters, kept, arrived, read, swallowed>>

\* Fault: the word of any process of the behaviour will do.
AnyWord(k, m, word) == m.tag = word.tag
OwnWord(k, m, word) == m = word

IsReply(m) == m.tag \in {"ok", "error"}

\* The answers to a message: the start's result, or "keep" it and wait on.
\* gen_server.start words its error with a variable it has not assigned yet.
GenServerStart(k, m) ==
    CASE OwnWord(k, m, Ok(k)) -> "pid"
      [] OwnWord(k, m, Failed(k)) ->
            IF starts[k].linked THEN "RuntimeError" ELSE "UnboundLocalError"
      [] IsReply(m) /\ m.start # k /\ starts[m.start].behavior = "gen_server" -> "unexpected"
      [] OTHER -> "keep"
GenStatemStart(k, m) ==
    CASE OwnWord(k, m, Ok(k)) -> "pid"
      [] OwnWord(k, m, Failed(k)) -> "RuntimeError"
      [] OTHER -> "keep"
\* Supervisors and tasks take the first message for the answer.
TaskStart(k, m) ==
    CASE OwnWord(k, m, Ok(k)) -> "pid"
      [] OwnWord(k, m, Failed(k)) -> "RuntimeError"
      [] OTHER -> "unexpected"
SupervisorStart(k, m) == TaskStart(k, m)
DynamicSupervisorStart(k, m) == TaskStart(k, m)

Verdict(k, m) ==
    CASE starts[k].behavior = "gen_server" -> GenServerStart(k, m)
      [] starts[k].behavior = "gen_statem" -> GenStatemStart(k, m)
      [] starts[k].behavior = "supervisor" -> SupervisorStart(k, m)
      [] starts[k].behavior = "dynamic_supervisor" -> DynamicSupervisorStart(k, m)
      [] OTHER -> TaskStart(k, m)

\* The start is over: what it kept is sent again.
EndStart(result, rest) ==
    /\ outcome' = [outcome EXCEPT ![waiting] = result]
    /\ letters' = rest \o kept
    /\ kept' = <<>>
    /\ waiting' = 0

StartReceives ==
    /\ waiting # 0 /\ letters # <<>>
    /\ LET m == Head(letters)  verdict == Verdict(waiting, m) IN
       IF verdict = "keep"
         THEN /\ kept' = Append(kept, m) /\ letters' = Tail(letters)
              /\ UNCHANGED <<waiting, outcome, swallowed>>
         ELSE /\ EndStart(verdict, Tail(letters))
              /\ swallowed' = IF verdict = "unexpected" THEN swallowed \cup {m} ELSE swallowed
    /\ UNCHANGED <<traps, gone, starts, spawned, arrived, read>>

\* Five seconds without a message.  The process goes on with its init.
StartTimesOut ==
    /\ waiting # 0 /\ letters = <<>>
    /\ EndStart("TimeoutError", <<>>)
    /\ UNCHANGED <<traps, gone, starts, spawned, arrived, read, swallowed>>

\* Between starts the starter's own code receives.
ReadLetter ==
    /\ waiting = 0 /\ letters # <<>>
    /\ read' = read \cup {Head(letters)}
    /\ letters' = Tail(letters)
    /\ UNCHANGED <<traps, waiting, gone, starts, spawned, outcome, kept, arrived, swallowed>>

-----------------------------------------------------------------------------
(* The others.                                                             *)

Post(m) == letters' = IF gone THEN letters ELSE Append(letters, m)

ArriveMail(m) ==
    /\ ~gone /\ m \notin arrived
    /\ arrived' = arrived \cup {m}
    /\ Post(Other(m))
    /\ UNCHANGED <<traps, waiting, gone, starts, spawned, outcome, kept, read, swallowed>>

\* init returns or raises; a task says yes before it runs.
RunStartedInit(k) ==
    /\ spawned[k] = "init"
    /\ \/ spawned' = [spawned EXCEPT ![k] = "up"] /\ Post(Ok(k))
       \/ /\ starts[k].behavior # "task"
          /\ spawned' = [spawned EXCEPT ![k] = "failed"] /\ Post(Failed(k))
    /\ UNCHANGED <<traps, waiting, gone, starts, outcome, kept, arrived, read, swallowed>>

\* Somebody kills it; a starter that is linked and does not trap exits goes too.
KillStarted(k) ==
    /\ spawned[k] \in {"init", "up"}
    /\ spawned' = [spawned EXCEPT ![k] = "killed"]
    /\ IF ~starts[k].linked \/ gone THEN UNCHANGED <<waiting, gone, letters, kept>>
       ELSE IF traps THEN Post(ExitOf(k)) /\ UNCHANGED <<waiting, gone, kept>>
       ELSE gone' = TRUE /\ waiting' = 0 /\ letters' = <<>> /\ kept' = <<>>
    /\ UNCHANGED <<traps, starts, outcome, arrived, read, swallowed>>

StartsNext ==
    \/ \E b \in StartBehaviors, linked \in BOOLEAN : BeginStart(b, linked)
    \/ StartReceives \/ StartTimesOut \/ ReadLetter
    \/ \E m \in OtherMail : ArriveMail(m)
    \/ \E k \in DOMAIN starts : RunStartedInit(k) \/ KillStarted(k)

StartsSpec == StartsInit /\ [][StartsNext]_startVars

-----------------------------------------------------------------------------
(* Properties.                                                             *)

Copies(m) ==
    Cardinality({i \in DOMAIN letters : letters[i] = m})
      + Cardinality({i \in DOMAIN kept : kept[i] = m})
      + (IF m \in read THEN 1 ELSE 0) + (IF m \in swallowed THEN 1 ELSE 0)

\* A start speaks for its own process: it returns a pid only if that process finished
\* its init, and raises its failure only if that failed, whatever late replies of
\* earlier starts are about.
SpeaksForItsOwn ==
    \A k \in StartIds :
        /\ outcome[k] = "pid" => spawned[k] \in {"up", "killed"} /\ Copies(Ok(k)) = 0
        /\ outcome[k] \in {"RuntimeError", "UnboundLocalError"} => spawned[k] = "failed"

\* Mail is neither lost nor doubled by a start that buffers, and such a start fails over
\* a message only if that is the late reply of a start that had timed out.
MailSurvivesStarts ==
    ~gone =>
        /\ waiting = 0 => kept = <<>>
        /\ \A m \in arrived : Copies(Other(m)) = 1
        /\ \A m \in swallowed :
              \E k \in StartIds :
                  /\ outcome[k] = "unexpected"
                  /\ starts[k].behavior \in {"gen_server", "gen_statem"} =>
                        /\ starts[k].behavior = "gen_server" /\ IsReply(m)
                        /\ \E j \in 1 .. k - 1 : outcome[j] = "TimeoutError"

\* Every start comes to a true end, and takes from the mailbox only what it must.
StartsAccounted == SpeaksForItsOwn /\ MailSurvivesStarts
=============================================================================
