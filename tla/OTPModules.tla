----------------------------- MODULE OTPModules -----------------------------
(***************************************************************************)
(* OTP modules: the metaclass that checks a class against the contract of  *)
(* its behaviour (module/core.py, module/data.py), the start_link it adds, *)
(* and what the behaviours' loops later ask of an instance.                *)
(*                                                                         *)
(* A class is what the checks look at: its behaviour, the class it         *)
(* extends, how its version is written and its own functions, each         *)
(* "async" or "sync".  A helper is any function no contract names.         *)
(***************************************************************************)
EXTENDS Naturals, Sequences, FiniteSets

CONSTANTS
    MaxClasses,    \* bound: classes defined
    MaxRuns,       \* bound: processes started
    NoClass

ASSUME ModulesAssumption == NoClass \notin Nat

VARIABLES
    classes,       \* the classes that came through, in order
    instances,     \* processes running one: class, callbacks they were asked for
    refused,       \* history: errors of definitions and starts
    unserved       \* history: callbacks a loop asked for and could not have

moduleVars == <<classes, instances, refused, unserved>>

\* BEHAVIOR_CONTRACTS: the callbacks each behaviour requires.
Contracts == [gen_server         |-> {"init", "handle_call", "handle_cast", "handle_info", "terminate"},
              supervisor         |-> {"init", "terminate"},
              dynamic_supervisor |-> {"init", "terminate"},
              application        |-> {"start", "stop"},
              gen_statem         |-> {"init", "callback_mode", "terminate"},
              gen_event          |-> {"init", "handle_event", "terminate"},
              task               |-> {"run"}]
Behaviors == DOMAIN Contracts
Plain == "plain"

\* What a gen_statem routes its events to, by its callback mode: handle_event, or the
\* function of the state it is in, here the only one.  No contract of a behaviour that
\* can be started names them; to the other behaviours they are helpers.
StateHandlers == {"handle_event", "state_one"}

\* The behaviours that otpylib has a module with start_link for.
Startable == {"gen_server", "supervisor", "dynamic_supervisor", "gen_statem", "task"}

ModulesInit ==
    /\ classes = <<>> /\ instances = <<>>
    /\ refused = {} /\ unserved = {}

-----------------------------------------------------------------------------
(* Definition.                                                             *)

\* A class's functions: those its behaviour requires, but one or with one more, and all
\* of them coroutine functions but at most one.
Namespaces(behavior) ==
    LET required == IF behavior \in Behaviors THEN Contracts[behavior] ELSE {}
    IN {[f \in fs |-> IF f = plain THEN "sync" ELSE "async"] :
            fs \in {required} \cup {required \ {f} : f \in required}
                   \cup {required \cup {f} : f \in StateHandlers},
            plain \in required \cup StateHandlers \cup {"none"}}

\* Fault: a function need not be a coroutine function.
AnyFunction(functions) == FALSE
HasSync(functions) == \E f \in DOMAIN functions : functions[f] = "sync"

\* The first check that fails, in the order of __new__; helpers are looked at too.
Check(class) ==
    IF class.version = "absent" THEN "NoVersionSpecifiedError"
    ELSE IF class.version = "malformed" THEN "InvalidVersionFormatError"
    ELSE IF class.behavior = Plain THEN "valid"
    ELSE IF class.behavior \notin Behaviors THEN "UnknownBehaviorError"
    ELSE IF ~ Contracts[class.behavior] \subseteq DOMAIN class.functions
         THEN "MissingCallbackError"
    ELSE IF HasSync(class.functions) THEN "InvalidCallbackError"
    ELSE "valid"

\* A class statement.  A class that extends another hands its version on to nobody.
DefineClass ==
    /\ Len(classes) < MaxClasses
    /\ \E behavior \in Behaviors \cup {Plain, "unknown"},
          version \in {"well formed", "malformed", "absent"},
          base \in DOMAIN classes \cup {NoClass} :
       \E functions \in Namespaces(behavior) :
          LET class == [behavior |-> behavior, version |-> version, base |-> base,
                        functions |-> functions]
              verdict == Check(class)
          IN IF verdict = "valid"
               THEN classes' = Append(classes, class) /\ UNCHANGED refused
               ELSE refused' = refused \cup {verdict} /\ UNCHANGED classes
    /\ UNCHANGED <<instances, unserved>>

-----------------------------------------------------------------------------
(* Start and run.                                                          *)

\* The functions an instance has: its class's own and those of the classes it extends.
Attributes[c \in DOMAIN classes] ==
    LET class == classes[c]
        own == class.functions
        inherited == IF class.base = NoClass THEN <<>> ELSE Attributes[class.base]
    IN [f \in DOMAIN own \cup DOMAIN inherited |->
           IF f \in DOMAIN own THEN own[f] ELSE inherited[f]]

\* start_link, inherited by a class without a behaviour, starts the class it was made for.
Starter[c \in DOMAIN classes] ==
    IF classes[c].behavior # Plain THEN c
    ELSE IF classes[c].base = NoClass THEN NoClass
    ELSE Starter[classes[c].base]

StartLink(c) ==
    /\ Len(instances) < MaxRuns
    /\ LET starter == Starter[c] IN
       IF starter = NoClass
         THEN refused' = refused \cup {"AttributeError"} /\ UNCHANGED instances
       ELSE IF classes[starter].behavior \notin Startable
         THEN refused' = refused \cup {"RuntimeError"} /\ UNCHANGED instances
       ELSE /\ instances' = Append(instances, [class |-> starter, at |-> "init"])
            /\ UNCHANGED refused
    /\ UNCHANGED <<classes, unserved>>

\* What the loop of a behaviour asks its instance for, by name, at each stage.
FirstAsked(behavior) ==
    CASE behavior = "task" -> {"run"}
      [] behavior = "gen_statem" -> {"callback_mode", "init"}
      [] OTHER -> {"init"}
AskedWhileRunning(behavior) ==
    CASE behavior = "gen_server" -> {"handle_call", "handle_cast", "handle_info"}
      [] behavior = "gen_statem" -> StateHandlers
      [] OTHER -> {}
AskedAtTheEnd(behavior) ==
    IF behavior \in {"gen_server", "gen_statem", "dynamic_supervisor"} THEN {"terminate"} ELSE {}

\* gen_server takes terminate from the class's own callbacks, the others from the
\* instance.  Without one they do without; a function that is not async is no use.
Lookup(c, name) ==
    IF name = "terminate" /\ classes[c].behavior = "gen_server"
      THEN classes[c].functions ELSE Attributes[c]
Served(c, name) ==
    LET found == Lookup(c, name) IN name \in DOMAIN found /\ found[name] = "async"

Ask(i, names, next) ==
    /\ unserved' = unserved \cup
           {<<instances[i].class, name>> : name \in {n \in names : ~ Served(instances[i].class, n)}}
    /\ instances' = [instances EXCEPT ![i].at = next]
    /\ UNCHANGED <<classes, refused>>

BehaviorOf(i) == classes[instances[i].class].behavior

RunInit(i) ==
    /\ instances[i].at = "init"
    /\ Ask(i, FirstAsked(BehaviorOf(i)), "running")

\* A loop that cannot have its callback raises, a gen_statem NotImplementedError.
Handle(i) ==
    /\ instances[i].at = "running"
    /\ \E name \in AskedWhileRunning(BehaviorOf(i)) :
          Ask(i, {name}, IF Served(instances[i].class, name) THEN "running" ELSE "ended")

RunTerminate(i) ==
    /\ instances[i].at = "running"
    /\ Ask(i, AskedAtTheEnd(BehaviorOf(i)), "ended")

ModulesNext ==
    \/ DefineClass
    \/ \E c \in DOMAIN classes : StartLink(c)
    \/ \E i \in DOMAIN instances : RunInit(i) \/ Handle(i) \/ RunTerminate(i)

ModulesSpec == ModulesInit /\ [][ModulesNext]_moduleVars

-----------------------------------------------------------------------------
(* Properties.                                                             *)

\* What the metaclass lets through is enough, but for a gen_statem's events: whatever
\* class start_link reaches, also by inheritance, its behaviour's loop finds what it asks
\* for by name, and finds a coroutine function.  All that may be missing, or be inherited
\* from a plain class as an ordinary function, is a state handler that the class of a
\* gen_statem does not define itself: no contract requires it.
ContractsSuffice ==
    \A ask \in unserved :
        LET class == classes[ask[1]]
        IN class.behavior = "gen_statem" /\ ask[2] \in StateHandlers \ DOMAIN class.functions
=============================================================================
