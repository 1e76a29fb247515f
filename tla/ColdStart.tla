------------------------------ MODULE ColdStart ------------------------------
(***************************************************************************)
(* The API as a Lambda function: how an instance gets its configuration    *)
(* and its server, and what its invocations come to, over a database whose *)
(* schema somebody else migrates.                                          *)
(*                                                                         *)
(* An instance builds its server once, from the environment it was started *)
(* with and, when that only names it, the parameter that holds the         *)
(* connection string.  The outcome is cached, a failure like a success,    *)
(* for as long as the instance lives.                                      *)
(***************************************************************************)
EXTENDS Naturals

CONSTANTS Instance,   \* function instances
          Deployed    \* the environments deployed, one after the other

VARIABLES schema,      \* the migrations whose objects exist
          parameter,   \* the value of the SSM parameter
          revision,    \* which of Deployed is the function's configuration
          instance,    \* instance -> what it has of its server
          asks,        \* instance -> the invocation it works on, or "none"
          answer       \* instance -> how its last invocation ended


(* What the environment sets: DATABASE_URL, or the name of a parameter; of *)
(* the four keys of the worker launch none, some or all, perhaps with      *)
(* nothing but commas for subnets; and the numbers, well formed or not.    *)
Env == [source : {"url", "parameter", "neither"},
        launch : {"none", "some", "blank", "all"},
        numbers : BOOLEAN]

(* Terraform creates the parameter with a placeholder; its value is        *)
(* written by hand, and written again when the credentials are rotated.    *)
Parameter == {"placeholder", "first", "second"}
Url == Parameter \cup {"none", "configured"}

Server == [pc : {"off", "reading", "ready", "rejected"},
           env : Env, url : Url, launch : {"none", "all"}]

TypeOK ==
  /\ parameter \in Parameter
  /\ revision \in DOMAIN Deployed
  /\ instance \in [Instance -> Server]
  /\ asks \in [Instance -> {"none", "read", "submission"}]
  /\ answer \in [Instance -> {"none", "served", "failed"}]

env == Deployed[revision]
Off == [pc |-> "off", env |-> env, url |-> "none", launch |-> "none"]

Init ==
  /\ parameter = "placeholder"
  /\ revision = 1
  /\ instance = [n \in Instance |-> Off]
  /\ asks = [n \in Instance |-> "none"]
  /\ answer = [n \in Instance |-> "none"]

-----------------------------------------------------------------------------
(* The start of an instance. *)

(* Mutant: what is there of a worker launch is used.                       *)
LaunchRefusedIfBlank(e) == e.launch = "blank"

(* loadWorkerLaunch throws. *)
LaunchRefused(e) == e.launch \in {"some", "blank"}

(* loadConfig throws a ConfigError. *)
Refused(e, url) == url = "none" \/ ~e.numbers \/ LaunchRefused(e)

(* buildServer, which opens a pool but connects to nothing. *)
Built(e, url) ==
  IF Refused(e, url) THEN [pc |-> "rejected", env |-> e, url |-> url, launch |-> "none"]
  ELSE [pc |-> "ready", env |-> e, url |-> url, launch |-> e.launch]

Becomes(n, server) == instance' = [instance EXCEPT ![n] = server]

(* resolveDatabaseUrl: a URL in the environment wins; without a parameter  *)
(* name either, loadConfig refuses.                                        *)
Started(n) ==
  IF env.source = "parameter" THEN [Off EXCEPT !.pc = "reading"]
  ELSE Built(env, IF env.source = "url" THEN "configured" ELSE "none")

(* An invocation starts the instance it is for.                            *)
Start(n) ==
  /\ asks[n] # "none"
  /\ instance[n].pc = "off"
  /\ Becomes(n, Started(n))
  /\ UNCHANGED <<schema, parameter, revision, asks, answer>>

ParameterRead(n) ==
  /\ instance[n].pc = "reading"
  /\ Becomes(n, Built(instance[n].env, parameter))
  /\ UNCHANGED <<schema, parameter, revision, asks, answer>>

(* Mutant: a read that fails is passed over.                               *)
ReadFailsUnseen(n) ==
  /\ instance[n].pc = "reading"
  /\ Becomes(n, [instance[n] EXCEPT !.pc = "ready"])
  /\ UNCHANGED <<schema, parameter, revision, asks, answer>>

(* SSM throttles, denies, is out of reach, or answers without a value.     *)
ReadFails(n) ==
  /\ instance[n].pc = "reading"
  /\ Becomes(n, [instance[n] EXCEPT !.pc = "rejected"])
  /\ UNCHANGED <<schema, parameter, revision, asks, answer>>

-----------------------------------------------------------------------------
(* The invocations. *)

(* Mutant: a statement on a table that no migration makes.                 *)
NamedToo(request) == {1, 2, 3, 5}

(* What the statements of a request name: the tables, and for a submission *)
(* also the dataset's column and the limiter's windows.                    *)
Named(request) == IF request = "read" THEN {1} ELSE {1, 2, 3}

(* The database takes a URL configured by hand and the credentials written *)
(* last.                                                                   *)
Accepted(url) == url = "configured" \/ (url = parameter /\ url # "placeholder")

(* A new invocation goes to an instance of the function as it is now. *)
Invoke(n, request) ==
  /\ asks[n] = "none"
  /\ instance[n].pc = "off" \/ instance[n].env = env
  /\ asks' = [asks EXCEPT ![n] = request]
  /\ UNCHANGED <<schema, parameter, revision, instance, answer>>

Ends(n, how) ==
  /\ asks' = [asks EXCEPT ![n] = "none"]
  /\ answer' = [answer EXCEPT ![n] = how]

Serve(n) ==
  /\ asks[n] # "none"
  /\ instance[n].pc = "ready"
  /\ Accepted(instance[n].url)
  /\ Named(asks[n]) \subseteq schema
  /\ Ends(n, "served")
  /\ UNCHANGED <<schema, parameter, revision, instance>>

(* A statement fails: on the connection, the credentials or the schema.    *)
StatementFails(n) ==
  /\ asks[n] # "none"
  /\ instance[n].pc = "ready"
  /\ Ends(n, "failed")
  /\ UNCHANGED <<schema, parameter, revision, instance>>

(* The handler awaits the rejected promise. *)
Reject(n) ==
  /\ asks[n] # "none"
  /\ instance[n].pc = "rejected"
  /\ Ends(n, "failed")
  /\ UNCHANGED <<schema, parameter, revision, instance>>

(* The function's timeout ends the invocation and the instance. *)
TimesOut(n) ==
  /\ asks[n] # "none"
  /\ instance[n].pc \in {"reading", "ready"}
  /\ Ends(n, "failed")
  /\ Becomes(n, Off)
  /\ UNCHANGED <<schema, parameter, revision>>

(* The platform takes an instance back. *)
Recycle(n) ==
  /\ asks[n] = "none"
  /\ instance[n].pc # "off"
  /\ Becomes(n, Off)
  /\ UNCHANGED <<schema, parameter, revision, asks, answer>>

-----------------------------------------------------------------------------
(* The operator. *)

Deploy ==
  /\ revision + 1 \in DOMAIN Deployed
  /\ revision' = revision + 1
  /\ UNCHANGED <<schema, parameter, instance, asks, answer>>

WriteParameter ==
  /\ \/ parameter = "placeholder" /\ parameter' = "first"
     \/ parameter = "first" /\ parameter' = "second"
  /\ UNCHANGED <<schema, revision, instance, asks, answer>>

InstanceStep(n) ==
  \/ Start(n) \/ ParameterRead(n) \/ ReadFails(n)
  \/ \E request \in {"read", "submission"} : Invoke(n, request)
  \/ Serve(n) \/ StatementFails(n) \/ Reject(n) \/ TimesOut(n)
  \/ Recycle(n)

Next == Deploy \/ WriteParameter \/ \E n \in Instance : InstanceStep(n)

-----------------------------------------------------------------------------
(* An instance that came up has a connection string, and the launcher its  *)
(* own environment asks for, a whole one or none: never one that quietly   *)
(* starts nothing because a key was forgotten.                             *)
ReadyIsWhole ==
  \A n \in Instance : LET i == instance[n] IN
    i.pc = "ready" => i.url # "none" /\ i.launch = i.env.launch /\ i.launch \in {"none", "all"}

(* What the repository says of the start, and the code does not do.        *)
(* secrets.tf:48: a parameter "never populated" makes "the tier reading    *)
(* it ... fail its own startup check".  The API has none: the placeholder  *)
(* is a value, the pool connects later, and the instance keeps the string  *)
(* when the real one is written.                                           *)
PlaceholderStopsTheStart ==
  \A n \in Instance : instance[n].pc = "ready" => instance[n].url # "placeholder"
=============================================================================
