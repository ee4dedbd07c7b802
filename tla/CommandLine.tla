----------------------------- MODULE CommandLine -----------------------------
(***************************************************************************)
(* The device-simulator program (main.cpp): it checks its arguments, loads *)
(* and validates the configuration, builds and starts the server, and      *)
(* leaves when the signal handler has set StopRequested.                   *)
(*                                                                         *)
(* A signal arrives between any two steps; before its handler is installed *)
(* it ends the process.  Of the server only whether it listens and whether *)
(* a client is connected is kept: DeviceSimulatorServer has the rest.      *)
(*                                                                         *)
(* A definition whose comment begins "Seeded fault" is a wrong variant of  *)
(* the one after it; PROJECT.json names the property that rejects it.      *)
(***************************************************************************)
EXTENDS Configuration

CONSTANTS
    Files,          \* the files a run may find: JSON documents, or Unreadable
    Arguments,      \* the command lines it may be given
    Signals         \* the signals it may get

VARIABLES
    phase,          \* where main() is
    arguments,      \* the command line: positional arguments and options
    file,           \* the file the configuration path names
    configuration,  \* the SimulatorConfiguration, once loaded
    server,         \* the server built from it
    listening,      \* the server listens
    connected,      \* the server has a client
    handlers,       \* the signals whose handler is requestStop
    StopRequested,  \* the flag it sets
    exitCode

vars == <<phase, arguments, file, configuration, server, listening, connected,
          handlers, StopRequested, exitCode>>

Unreadable == [kind |-> "unreadable"]

\* A file whose text is not JSON.
Malformed == [kind |-> "malformed"]

None == [kind |-> "none"]

Commands == {"run", "validate", "sample-config", "version", "help"}

\* option is one that QCommandLineParser handles by itself, or one it refuses.
CommandLines ==
    [positional : Seq(Commands \cup {"other"}), config : BOOLEAN,
     option : {"none", "help", "version", "unknown"}]

ASSUME ArgumentsAssumption == Arguments \subseteq CommandLines

\* The values that are members or items of some values.
ValuesIn(values) ==
    LET members == UNION {{value.members[i].value : i \in DOMAIN value.members} :
                             value \in {v \in values : v.kind = "object"}}
        items == UNION {{value.items[i] : i \in DOMAIN value.items} :
                           value \in {v \in values : v.kind = "array"}}
    IN  members \cup items

Numbered(list) == Len(list) \in Nat /\ DOMAIN list = 1..Len(list)

\* As QJsonDocument makes them: members and items are numbered, and none is undefined.
IsValue(value) ==
    /\ value.kind # "undefined"
    /\ value.kind = "object" => Numbered(value.members)
    /\ value.kind = "array" => Numbered(value.items)

\* A document, its sections, the rules, their parts, and what these consist of.
ASSUME FilesAssumption ==
    \A document \in Files :
        LET sections == ValuesIn({document})
            rules == ValuesIn(sections)
            parts == ValuesIn(rules)
        IN  \A value \in {document} \cup sections \cup rules \cup parts \cup ValuesIn(parts) :
                IsValue(value)

ASSUME SignalsAssumption == Signals \subseteq {"SIGINT", "SIGTERM"}

Phases == {"process", "command", "load", "validate", "create", "start", "SIGINT",
           "SIGTERM", "exec", "clear", "quit", "stopped", "exited", "killed"}

Ended == phase \in {"exited", "killed"}

Command == arguments.positional[1]

Init ==
    /\ phase = "process" /\ arguments \in Arguments /\ file \in Files
    /\ configuration = None /\ server = None
    /\ listening = FALSE /\ connected = FALSE
    /\ handlers = {} /\ StopRequested = FALSE /\ exitCode = 0

-----------------------------------------------------------------------------
\* main() goes on at the next phase.
Proceed(next) == phase' = next /\ UNCHANGED exitCode

\* main() returns: the server is destroyed, which stops it.
Return(code) ==
    /\ phase' = "exited" /\ exitCode' = code
    /\ listening' = FALSE /\ connected' = FALSE

SameProcess == UNCHANGED <<arguments, file, handlers, StopRequested>>

\* QCommandLineParser::process answers --help and --version and refuses
\* options it does not know, in each case by leaving the program.
ProcessOptions ==
    /\ phase = "process"
    /\ IF arguments.option = "none"
       THEN Proceed("command") /\ UNCHANGED <<listening, connected>>
       ELSE Return(IF arguments.option = "unknown" THEN 1 ELSE 0)
    /\ SameProcess /\ UNCHANGED <<configuration, server>>

RequiresConfig == Command \in {"run", "validate"}

\* Seeded fault: a configuration is accepted where none is used.
ArgumentsSuffice ==
    /\ Len(arguments.positional) = 1
    /\ RequiresConfig => arguments.config

\* Neither of the errors that end a command line.
ArgumentsAgree ==
    /\ Len(arguments.positional) = 1
    /\ RequiresConfig <=> arguments.config

\* The commands that need no configuration are done at once; the sample is a
\* resource of the program, which might not open.
Dispatch ==
    /\ phase = "command"
    /\ \/ ~ArgumentsAgree /\ Return(1)
       \/ ArgumentsAgree /\ Command \in {"version", "help", "sample-config"} /\ Return(0)
       \/ ArgumentsAgree /\ Command = "sample-config" /\ Return(2)
       \/ ArgumentsAgree /\ Command = "other" /\ Return(1)
       \/ /\ ArgumentsAgree /\ RequiresConfig
          /\ Proceed("load") /\ UNCHANGED <<listening, connected>>
    /\ SameProcess /\ UNCHANGED <<configuration, server>>

Load ==
    /\ phase = "load"
    /\ IF Loads(file)
       THEN /\ configuration' = FromJson(file)
            /\ Proceed("validate") /\ UNCHANGED <<listening, connected>>
       ELSE Return(2) /\ UNCHANGED configuration
    /\ SameProcess /\ UNCHANGED server

\* Seeded fault: validate goes on like run.
ValidateAndRun ==
    /\ phase = "validate"
    /\ IF Validate(configuration) # {} THEN Return(2)
       ELSE Proceed("create") /\ UNCHANGED <<listening, connected>>
    /\ SameProcess /\ UNCHANGED <<configuration, server>>

ValidateStep ==
    /\ phase = "validate"
    /\ IF Validate(configuration) # {} THEN Return(2)
       ELSE IF Command = "validate" THEN Return(0)
       ELSE Proceed("create") /\ UNCHANGED <<listening, connected>>
    /\ SameProcess /\ UNCHANGED <<configuration, server>>

\* createServer validates again.
Create ==
    /\ phase = "create"
    /\ IF Validate(configuration) = {}
       THEN /\ server' = ServerOf(configuration)
            /\ Proceed("start") /\ UNCHANGED <<listening, connected>>
       ELSE Return(2) /\ UNCHANGED server
    /\ SameProcess /\ UNCHANGED configuration

-----------------------------------------------------------------------------
\* The longest interval of telemetry that start accepts.
MaxIntervalMs == 86400000

\* What DeviceSimulatorServer::start and the codec it makes demand.
StartAccepts ==
    /\ server.options \in ValidOptions
    /\ ValidCodecOptions(server.codec)
    /\ server.telemetry.enabled => server.telemetry.intervalMs \in 50..MaxIntervalMs

\* The address may be in use.
Start ==
    /\ phase = "start"
    /\ \/ /\ StartAccepts
          /\ listening' = TRUE
          /\ Proceed("SIGINT") /\ UNCHANGED connected
       \/ Return(2)
    /\ SameProcess /\ UNCHANGED <<configuration, server>>

\* std::signal for one signal, then for the other.
InstallHandler ==
    /\ phase \in {"SIGINT", "SIGTERM"}
    /\ handlers' = handlers \cup {phase}
    /\ Proceed(IF phase = "SIGINT" THEN "SIGTERM" ELSE "exec")
    /\ UNCHANGED <<arguments, file, configuration, server, listening, connected, StopRequested>>

\* In the event loop a client comes or goes.
ClientChanges ==
    /\ phase = "exec"
    /\ connected' = ~connected
    /\ UNCHANGED <<phase, arguments, file, configuration, server, listening, handlers,
                   StopRequested, exitCode>>

\* The timer's callback reads the flag, and clears it before it quits.
PollSeesRequest ==
    /\ phase = "exec" /\ StopRequested
    /\ Proceed("clear")
    /\ SameProcess /\ UNCHANGED <<configuration, server, listening, connected>>

\* Seeded fault: the flag is cleared for a quit that does not happen.
PollForgetsRequest ==
    /\ phase = "clear"
    /\ StopRequested' = FALSE
    /\ Proceed("exec")
    /\ UNCHANGED <<arguments, file, configuration, server, listening, connected, handlers>>

PollClearsRequest ==
    /\ phase = "clear"
    /\ StopRequested' = FALSE
    /\ Proceed("quit")
    /\ UNCHANGED <<arguments, file, configuration, server, listening, connected, handlers>>

\* Seeded fault: the server is left to its destructor.
AboutToQuitUnconnected ==
    /\ phase = "quit"
    /\ Proceed("stopped")
    /\ SameProcess /\ UNCHANGED <<configuration, server, listening, connected>>

\* Seeded fault: only the listener is closed.
AboutToQuitListening ==
    /\ phase = "quit"
    /\ listening' = FALSE
    /\ Proceed("stopped")
    /\ SameProcess /\ UNCHANGED <<configuration, server, connected>>

\* aboutToQuit stops the server before exec() returns.
AboutToQuit ==
    /\ phase = "quit"
    /\ listening' = FALSE /\ connected' = FALSE
    /\ Proceed("stopped")
    /\ SameProcess /\ UNCHANGED <<configuration, server>>

ReturnFromMain ==
    /\ phase = "stopped"
    /\ Return(0)
    /\ SameProcess /\ UNCHANGED <<configuration, server>>

-----------------------------------------------------------------------------
\* A signal runs its handler, which std::signal may leave installed or not
\* for the next one; without a handler it ends the process, and the operating
\* system closes its sockets.
Deliver(signal) ==
    /\ ~Ended
    /\ IF signal \in handlers
       THEN /\ StopRequested' = TRUE
            /\ handlers' \in {handlers, handlers \ {signal}}
            /\ UNCHANGED <<phase, listening, connected>>
       ELSE /\ phase' = "killed" /\ listening' = FALSE /\ connected' = FALSE
            /\ UNCHANGED <<handlers, StopRequested>>
    /\ UNCHANGED <<arguments, file, configuration, server, exitCode>>

\* The steps of main() that need nothing from outside to be taken.
MainStep ==
    \/ ProcessOptions \/ Dispatch \/ Load \/ ValidateStep \/ Create \/ Start
    \/ InstallHandler \/ PollSeesRequest \/ PollClearsRequest \/ AboutToQuit \/ ReturnFromMain

Next == MainStep \/ ClientChanges \/ \E signal \in Signals : Deliver(signal)

\* Some step of main() is possible: all steps but those of the event loop wait
\* for nothing, and those wait for a stop request.
MainMoves ==
    /\ ~Ended /\ (phase = "exec" => StopRequested)
    /\ phase' \in Phases \ {phase}

\* main() runs on, and the timer of its event loop fires every 100 ms.
Spec == Init /\ [][Next]_vars /\ WF_phase(MainMoves)
=============================================================================
