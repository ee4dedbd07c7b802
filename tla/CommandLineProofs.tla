-------------------------- MODULE CommandLineProofs --------------------------
(***************************************************************************)
(* Proofs about the program.  main() is a straight line, so the invariant  *)
(* says of each of its phases what the steps before it have established;   *)
(* a signal can only end the program or set the flag.                      *)
(***************************************************************************)
EXTENDS CommandLineProperties, ConfigurationProofs

\* The phases of main() in which the server listens, and those it reaches only
\* with a server built, a valid configuration to run, a configuration loaded,
\* and arguments that name one.
WhileListening == {"SIGINT", "SIGTERM", "exec", "clear", "quit"}
FromStart == {"start", "stopped"} \cup WhileListening
FromCreate == {"create"} \cup FromStart
FromValidate == {"validate"} \cup FromCreate
FromLoad == {"load"} \cup FromValidate

\* What main() has established when it reaches its phase.
Established ==
    /\ phase \in {"command"} \cup FromLoad => arguments.option = "none"
    /\ phase \in FromLoad => ArgumentsAgree /\ RequiresConfig
    /\ phase \in {"process", "command", "load"} => configuration = None
    /\ phase \in FromValidate => Loads(file) /\ configuration = FromJson(file)
    /\ phase \in FromCreate => Command = "run" /\ Validate(configuration) = {}
    /\ phase \in {"process", "command", "load", "validate", "create"} => server = None
    /\ server # None => Loads(file) /\ configuration = FromJson(file)
    /\ listening <=> phase \in WhileListening
    /\ phase # "exited" => exitCode = 0

Inv == TypeOK /\ Established /\ ExitCodesMean

\* Parts of TypeOK.
Flags ==
    /\ listening \in BOOLEAN /\ connected \in BOOLEAN /\ StopRequested \in BOOLEAN
    /\ connected => listening

Builds ==
    /\ configuration # None => Loads(file) /\ configuration = FromJson(file)
    /\ server # None => Validate(configuration) = {} /\ server = ServerOf(configuration)

-----------------------------------------------------------------------------
(* Command lines. *)

\* A sequence of one word is known by that word.
LEMMA OneWord ==
    ASSUME NEW p, p \in Seq(Commands \cup {"other"}), NEW word
    PROVE  p = <<word>> <=> Len(p) = 1 /\ p[1] = word
<1>1. ASSUME Len(p) = 1, p[1] = word
      PROVE  p = <<word>>
  <2> DEFINE S == Commands \cup {"other"}
  <2>1. word \in S /\ p \in Seq(S)
    BY <1>1
  <2> HIDE DEF S
  <2>2. <<word>> \in Seq(S) /\ Len(<<word>>) = 1 /\ <<word>>[1] = word
    BY <2>1
  <2> QED
    BY <1>1, <2>1, <2>2, SeqEqual
<1> QED
  BY <1>1

\* The good command lines are the help and version options, and one command
\* with a configuration just where it needs one.
LEMMA GoodCommandLines ==
    ASSUME TypeOK
    PROVE  /\ arguments.option \in {"none", "help", "version", "unknown"}
           /\ arguments.config \in BOOLEAN
           /\ GoodArguments <=>
                \/ arguments.option \in {"help", "version"}
                \/ arguments.option = "none" /\ ArgumentsAgree /\ Command \in Commands
           /\ \A command \in Commands :
                AsksFor(command) <=>
                  /\ arguments.option = "none" /\ Len(arguments.positional) = 1
                  /\ Command = command
<1> DEFINE p == arguments.positional
<1>1. /\ p \in Seq(Commands \cup {"other"}) /\ arguments.config \in BOOLEAN
      /\ arguments.option \in {"none", "help", "version", "unknown"}
  BY ArgumentsAssumption DEF TypeOK, CommandLines
<1> HIDE DEF p
<1>2. \A word : p = <<word>> <=> Len(p) = 1 /\ p[1] = word
  BY <1>1, OneWord
<1>3. \A command \in Commands : AsksFor(command) <=>
          arguments.option = "none" /\ Len(p) = 1 /\ p[1] = command
  BY <1>2 DEF AsksFor, p
<1>4. <<p, arguments.config>> \in
        {<<(<<"run">>), TRUE>>, <<(<<"validate">>), TRUE>>, <<(<<"sample-config">>), FALSE>>,
         <<(<<"version">>), FALSE>>, <<(<<"help">>), FALSE>>}
      <=> Len(p) = 1 /\ (p[1] \in {"run", "validate"} <=> arguments.config) /\ p[1] \in Commands
  <2>1. <<p, arguments.config>> \in
          {<<(<<"run">>), TRUE>>, <<(<<"validate">>), TRUE>>, <<(<<"sample-config">>), FALSE>>,
           <<(<<"version">>), FALSE>>, <<(<<"help">>), FALSE>>}
        <=> \/ p = <<"run">> /\ arguments.config = TRUE
            \/ p = <<"validate">> /\ arguments.config = TRUE
            \/ p = <<"sample-config">> /\ arguments.config = FALSE
            \/ p = <<"version">> /\ arguments.config = FALSE
            \/ p = <<"help">> /\ arguments.config = FALSE
    OBVIOUS
  <2>2. \A word : p = <<word>> <=> Len(p) = 1 /\ p[1] = word
    BY <1>2
  <2> DEFINE n == Len(p)
             w == p[1]
             c == arguments.config
  <2>3. <<p, c>> \in
          {<<(<<"run">>), TRUE>>, <<(<<"validate">>), TRUE>>, <<(<<"sample-config">>), FALSE>>,
           <<(<<"version">>), FALSE>>, <<(<<"help">>), FALSE>>}
        <=> \/ (n = 1 /\ w = "run") /\ c = TRUE
            \/ (n = 1 /\ w = "validate") /\ c = TRUE
            \/ (n = 1 /\ w = "sample-config") /\ c = FALSE
            \/ (n = 1 /\ w = "version") /\ c = FALSE
            \/ (n = 1 /\ w = "help") /\ c = FALSE
    BY <2>1, <2>2, Zenon
  <2>4. c \in BOOLEAN
    BY <1>1
  <2> HIDE DEF n, w, c
  <2> QED
    BY <2>3, <2>4 DEF Commands, n, w, c
<1> QED
  BY <1>1, <1>3, <1>4 DEF GoodArguments, ArgumentsAgree, RequiresConfig, Command, p

-----------------------------------------------------------------------------
(* The steps of the program. *)

\* The program begins with nothing done.
LEMMA InitInv == Init => Inv
<1> SUFFICES ASSUME Init PROVE Inv
  OBVIOUS
<1>1. TypeOK
  <2>1. phase \in Phases /\ exitCode \in 0..2
    BY DEF Init, Phases
  <2>2. /\ listening \in BOOLEAN /\ connected \in BOOLEAN /\ StopRequested \in BOOLEAN
        /\ connected => listening
    BY DEF Init
  <2>3. handlers \subseteq {"SIGINT", "SIGTERM"}
    BY DEF Init
  <2> QED
    BY <2>1, <2>2, <2>3 DEF Init, TypeOK
<1>2. Established
  BY DEF Init, Established, FromLoad, FromValidate, FromCreate, FromStart, WhileListening
<1>3. ExitCodesMean
  BY DEF Init, ExitCodesMean
<1> QED
  BY <1>1, <1>2, <1>3 DEF Inv

\* No step changes the command line or the file.
LEMMA SameRun == [Next]_vars => UNCHANGED <<arguments, file>>
BY DEF Next, vars, MainStep, SameProcess, ProcessOptions, Dispatch, Load, ValidateStep, Create,
       Start, InstallHandler, PollSeesRequest, PollClearsRequest, AboutToQuit, ReturnFromMain,
       ClientChanges, Deliver

\* Every step leads to a phase, and leaves with an exit code of 0, 1 or 2.
LEMMA StepPhase == Inv /\ [Next]_vars => (phase \in Phases /\ exitCode \in 0..2)'
<1> SUFFICES ASSUME Inv, [Next]_vars PROVE (phase \in Phases /\ exitCode \in 0..2)'
  OBVIOUS
<1> USE DEF Inv, TypeOK, SameProcess, Proceed, Return, Phases
<1>1. CASE ProcessOptions
  BY <1>1 DEF ProcessOptions
<1>2. CASE Dispatch
  BY <1>2 DEF Dispatch
<1>3. CASE Load
  BY <1>3 DEF Load
<1>4. CASE ValidateStep
  BY <1>4 DEF ValidateStep
<1>5. CASE Create
  BY <1>5 DEF Create
<1>6. CASE Start
  BY <1>6 DEF Start
<1>7. CASE InstallHandler
  BY <1>7 DEF InstallHandler
<1>8. CASE ClientChanges
  BY <1>8 DEF ClientChanges
<1>9. CASE PollSeesRequest
  BY <1>9 DEF PollSeesRequest
<1>10. CASE PollClearsRequest
  BY <1>10 DEF PollClearsRequest
<1>11. CASE AboutToQuit
  BY <1>11 DEF AboutToQuit
<1>12. CASE ReturnFromMain
  BY <1>12 DEF ReturnFromMain
<1>13. ASSUME NEW signal \in Signals, Deliver(signal)
       PROVE  (phase \in Phases /\ exitCode \in 0..2)'
  BY <1>13 DEF Deliver
<1>14. CASE UNCHANGED vars
  BY <1>14 DEF vars
<1> QED
  BY <1>1, <1>2, <1>3, <1>4, <1>5, <1>6, <1>7, <1>8, <1>9, <1>10, <1>11, <1>12, <1>13, <1>14
     DEF Next, MainStep

\* Only the handlers of the two signals are installed.
LEMMA StepHandlers == Inv /\ [Next]_vars => handlers' \subseteq {"SIGINT", "SIGTERM"}
<1> SUFFICES ASSUME Inv, [Next]_vars PROVE handlers' \subseteq {"SIGINT", "SIGTERM"}
  OBVIOUS
<1> USE DEF Inv, TypeOK, SameProcess
<1>1. CASE ProcessOptions
  BY <1>1 DEF ProcessOptions
<1>2. CASE Dispatch
  BY <1>2 DEF Dispatch
<1>3. CASE Load
  BY <1>3 DEF Load
<1>4. CASE ValidateStep
  BY <1>4 DEF ValidateStep
<1>5. CASE Create
  BY <1>5 DEF Create
<1>6. CASE Start
  BY <1>6 DEF Start
<1>7. CASE InstallHandler
  BY <1>7 DEF InstallHandler
<1>8. CASE ClientChanges
  BY <1>8 DEF ClientChanges
<1>9. CASE PollSeesRequest
  BY <1>9 DEF PollSeesRequest
<1>10. CASE PollClearsRequest
  BY <1>10 DEF PollClearsRequest
<1>11. CASE AboutToQuit
  BY <1>11 DEF AboutToQuit
<1>12. CASE ReturnFromMain
  BY <1>12 DEF ReturnFromMain
<1>13. ASSUME NEW signal \in Signals, Deliver(signal)
       PROVE  handlers' \subseteq {"SIGINT", "SIGTERM"}
  BY <1>13 DEF Deliver
<1>14. CASE UNCHANGED vars
  BY <1>14 DEF vars
<1> QED
  BY <1>1, <1>2, <1>3, <1>4, <1>5, <1>6, <1>7, <1>8, <1>9, <1>10, <1>11, <1>12, <1>13, <1>14
     DEF Next, MainStep

\* The flags stay Booleans, and only a server that listens has a client.
LEMMA StepFlags == Inv /\ [Next]_vars => Flags'
<1> SUFFICES ASSUME Inv, [Next]_vars PROVE Flags'
  OBVIOUS
<1> USE DEF Flags, Inv, TypeOK, SameProcess, Proceed, Return
<1>1. CASE ProcessOptions
  BY <1>1 DEF ProcessOptions
<1>2. CASE Dispatch
  <2>1. \/ listening' = FALSE /\ connected' = FALSE
        \/ UNCHANGED <<listening, connected>>
    BY <1>2 DEF Dispatch
  <2>2. UNCHANGED StopRequested
    BY <1>2 DEF Dispatch
  <2>3. CASE listening' = FALSE /\ connected' = FALSE
    BY <2>2, <2>3
  <2>4. CASE UNCHANGED <<listening, connected>>
    BY <2>2, <2>4
  <2> QED
    BY <2>1, <2>3, <2>4
<1>3. CASE Load
  BY <1>3 DEF Load
<1>4. CASE ValidateStep
  BY <1>4 DEF ValidateStep
<1>5. CASE Create
  BY <1>5 DEF Create
<1>6. CASE Start
  BY <1>6 DEF Start
<1>7. CASE InstallHandler
  BY <1>7 DEF InstallHandler
<1>8. CASE ClientChanges
  BY <1>8 DEF ClientChanges, Established, WhileListening
<1>9. CASE PollSeesRequest
  BY <1>9 DEF PollSeesRequest
<1>10. CASE PollClearsRequest
  BY <1>10 DEF PollClearsRequest
<1>11. CASE AboutToQuit
  BY <1>11 DEF AboutToQuit
<1>12. CASE ReturnFromMain
  BY <1>12 DEF ReturnFromMain
<1>13. ASSUME NEW signal \in Signals, Deliver(signal)
       PROVE  Flags'
  BY <1>13 DEF Deliver
<1>14. CASE UNCHANGED vars
  BY <1>14 DEF vars
<1> QED
  BY <1>1, <1>2, <1>3, <1>4, <1>5, <1>6, <1>7, <1>8, <1>9, <1>10, <1>11, <1>12, <1>13, <1>14
     DEF Next, MainStep

\* A configuration is the file's, a server that of a valid configuration.
LEMMA StepBuilds == Inv /\ [Next]_vars => Builds'
<1> SUFFICES ASSUME Inv, [Next]_vars PROVE Builds'
  OBVIOUS
<1> USE DEF Builds, Inv, TypeOK, SameProcess, Proceed, Return
<1>1. CASE ProcessOptions
  BY <1>1 DEF ProcessOptions
<1>2. CASE Dispatch
  BY <1>2 DEF Dispatch
<1>3. CASE Load
  BY <1>3 DEF Load, Established
<1>4. CASE ValidateStep
  BY <1>4 DEF ValidateStep
<1>5. CASE Create
  BY <1>5 DEF Create
<1>6. CASE Start
  BY <1>6 DEF Start
<1>7. CASE InstallHandler
  BY <1>7 DEF InstallHandler
<1>8. CASE ClientChanges
  BY <1>8 DEF ClientChanges
<1>9. CASE PollSeesRequest
  BY <1>9 DEF PollSeesRequest
<1>10. CASE PollClearsRequest
  BY <1>10 DEF PollClearsRequest
<1>11. CASE AboutToQuit
  BY <1>11 DEF AboutToQuit
<1>12. CASE ReturnFromMain
  BY <1>12 DEF ReturnFromMain
<1>13. ASSUME NEW signal \in Signals, Deliver(signal)
       PROVE  Builds'
  BY <1>13 DEF Deliver
<1>14. CASE UNCHANGED vars
  BY <1>14 DEF vars
<1> QED
  BY <1>1, <1>2, <1>3, <1>4, <1>5, <1>6, <1>7, <1>8, <1>9, <1>10, <1>11, <1>12, <1>13, <1>14
     DEF Next, MainStep

\* Each step of main() establishes what its next phase stands for.
LEMMA StepEstablishes == Inv /\ [Next]_vars => Established'
<1> SUFFICES ASSUME Inv, [Next]_vars PROVE Established'
  OBVIOUS
<1> USE DEF Inv, TypeOK, Established, SameProcess, Proceed, Return, Phases,
            FromLoad, FromValidate, FromCreate, FromStart, WhileListening
<1>1. CASE ProcessOptions
  BY <1>1 DEF ProcessOptions
<1>2. CASE Dispatch
  BY <1>2 DEF Dispatch, ArgumentsAgree, RequiresConfig, Command
<1>3. CASE Load
  BY <1>3 DEF Load, ArgumentsAgree, RequiresConfig, Command
<1>4. CASE ValidateStep
  BY <1>4 DEF ValidateStep, ArgumentsAgree, RequiresConfig, Command
<1>5. CASE Create
  BY <1>5 DEF Create, ArgumentsAgree, RequiresConfig, Command
<1>6. CASE Start
  BY <1>6 DEF Start, ArgumentsAgree, RequiresConfig, Command
<1>7. CASE InstallHandler
  BY <1>7 DEF InstallHandler, ArgumentsAgree, RequiresConfig, Command
<1>8. CASE ClientChanges
  BY <1>8 DEF ClientChanges, ArgumentsAgree, RequiresConfig, Command
<1>9. CASE PollSeesRequest
  BY <1>9 DEF PollSeesRequest, ArgumentsAgree, RequiresConfig, Command
<1>10. CASE PollClearsRequest
  BY <1>10 DEF PollClearsRequest, ArgumentsAgree, RequiresConfig, Command
<1>11. CASE AboutToQuit
  BY <1>11 DEF AboutToQuit, ArgumentsAgree, RequiresConfig, Command
<1>12. CASE ReturnFromMain
  BY <1>12 DEF ReturnFromMain, ArgumentsAgree, RequiresConfig, Command
<1>13. ASSUME NEW signal \in Signals, Deliver(signal)
       PROVE  Established'
  BY <1>13 DEF Deliver, Ended, ArgumentsAgree, RequiresConfig, Command
<1>14. CASE UNCHANGED vars
  BY <1>14 DEF vars, ArgumentsAgree, RequiresConfig, Command
<1> QED
  BY <1>1, <1>2, <1>3, <1>4, <1>5, <1>6, <1>7, <1>8, <1>9, <1>10, <1>11, <1>12, <1>13, <1>14
     DEF Next, MainStep

\* main() returns with the exit code its arguments and its file deserve.
LEMMA StepExits == Inv /\ [Next]_vars => ExitCodesMean'
<1> SUFFICES ASSUME Inv, [Next]_vars, phase' = "exited"
             PROVE  ExitCodesMean'
  BY DEF ExitCodesMean
<1> DEFINE code == exitCode'
           Meaning == /\ code = 1 <=> ~GoodArguments
                      /\ code = 2 => \/ AsksFor("validate") \/ AsksFor("run")
                                     \/ AsksFor("sample-config")
                      /\ (code = 2 /\ AsksFor("validate")) => ~ValidFile
                      /\ (code = 0 /\ (AsksFor("validate") \/ AsksFor("run"))) => ValidFile
<1>1. UNCHANGED <<arguments, file>>
  BY SameRun
<1>2. SUFFICES Meaning
  BY <1>1 DEF ExitCodesMean, GoodArguments, AsksFor, ValidFile
<1>3. /\ arguments.option \in {"none", "help", "version", "unknown"}
      /\ arguments.config \in BOOLEAN
      /\ GoodArguments <=>
           \/ arguments.option \in {"help", "version"}
           \/ arguments.option = "none" /\ ArgumentsAgree /\ Command \in Commands
      /\ \A command \in Commands :
           AsksFor(command) <=>
             /\ arguments.option = "none" /\ Len(arguments.positional) = 1
             /\ Command = command
  BY GoodCommandLines DEF Inv
<1>4. /\ AsksFor("validate") <=> /\ arguments.option = "none"
                                 /\ Len(arguments.positional) = 1 /\ Command = "validate"
      /\ AsksFor("run") <=> /\ arguments.option = "none"
                            /\ Len(arguments.positional) = 1 /\ Command = "run"
      /\ AsksFor("sample-config") <=> /\ arguments.option = "none"
                                      /\ Len(arguments.positional) = 1
                                      /\ Command = "sample-config"
  BY <1>3 DEF Commands
<1> USE DEF SameProcess, Proceed, Return
<1>5. CASE ProcessOptions
  <2>1. arguments.option # "none" /\ code = IF arguments.option = "unknown" THEN 1 ELSE 0
    BY <1>5 DEF ProcessOptions
  <2> QED
    BY <1>3, <1>4, <2>1
<1>6. CASE Dispatch
  <2>1. arguments.option = "none"
    BY <1>6 DEF Dispatch, Inv, Established
  <2>2. \/ ~ArgumentsAgree /\ code = 1
        \/ ArgumentsAgree /\ Command \in {"version", "help", "sample-config"} /\ code = 0
        \/ ArgumentsAgree /\ Command = "sample-config" /\ code = 2
        \/ ArgumentsAgree /\ Command = "other" /\ code = 1
    BY <1>6 DEF Dispatch
  <2> QED
    BY <1>3, <1>4, <2>1, <2>2 DEF ArgumentsAgree, Commands
<1>7. ASSUME phase \in FromLoad
      PROVE  /\ GoodArguments
             /\ \/ AsksFor("run") /\ Command = "run"
                \/ AsksFor("validate") /\ Command = "validate"
  <2>1. arguments.option = "none" /\ ArgumentsAgree /\ Command \in {"run", "validate"}
    BY <1>7 DEF Inv, Established, RequiresConfig
  <2> QED
    BY <1>3, <1>4, <2>1 DEF ArgumentsAgree, Commands
<1>8. ASSUME phase \in FromValidate
      PROVE  ValidFile <=> Validate(configuration) = {}
  BY <1>8 DEF Inv, Established, ValidFile
<1>9. CASE Load
  <2>1. phase \in FromLoad /\ code = 2 /\ ~Loads(file)
    BY <1>9 DEF Load, FromLoad
  <2> QED
    BY <1>7, <2>1 DEF ValidFile
<1>10. CASE ValidateStep
  <2>1. phase \in FromLoad /\ phase \in FromValidate
    BY <1>10 DEF ValidateStep, FromLoad, FromValidate
  <2>2. \/ Validate(configuration) # {} /\ code = 2
        \/ Validate(configuration) = {} /\ code = 0
    BY <1>10 DEF ValidateStep
  <2> QED
    BY <1>7, <1>8, <2>1, <2>2
<1>11. ASSUME phase \in FromCreate
       PROVE  GoodArguments /\ AsksFor("run") /\ ~AsksFor("validate") /\ ValidFile
  <2>1. phase \in FromLoad /\ phase \in FromValidate
    BY <1>11 DEF FromLoad, FromValidate
  <2>2. Command = "run" /\ Validate(configuration) = {}
    BY <1>11 DEF Inv, Established
  <2> QED
    BY <1>4, <1>7, <1>8, <2>1, <2>2
<1>12. CASE Create
  <2>1. phase \in FromCreate /\ code = 2
    BY <1>11, <1>12 DEF Create, FromCreate, Inv, Established
  <2> QED
    BY <1>11, <2>1
<1>13. CASE Start
  <2>1. phase \in FromCreate /\ code = 2
    BY <1>13 DEF Start, FromCreate, FromStart
  <2> QED
    BY <1>11, <2>1
<1>14. CASE ReturnFromMain
  <2>1. phase \in FromCreate /\ code = 0
    BY <1>14 DEF ReturnFromMain, FromCreate, FromStart
  <2> QED
    BY <1>11, <2>1
<1>15. CASE phase = "exited"
  <2>1. exitCode' = exitCode
    BY <1>15 DEF Next, vars, MainStep, ProcessOptions, Dispatch, Load, ValidateStep, Create, Start,
          InstallHandler, PollSeesRequest, PollClearsRequest, AboutToQuit, ReturnFromMain,
          ClientChanges, Deliver
  <2> QED
    BY <1>15, <2>1 DEF Inv, ExitCodesMean
<1>16. phase # "exited" =>
         \/ ProcessOptions \/ Dispatch \/ Load \/ ValidateStep \/ Create \/ Start \/ ReturnFromMain
  BY DEF Next, vars, MainStep, InstallHandler, PollSeesRequest, PollClearsRequest, AboutToQuit,
         ClientChanges, Deliver
<1> QED
  BY <1>5, <1>6, <1>9, <1>10, <1>12, <1>13, <1>14, <1>15, <1>16

-----------------------------------------------------------------------------
(* What holds of every run of the program. *)

\* At every step main() has established what its phase stands for.
THEOREM ProgramInvariance == Spec => []Inv
<1>1. Init => Inv
  BY InitInv
<1>2. Inv /\ [Next]_vars => Inv'
  <2> SUFFICES ASSUME Inv, [Next]_vars PROVE Inv'
    OBVIOUS
  <2>1. (arguments \in Arguments /\ file \in Files)'
    BY SameRun DEF Inv, TypeOK
  <2>2. TypeOK'
    <3>1. (phase \in Phases /\ exitCode \in 0..2)'
      BY StepPhase
    <3>2. handlers' \subseteq {"SIGINT", "SIGTERM"} /\ Flags' /\ Builds'
      BY StepHandlers, StepFlags, StepBuilds
    <3> QED
      BY <2>1, <3>1, <3>2, Zenon DEF TypeOK, Flags, Builds
  <2> QED
    BY <2>2, StepEstablishes, StepExits DEF Inv
<1> QED
  BY <1>1, <1>2, PTL DEF Spec

\* Every variable of the program has its type; what was loaded is what the file
\* says, and a server is built of a valid configuration only (main.cpp:113-177).
THEOREM TypeCorrect == Spec => []TypeOK
<1>1. Inv => TypeOK
  BY DEF Inv
<1> QED
  BY <1>1, ProgramInvariance, PTL

\* Exit codes mean what docs/configuration.md:51-55 says, whatever the command
\* line, the file and the signals (main.cpp:84-217).
THEOREM ExitCodesTold == Spec => []ExitCodesMean
<1>1. Inv => ExitCodesMean
  BY DEF Inv
<1> QED
  BY <1>1, ProgramInvariance, PTL

\* The server listens only for the run command and a valid file
\* (main.cpp:113-201).
THEOREM ListeningIsRunning == Spec => []ListensOnlyToRun
<1>1. Inv => ListensOnlyToRun
  <2> SUFFICES ASSUME Inv, listening PROVE AsksFor("run") /\ ValidFile
    BY DEF ListensOnlyToRun
  <2>1. phase \in WhileListening
    BY DEF Inv, Established
  <2>2. phase \in FromCreate /\ phase \in FromValidate /\ phase \in FromLoad
    BY <2>1 DEF FromCreate, FromValidate, FromLoad, FromStart
  <2>3. /\ arguments.option = "none" /\ ArgumentsAgree /\ Command = "run"
        /\ Validate(configuration) = {} /\ Loads(file) /\ configuration = FromJson(file)
    BY <2>2 DEF Inv, Established
  <2>4. AsksFor("run") <=>
          arguments.option = "none" /\ Len(arguments.positional) = 1 /\ Command = "run"
    BY GoodCommandLines DEF Inv, Commands
  <2> QED
    BY <2>3, <2>4 DEF ArgumentsAgree, ValidFile
<1> QED
  BY <1>1, ProgramInvariance, PTL

\* However the program ends, the server is closed and its client gone
\* (main.cpp:179-180, 203-217).
THEOREM NothingLeftOpen == Spec => []EndLeavesNothingOpen
<1>1. Inv => EndLeavesNothingOpen
  BY DEF Inv, TypeOK, Established, EndLeavesNothingOpen, Ended, WhileListening
<1> QED
  BY <1>1, ProgramInvariance, PTL


-----------------------------------------------------------------------------
(* What a run may rely on when it has built a server. *)

\* The server was built of the loaded file, which is valid.
LEMMA ServerBuilt ==
    ASSUME Inv, server # None
    PROVE  /\ server = ServerOf(configuration) /\ Validate(configuration) = {}
           /\ Loads(file) /\ configuration = FromJson(file)
           /\ DOMAIN configuration.limits = LimitNames
<1>1. /\ server = ServerOf(configuration) /\ Validate(configuration) = {}
      /\ Loads(file) /\ configuration = FromJson(file)
  BY DEF Inv, TypeOK, Established
<1> QED
  BY <1>1, LimitsRead

\* Of a server that was built, only listening can fail, and its telemetry can
\* be encoded (Configuration.cpp:495-521, 634-653; DeviceSimulatorServer.cpp:13-68).
THEOREM BuiltServersStart == Spec => []ConfiguredServersStart
<1>1. Inv => ConfiguredServersStart
  <2> SUFFICES ASSUME Inv, server # None
               PROVE  /\ StartAccepts
                      /\ server.telemetry.enabled =>
                             server.telemetry.payload <= server.codec.maxPayloadLength
    BY DEF ConfiguredServersStart
  <2>1. /\ server.options \in ValidOptions /\ ValidCodecOptions(server.codec)
        /\ server.telemetry.enabled =>
               /\ server.telemetry.intervalMs \in 50..ConfigurableIntervalMs
               /\ server.telemetry.payload <= server.codec.maxPayloadLength
    BY ServerBuilt, ServerValid
  <2>2. ConfigurableIntervalMs = MaxIntervalMs
    BY DEF ConfigurableIntervalMs, MaxIntervalMs
  <2> QED
    BY <2>1, <2>2, Zenon DEF StartAccepts
<1> QED
  BY <1>1, ProgramInvariance, PTL

\* Every response a valid configuration plans is one the server executes,
\* unless a delay it does not use is negative (Configuration.cpp:568-631;
\* Rules.h:33-63; DeviceSimulatorServer.cpp:505-560).
THEOREM BuiltPlansExecute == Spec => []ConfiguredPlansExecute
<1>1. Inv => ConfiguredPlansExecute
  <2> SUFFICES ASSUME Inv, server # None, NEW n \in DOMAIN server.rules
               PROVE  ExecutablePlan(server.rules[n].plan)
                        \/ UnusedNegative(server.rules[n].plan.faults)
    BY DEF ConfiguredPlansExecute
  <2> DEFINE c == configuration
             plan == server.rules[n].plan
  <2>1. /\ server = ServerOf(c) /\ Validate(c) = {} /\ Loads(file) /\ c = FromJson(file)
        /\ DOMAIN c.limits = LimitNames
    BY ServerBuilt
  <2>2. n \in DOMAIN c.rules /\ plan = PlanOf(c.rules[n])
    BY <2>1 DEF ServerOf
  <2>3. /\ server.options = OptionsOf(c.limits)
        /\ server.codec.maxPayloadLength = c.limits.maxPayloadLength
    BY <2>1 DEF ServerOf, OptionsOf
  <2>4. c.rules[n].faults.fragmentDelayMs \in Int /\ c.rules[n].faults.coalesceWindowMs \in Int
    <3> DEFINE items == RulesOf(file).items
    <3>1. c.rules = [i \in DOMAIN items |-> ReadRule(items[i])]
      BY <2>1 DEF FromJson
    <3>2. n \in DOMAIN items /\ c.rules[n] = ReadRule(items[n])
      BY <2>2, <3>1
    <3>3. RuleReadable(items[n])
      BY <2>1, <3>2 DEF Loads
    <3> HIDE DEF items, c
    <3> QED
      BY <3>2, <3>3, ReadDelays
  <2> HIDE DEF c, plan
  <2>5. plan.behavior = "Respond" =>
          /\ plan.payload <= c.limits.maxPayloadLength
          /\ \/ PlanExecutable(OptionsOf(c.limits), plan.faults, plan.payload)
             \/ plan.faults.fragmentSizes = <<>> /\ plan.faults.fragmentDelayMs < 0
             \/ plan.faults.coalesceCount = 1 /\ plan.faults.coalesceWindowMs < 0
    BY <2>1, <2>2, <2>4, PlanValid
  <2>6. ExecutablePlan(plan) \/ UnusedNegative(plan.faults)
    BY <2>3, <2>5, Zenon DEF ExecutablePlan, UnusedNegative
  <2> QED
    BY <2>6 DEF plan
<1> QED
  BY <1>1, ProgramInvariance, PTL

\* The values of a value are those its members or items have.
LEMMA Within ==
    ASSUME NEW values, NEW value \in values
    PROVE  /\ value.kind = "object" =>
                  \A i \in DOMAIN value.members : value.members[i].value \in ValuesIn(values)
           /\ value.kind = "array" =>
                  \A i \in DOMAIN value.items : value.items[i] \in ValuesIn(values)
<1>1. ASSUME value.kind = "object", NEW i \in DOMAIN value.members
      PROVE  value.members[i].value \in ValuesIn(values)
  <2> DEFINE S == {value.members[j].value : j \in DOMAIN value.members}
             V == {v \in values : v.kind = "object"}
  <2>1. value.members[i].value \in S /\ value \in V
    BY <1>1
  <2>2. S \in {{v.members[j].value : j \in DOMAIN v.members} : v \in V}
    BY <2>1
  <2> HIDE DEF S, V
  <2>3. value.members[i].value \in UNION {{v.members[j].value : j \in DOMAIN v.members} : v \in V}
    BY <2>1, <2>2
  <2> QED
    BY <2>3 DEF V, ValuesIn
<1>2. ASSUME value.kind = "array", NEW i \in DOMAIN value.items
      PROVE  value.items[i] \in ValuesIn(values)
  <2> DEFINE S == {value.items[j] : j \in DOMAIN value.items}
             V == {v \in values : v.kind = "array"}
  <2>1. value.items[i] \in S /\ value \in V
    BY <1>2
  <2>2. S \in {{v.items[j] : j \in DOMAIN v.items} : v \in V}
    BY <2>1
  <2> HIDE DEF S, V
  <2>3. value.items[i] \in UNION {{v.items[j] : j \in DOMAIN v.items} : v \in V}
    BY <2>1, <2>2
  <2> QED
    BY <2>3 DEF V, ValuesIn
<1> QED
  BY <1>1, <1>2

\* The rules of a file are numbered: they are the items of a list.
LEMMA RulesNumbered ==
    ASSUME file \in Files, Loads(file)
    PROVE  Numbered(RulesOf(file).items)
<1> DEFINE members == file.members
           v == FindValue(file, "rules")
           sections == ValuesIn({file})
<1>1. file.kind = "object" /\ RulesOf(file).kind = "array"
  BY DEF Loads
<1>2. IsValue(file) /\ \A value \in sections : IsValue(value)
  BY FilesAssumption
<1>3. Len(members) \in Nat /\ DOMAIN members = 1..Len(members)
  BY <1>1, <1>2 DEF IsValue, Numbered
<1>4. \/ v = Undefined
      \/ \E i \in DOMAIN members : v = members[i].value
  BY <1>3, ValueFound
<1>5. CASE v = Undefined
  <2> DEFINE none == <<>>
  <2>1. RulesOf(file) = List(none)
    BY <1>5 DEF RulesOf
  <2>2. List(none).items = none
    BY DEF List
  <2> QED
    BY <2>1, <2>2 DEF Numbered
<1>6. ASSUME v # Undefined, NEW i \in DOMAIN members, v = members[i].value
      PROVE  Numbered(RulesOf(file).items)
  <2>1. RulesOf(file) = v
    BY <1>6 DEF RulesOf
  <2>2. v \in sections
    BY <1>1, <1>6, Within
  <2> QED
    BY <1>1, <1>2, <2>1, <2>2 DEF IsValue
<1> QED
  BY <1>4, <1>5, <1>6

\* However its command is spelled, no rule of a valid configuration is hidden
\* behind another (Configuration.cpp:523-536).
THEOREM BuiltRulesReachable == Spec => []EveryRuleReachable
<1>1. Inv => EveryRuleReachable
  <2> SUFFICES ASSUME Inv, server # None, NEW n \in DOMAIN server.rules
               PROVE  FirstFor(server.rules, n) = n
    BY DEF EveryRuleReachable, FirstFor
  <2> DEFINE k == Len(RulesOf(file).items)
  <2>1. /\ server = ServerOf(configuration) /\ Validate(configuration) = {}
        /\ Loads(file) /\ configuration = FromJson(file)
    BY ServerBuilt
  <2>2. k \in Nat /\ DOMAIN RulesOf(file).items = 1..k
    BY <2>1, RulesNumbered DEF Inv, TypeOK, Numbered
  <2>3. DOMAIN configuration.rules = 1..k /\ DOMAIN server.rules = 1..k
    <3>1. DOMAIN configuration.rules = DOMAIN RulesOf(file).items
      BY <2>1 DEF FromJson
    <3>2. DOMAIN server.rules = DOMAIN configuration.rules
      BY <2>1 DEF ServerOf
    <3> QED
      BY <2>2, <3>1, <3>2
  <2> HIDE DEF k
  <2> QED
    BY <2>1, <2>2, <2>3, RuleReachable
<1> QED
  BY <1>1, ProgramInvariance, PTL

-----------------------------------------------------------------------------
(* What the loader lets through. *)

\* A value whose members can be told by their keys.
Neat(value) ==
    /\ IsValue(value)
    /\ value.kind = "object" =>
         /\ \A i, j \in DOMAIN value.members :
                value.members[i].key = value.members[j].key => i = j
         /\ \A i \in DOMAIN value.members : value.members[i].value.kind # "undefined"

\* The members of a neat object.
LEMMA NeatMembers ==
    ASSUME NEW o, Neat(o), o.kind = "object"
    PROVE  /\ Len(o.members) \in Nat /\ DOMAIN o.members = 1..Len(o.members)
           /\ \A i, j \in DOMAIN o.members : o.members[i].key = o.members[j].key => i = j
           /\ \A i \in DOMAIN o.members : o.members[i].value # Undefined
BY DEF Neat, IsValue, Numbered, Undefined

\* An object whose properties can be read has known properties of their types,
\* and no other.
LEMMA ReadableStrict ==
    ASSUME NEW o, NEW types, Neat(o), o.kind = "object"
    PROVE  /\ Readable(o, types) <=> Strict(o, types)
           /\ TypesMatch(o, types) <=>
                  \A i \in DOMAIN o.members :
                      o.members[i].key \in DOMAIN types =>
                          HasType(o.members[i].value, types[o.members[i].key])
<1> DEFINE members == o.members
           named(name) == \E i \in DOMAIN members :
                              members[i].key = name /\ FindValue(o, name) = members[i].value
<1>1. /\ Len(members) \in Nat /\ DOMAIN members = 1..Len(members)
      /\ \A i, j \in DOMAIN members : members[i].key = members[j].key => i = j
      /\ \A i \in DOMAIN members : members[i].value # Undefined
  BY NeatMembers
<1>2. \A name : \/ /\ \A i \in DOMAIN members : members[i].key # name
                   /\ FindValue(o, name) = Undefined
                \/ named(name)
  BY <1>1, ValueFound
<1>3. \A i \in DOMAIN members : FindValue(o, members[i].key) = members[i].value
  BY <1>1, <1>2
<1>4. TypesMatch(o, types) <=>
          \A i \in DOMAIN members :
              members[i].key \in DOMAIN types => HasType(members[i].value, types[members[i].key])
  <2>1. ASSUME TypesMatch(o, types), NEW i \in DOMAIN members, members[i].key \in DOMAIN types
        PROVE  HasType(members[i].value, types[members[i].key])
    BY <1>1, <1>3, <2>1 DEF TypesMatch
  <2>2. ASSUME \A i \in DOMAIN members :
                   members[i].key \in DOMAIN types =>
                       HasType(members[i].value, types[members[i].key]),
               NEW name \in DOMAIN types
        PROVE  FindValue(o, name) = Undefined \/ HasType(FindValue(o, name), types[name])
    BY <1>2, <2>2
  <2> QED
    BY <2>1, <2>2 DEF TypesMatch
<1> QED
  BY <1>4 DEF Readable, RejectUnknown, Strict, Fits

\* A section can be read if every member of that name is an object in which
\* every property is known and has its type.
LEMMA SectionStrict ==
    ASSUME NEW o, NEW name, NEW types, Neat(o), o.kind = "object",
           \A i \in DOMAIN o.members : Neat(o.members[i].value)
    PROVE  SectionReadable(o, name, types) <=>
               \A i \in DOMAIN o.members :
                   o.members[i].key = name =>
                       o.members[i].value.kind = "object" /\ Strict(o.members[i].value, types)
<1> DEFINE members == o.members
           v == FindValue(o, name)
<1>1. /\ Len(members) \in Nat /\ DOMAIN members = 1..Len(members)
      /\ \A i, j \in DOMAIN members : members[i].key = members[j].key => i = j
      /\ \A i \in DOMAIN members : members[i].value # Undefined
  BY NeatMembers
<1>2. \/ (\A i \in DOMAIN members : members[i].key # name) /\ v = Undefined
      \/ \E i \in DOMAIN members : members[i].key = name /\ v = members[i].value
  BY <1>1, ValueFound
<1>3. CASE (\A i \in DOMAIN members : members[i].key # name) /\ v = Undefined
  <2> DEFINE nothing == Object(<<>>)
  <2>1. Section(o, name) = nothing
    BY <1>3 DEF Section
  <2>2. nothing.kind = "object" /\ nothing.members = <<>>
    BY DEF Object
  <2>3. DOMAIN nothing.members = {} /\ Len(nothing.members) = 0
    BY <2>2
  <2>4. Neat(nothing)
    BY <2>2, <2>3 DEF Neat, IsValue, Numbered
  <2>5. Strict(nothing, types)
    BY <2>3 DEF Strict
  <2> HIDE DEF nothing
  <2>6. SectionReadable(o, name, types)
    BY <2>1, <2>2, <2>4, <2>5, ReadableStrict DEF SectionReadable
  <2> QED
    BY <1>3, <2>6
<1>4. CASE \E i \in DOMAIN members : members[i].key = name /\ v = members[i].value
  <2>1. PICK i \in DOMAIN members : members[i].key = name /\ v = members[i].value
    BY <1>4
  <2>2. Section(o, name) = v /\ Neat(v)
    BY <1>1, <2>1 DEF Section
  <2>3. SectionReadable(o, name, types) <=> v.kind = "object" /\ Strict(v, types)
    BY <2>2, ReadableStrict DEF SectionReadable
  <2>4. \A j \in DOMAIN members : members[j].key = name => j = i
    BY <1>1, <2>1
  <2> HIDE DEF v
  <2> QED
    BY <2>1, <2>3, <2>4
<1> QED
  BY <1>2, <1>3, <1>4

\* The same of a rule, whose texts stand beside its parts.
LEMMA RuleStrict ==
    ASSUME NEW rule, Neat(rule), rule.kind = "object",
           \A i \in DOMAIN rule.members : Neat(rule.members[i].value)
    PROVE  RuleReadable(rule) <=> StrictRule(rule)
<1> DEFINE members == rule.members
           keys == {"requestCommand", "behavior", "response", "faults"}
           parts == {"response", "faults"}
           typed == \A i \in DOMAIN members :
                        members[i].key \in DOMAIN RuleTypes =>
                            HasType(members[i].value, RuleTypes[members[i].key])
           response == \A i \in DOMAIN members :
                           members[i].key = "response" =>
                               members[i].value.kind = "object"
                                   /\ Strict(members[i].value, ResponseTypes)
           faults == \A i \in DOMAIN members :
                         members[i].key = "faults" =>
                             members[i].value.kind = "object"
                                 /\ Strict(members[i].value, FaultTypes)
           texts == \A i \in DOMAIN members :
                        members[i].key \in parts \/ Fits(members[i], RuleTypes)
<1>1. DOMAIN RuleTypes = keys \ parts
  BY DEF RuleTypes
<1>2. TypesMatch(rule, RuleTypes) <=> typed
  BY ReadableStrict
<1>3. SectionReadable(rule, "response", ResponseTypes) <=> response
  BY SectionStrict
<1>4. SectionReadable(rule, "faults", FaultTypes) <=> faults
  BY SectionStrict
<1>5. RejectUnknown(rule, keys) /\ typed <=> texts
  BY <1>1 DEF RejectUnknown, Fits
<1>6. StrictRule(rule) <=> response /\ faults /\ texts
  BY DEF StrictRule, AllNamed
<1> HIDE DEF typed, response, faults, texts
<1>7. RuleReadable(rule) <=> RejectUnknown(rule, keys) /\ typed /\ response /\ faults
  BY <1>2, <1>3, <1>4 DEF RuleReadable
<1> QED
  BY <1>5, <1>6, <1>7

\* In a file that spells no key twice, the file and its parts down to those of
\* a rule are neat.
LEMMA FileNeat ==
    ASSUME file \in Files, EachKeyOnce
    PROVE  LET sections == ValuesIn({file})
               rules == ValuesIn(sections)
           IN  \A value \in {file} \cup sections \cup rules \cup ValuesIn(rules) : Neat(value)
<1> DEFINE sections == ValuesIn({file})
           rules == ValuesIn(sections)
           parts == ValuesIn(rules)
           all == {file} \cup sections \cup rules \cup parts
<1>1. \A value \in all \cup ValuesIn(parts) : IsValue(value)
  BY FilesAssumption
<1>2. \A value \in all :
          value.kind = "object" =>
              \A i, j \in DOMAIN value.members :
                  value.members[i].key = value.members[j].key => i = j
  BY DEF EachKeyOnce
<1> SUFFICES ASSUME NEW value \in all PROVE Neat(value)
  OBVIOUS
<1>3. ASSUME value.kind = "object", NEW i \in DOMAIN value.members
      PROVE  value.members[i].value.kind # "undefined"
  <2>1. value.members[i].value \in all \cup ValuesIn(parts)
    <3>1. CASE value = file
      BY <1>3, <3>1, Within
    <3>2. CASE value \in sections
      BY <1>3, <3>2, Within
    <3>3. CASE value \in rules
      BY <1>3, <3>3, Within
    <3>4. CASE value \in parts
      BY <1>3, <3>4, Within
    <3> QED
      BY <3>1, <3>2, <3>3, <3>4
  <2> QED
    BY <1>1, <2>1 DEF IsValue
<1> QED
  BY <1>1, <1>2, <1>3 DEF Neat

\* The rules of a document, given or not, are as strict as the loader.
LEMMA RulesStrict ==
    ASSUME Neat(file), file.kind = "object",
           \A i \in DOMAIN file.members :
               /\ Neat(file.members[i].value)
               /\ file.members[i].value.kind = "array" =>
                    \A j \in DOMAIN file.members[i].value.items :
                        LET rule == file.members[i].value.items[j]
                        IN  /\ Neat(rule)
                            /\ rule.kind = "object" =>
                                 \A k \in DOMAIN rule.members : Neat(rule.members[k].value)
    PROVE  /\ RulesOf(file).kind = "array"
           /\ \A i \in DOMAIN RulesOf(file).items : RuleReadable(RulesOf(file).items[i])
           <=>
           \A i \in DOMAIN file.members :
               file.members[i].key = "rules" =>
                   LET value == file.members[i].value
                   IN  /\ value.kind = "array"
                       /\ \A j \in DOMAIN value.items :
                              value.items[j].kind = "object" /\ StrictRule(value.items[j])
<1> DEFINE members == file.members
           v == FindValue(file, "rules")
           readable(value) == /\ value.kind = "array"
                              /\ \A j \in DOMAIN value.items : RuleReadable(value.items[j])
           strict(value) == /\ value.kind = "array"
                            /\ \A j \in DOMAIN value.items :
                                   value.items[j].kind = "object" /\ StrictRule(value.items[j])
<1>1. /\ Len(members) \in Nat /\ DOMAIN members = 1..Len(members)
      /\ \A i, j \in DOMAIN members : members[i].key = members[j].key => i = j
      /\ \A i \in DOMAIN members : members[i].value # Undefined
  BY NeatMembers
<1>2. \/ (\A i \in DOMAIN members : members[i].key # "rules") /\ v = Undefined
      \/ \E i \in DOMAIN members : members[i].key = "rules" /\ v = members[i].value
  BY <1>1, ValueFound
<1>3. CASE (\A i \in DOMAIN members : members[i].key # "rules") /\ v = Undefined
  <2>1. RulesOf(file) = List(<<>>)
    BY <1>3 DEF RulesOf
  <2>2. readable(RulesOf(file))
    BY <2>1 DEF List
  <2> QED
    BY <1>3, <2>2
<1>4. CASE \E i \in DOMAIN members : members[i].key = "rules" /\ v = members[i].value
  <2>1. PICK i \in DOMAIN members : members[i].key = "rules" /\ v = members[i].value
    BY <1>4
  <2>2. RulesOf(file) = members[i].value
    BY <1>1, <2>1 DEF RulesOf
  <2>3. ASSUME members[i].value.kind = "array", NEW j \in DOMAIN members[i].value.items
        PROVE  RuleReadable(members[i].value.items[j]) <=>
                   members[i].value.items[j].kind = "object"
                       /\ StrictRule(members[i].value.items[j])
    BY <2>1, <2>3, RuleStrict DEF RuleReadable
  <2>4. readable(members[i].value) <=> strict(members[i].value)
    BY <2>3
  <2>5. \A j \in DOMAIN members : members[j].key = "rules" => j = i
    BY <1>1, <2>1
  <2> HIDE DEF readable, strict
  <2>6. readable(RulesOf(file)) <=>
            \A j \in DOMAIN members : members[j].key = "rules" => strict(members[j].value)
    BY <2>1, <2>2, <2>4, <2>5
  <2> QED
    BY <2>6 DEF readable, strict
<1> QED
  BY <1>2, <1>3, <1>4

\* The loader accepts exactly the documents in which every property, at every
\* depth, is known and has its type (Configuration.cpp:35-188, 328-469).
THEOREM LoadingIsStrict == Spec => []LoaderIsStrict
<1>1. Inv => LoaderIsStrict
  <2> SUFFICES ASSUME Inv, EachKeyOnce PROVE Loads(file) <=> StrictFile
    BY DEF LoaderIsStrict
  <2>1. CASE file.kind # "object"
    BY <2>1 DEF Loads, StrictFile
  <2>2. CASE file.kind = "object"
    <3> DEFINE sections == ValuesIn({file})
               rules == ValuesIn(sections)
               members == file.members
               strict(name, types) ==
                   \A i \in DOMAIN members :
                       members[i].key = name =>
                           members[i].value.kind = "object" /\ Strict(members[i].value, types)
               listed == \A i \in DOMAIN members :
                   members[i].key = "rules" =>
                       LET value == members[i].value
                       IN  /\ value.kind = "array"
                           /\ \A j \in DOMAIN value.items :
                                  value.items[j].kind = "object" /\ StrictRule(value.items[j])
    <3>1. \A value \in {file} \cup sections \cup rules \cup ValuesIn(rules) : Neat(value)
      BY FileNeat DEF Inv, TypeOK
    <3>2. \A i \in DOMAIN members : members[i].value \in sections
      BY <2>2, Within
    <3>3. ASSUME NEW value \in sections, value.kind = "array", NEW j \in DOMAIN value.items
          PROVE  /\ Neat(value.items[j])
                 /\ value.items[j].kind = "object" =>
                      \A k \in DOMAIN value.items[j].members :
                          Neat(value.items[j].members[k].value)
      <4>1. value.items[j] \in rules
        BY <3>3, Within
      <4>2. value.items[j].kind = "object" =>
                \A k \in DOMAIN value.items[j].members :
                    value.items[j].members[k].value \in ValuesIn(rules)
        <5> HIDE DEF rules
        <5> QED
          BY <4>1, Within
      <4> HIDE DEF rules, sections
      <4> QED
        BY <3>1, <4>1, <4>2
    <3> HIDE DEF sections, rules
    <3>4. Neat(file) /\ \A i \in DOMAIN members : Neat(members[i].value)
      BY <3>1, <3>2
    <3>5. \A name, types : SectionReadable(file, name, types) <=> strict(name, types)
      BY <2>2, <3>4, SectionStrict
    <3>6. RulesOf(file).kind = "array"
          /\ (\A i \in DOMAIN RulesOf(file).items : RuleReadable(RulesOf(file).items[i]))
            <=> listed
      BY <2>2, <3>2, <3>3, <3>4, RulesStrict
    <3>7. \A name, types : StrictSection(name, types) <=> strict(name, types)
      BY DEF StrictSection, AllNamed
    <3>8. StrictFile <=>
            /\ file.kind = "object"
            /\ RejectUnknown(file, {"server", "protocol", "limits", "simulation", "rules",
                                    "telemetry", "logging"})
            /\ StrictSection("server", ServerTypes) /\ StrictSection("protocol", ProtocolTypes)
            /\ StrictSection("limits", LimitsTypes)
            /\ StrictSection("simulation", SimulationTypes)
            /\ StrictSection("telemetry", TelemetryTypes)
            /\ StrictSection("logging", LoggingTypes)
            /\ listed
      BY DEF StrictFile, AllNamed, RejectUnknown
    <3> HIDE DEF strict, listed
    <3> QED
      BY <3>5, <3>6, <3>7, <3>8, Zenon DEF Loads
  <2> QED
    BY <2>1, <2>2
<1> QED
  BY <1>1, ProgramInvariance, PTL
=============================================================================
