---------------------------- MODULE ReplyService ----------------------------
(***************************************************************************)
(* What the simulator promises the client of a session, whatever queues,   *)
(* timers and socket writes it uses: requests are taken one at a time in   *)
(* the order they came; each gets at most one reply, when its plan says    *)
(* so; replies and telemetry form one line of frames that only grows and   *)
(* is sent from its head; telemetry frames are numbered consecutively; a   *)
(* farewell, a reply after which the connection is closed, is the last.    *)
(* The session may end at any moment; nothing of it then remains.          *)
(***************************************************************************)
EXTENDS Integers, Sequences, SequencesExt, FiniteSets

CONSTANTS
    Requests,          \* what can be asked
    MustReply,         \* requests that are always answered
    MayReply,          \* requests that may be answered
    Farewells,         \* requests whose reply is the last
    FirstNumber,       \* the number of the first telemetry frame
    Modulus            \* telemetry is numbered modulo Modulus

VARIABLES
    open,     \* a session is open
    asked,    \* the requests of the session
    taken,    \* how many of them were taken
    held,     \* the reply to the last one taken is still to come
    line,     \* the frames to be sent, in order
    sent      \* how many of them were begun

serviceVars == <<open, asked, taken, held, line, sent>>

Reply(id) == [telemetry |-> FALSE, id |-> id]

Count(frames) == Cardinality({i \in DOMAIN frames : frames[i].telemetry})

Telemetry(frames) == [telemetry |-> TRUE, id |-> (FirstNumber + Count(frames)) % Modulus]

SaidFarewell ==
    \E i \in DOMAIN line : ~line[i].telemetry /\ asked[line[i].id] \in Farewells

NoSession ==
    open = FALSE /\ asked = <<>> /\ taken = 0 /\ held = FALSE /\ line = <<>> /\ sent = 0

ServiceInit == NoSession

Open ==
    /\ ~open
    /\ open' = TRUE
    /\ UNCHANGED <<asked, taken, held, line, sent>>

Close == open /\ NoSession'

\* The next request is taken: answered at once, later, or not at all.
Take ==
    /\ ~held /\ ~SaidFarewell
    /\ taken < Len(asked')
    /\ taken' = taken + 1
    /\ LET request == asked'[taken + 1]
       IN  \/ request \notin MustReply /\ line' = line /\ held' = FALSE
           \/ request \in MayReply /\ line' = Append(line, Reply(taken + 1)) /\ held' = FALSE
           \/ request \in MayReply /\ line' = line /\ held' = TRUE

\* A reply that was held is given.
Give ==
    /\ held /\ held' = FALSE
    /\ line' = Append(line, Reply(taken))
    /\ UNCHANGED taken

Publish ==
    /\ ~SaidFarewell
    /\ line' = Append(line, Telemetry(line))
    /\ UNCHANGED <<taken, held>>

\* One turn of the service: requests come in, at most one thing is said, and
\* frames leave from the head of the line.
Turn ==
    /\ open /\ open' = TRUE
    /\ asked' \in Seq(Requests) /\ IsPrefix(asked, asked')
    /\ Take \/ Give \/ Publish \/ UNCHANGED <<taken, held, line>>
    /\ sent' \in sent..Len(line')

ServiceNext == Open \/ Close \/ Turn

Service == ServiceInit /\ [][ServiceNext]_serviceVars
=============================================================================
