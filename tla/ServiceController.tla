------------------------- MODULE ServiceController -------------------------
(***************************************************************************)
(* The service and the Java controller that started it: the command line,  *)
(* the two connections to the controller's port, the status messages on    *)
(* the one and the commands on the other (deployCppService.hpp and .cpp).  *)
(* Commands arrive as a stream of letters, which handleCommands() reads    *)
(* into a buffer it uses again and again.  How the threads of the service  *)
(* then stop is in ServiceLifecycle.                                       *)
(***************************************************************************)
EXTENDS Integers, Sequences

CONSTANTS
    CommandLines,     \* the command lines: sequences of arguments
    NumberOf,         \* the numbers among the arguments: what atoi() makes of them
    CommandLength,    \* the commands of the controller and how many letters they have
    BufferSize,       \* the letters of the receive buffer
    MaxCommands,      \* bound: commands the controller sends
    MaxLost           \* bound: how often the getMeta connection is lost

ASSUME ControllerAssumption ==
    /\ BufferSize \in Nat \ {0} /\ MaxCommands \in Nat /\ MaxLost \in Nat
    /\ {"GETSTATS", "RESET", "QUIESCEANDSTOP", "SHUTDOWN"} = DOMAIN CommandLength
    /\ \A c \in DOMAIN CommandLength : CommandLength[c] \in 1 .. BufferSize - 1

VARIABLES
    kArgs,        \* argv
    kParams,      \* ServiceParameters
    kMain,        \* what main does
    kSockets,     \* the sockets that are connected: "log" is s, "commands" is cs
    kMonitor,     \* singleton_pMonitor # 0
    kStatus,      \* iv_status
    kTold,        \* the status messages the controller got
    kOnline,      \* the listeners "getMeta" and "annotator" that have their connection
    kLost,        \* history: how often the getMeta listener lost it
    kControl,     \* where handleCommands is
    kSent,        \* the commands of the controller
    kStream,      \* letters on their way
    kBuffer,      \* buf
    kHeard,       \* the commands that were carried out
    kAlone,       \* history: the commands that one recv() returned, all of them and nothing else
    kQuiesce,     \* iv_quiesceandstop
    kWoken        \* Monitor::shutdown() was called

kStart == <<kArgs, kParams, kMain, kSockets, kMonitor>>
kState == <<kStatus, kTold, kOnline, kLost>>
kTalk == <<kControl, kSent, kStream, kBuffer, kHeard, kAlone, kQuiesce, kWoken>>
kVars == <<kStart, kState, kTalk>>

-----------------------------------------------------------------------------
(* The command line *)

Numeric == {"-n", "-fsheapsz", "-p", "-t", "-l", "-jport", "-e", "-w"}
Options == Numeric \cup {"-b", "-d", "-user", "-pw", "-a"}
Unset == ""
Defaults ==
    [o \in Options \cup {"descriptor", "queue"} |->
        CASE o \in {"-n", "-p"} -> 1
          [] o = "-t" -> -1
          [] o \in Numeric \ {"-n", "-p", "-t"} -> 0
          [] o = "-a" -> FALSE
          [] o = "-b" -> "tcp://localhost:61616"
          [] OTHER -> Unset]

Atoi(arg) == IF arg \in DOMAIN NumberOf THEN NumberOf[arg] ELSE 0
Value(option, arg) ==
    CASE option = "-fsheapsz" -> Atoi(arg) \div 4
      [] option = "-a" -> arg \in {"true", "TRUE"}
      [] option \in Numeric \ {"-fsheapsz"} -> Atoi(arg)
      [] OTHER -> arg

\* What stands after an option is its value, whatever it looks like; a third name is ignored.
Accept(s, arg) ==
    IF s.option # Unset THEN [params |-> [s.params EXCEPT ![s.option] = Value(s.option, arg)], option |-> Unset]
    ELSE IF arg \in Options THEN [s EXCEPT !.option = arg]
    ELSE IF s.params["descriptor"] = Unset THEN [s EXCEPT !.params["descriptor"] = arg]
    ELSE IF s.params["queue"] = Unset THEN [s EXCEPT !.params["queue"] = arg]
    ELSE s

ParseArgs(args) ==
    LET read[n \in 0 .. Len(args)] ==
            IF n = 0 THEN [params |-> Defaults, option |-> Unset] ELSE Accept(read[n - 1], args[n])
    IN  read[Len(args)].params

-----------------------------------------------------------------------------
(* main() until the service runs *)

KInit ==
    /\ kArgs \in CommandLines /\ kParams = Defaults /\ kMain = "start"
    /\ kSockets = {} /\ kMonitor = FALSE
    /\ kStatus = Unset /\ kTold = <<>> /\ kOnline = {"getMeta", "annotator"} /\ kLost = 0
    /\ kControl = "none" /\ kSent = <<>> /\ kStream = <<>> /\ kBuffer = <<>>
    /\ kHeard = <<>> /\ kAlone = <<>> /\ kQuiesce = FALSE /\ kWoken = FALSE

ReadCommandLine ==
    /\ kMain = "start"
    /\ IF Len(kArgs) < 2 THEN kMain' = "exit" /\ UNCHANGED kParams
       ELSE kMain' = "initialize" /\ kParams' = ParseArgs(kArgs)
    /\ UNCHANGED <<kArgs, kSockets, kMonitor, kState, kTalk>>

\* initialize(): the logger's socket first, then that of the commands, when there is a port.
Missing == IF kParams["-jport"] > 0 THEN {"log", "commands"} \ kSockets ELSE {}

Connect ==
    /\ kMain = "initialize" /\ Missing # {}
    /\ kSockets' = kSockets \cup {IF "log" \in Missing THEN "log" ELSE "commands"}
    /\ UNCHANGED <<kArgs, kParams, kMain, kMonitor, kState, kTalk>>

\* It returns before there is a Monitor, and main() does not look at what it returns.
ConnectFails ==
    /\ kMain = "initialize" /\ Missing # {}
    /\ kMain' = "serve"
    /\ UNCHANGED <<kArgs, kParams, kSockets, kMonitor, kState, kTalk>>

CreateMonitor ==
    /\ kMain = "initialize" /\ Missing = {}
    /\ kMonitor' = TRUE /\ kStatus' = "Initializing" /\ kMain' = "serve"
    /\ UNCHANGED <<kArgs, kParams, kSockets, kTold, kOnline, kLost, kTalk>>

\* The constructor of the service tells the Monitor the number of instances; the controller
\* thread is created when the service runs.
CreateService ==
    /\ kMain = "serve"
    /\ kMain' = IF kMonitor THEN "running" ELSE "crashed"
    /\ kControl' = IF kMonitor /\ "commands" \in kSockets THEN "ready" ELSE kControl
    /\ kArgs' = <<>>
    /\ UNCHANGED <<kParams, kSockets, kMonitor, kState, kSent, kStream, kBuffer, kHeard, kAlone, kQuiesce, kWoken>>

-----------------------------------------------------------------------------
(* The status *)

\* SocketLogger::log(): nothing when there is no logger.
Told(text) == IF "log" \in kSockets THEN Append(kTold, text) ELSE kTold

\* A listener that finds its connection lost says so before it reconnects: reconnecting().
ConnectionLost(l) ==
    /\ kMain = "running" /\ l \in kOnline
    /\ kOnline' = kOnline \ {l}
    /\ IF l = "getMeta"
       THEN kLost < MaxLost /\ kLost' = kLost + 1 /\ kStatus' = "Reconnecting" /\ kTold' = Told("StatusReconnecting")
       ELSE UNCHANGED <<kStatus, kTold, kLost>>
    /\ UNCHANGED <<kStart, kTalk>>

ReconnectionSuccess(l) ==
    /\ kMain = "running" /\ l \notin kOnline
    /\ kOnline' = kOnline \cup {l}
    /\ IF l = "getMeta" THEN kStatus' = "Running" /\ kTold' = Told("StatusReconnectionSuccess")
       ELSE UNCHANGED <<kStatus, kTold>>
    /\ UNCHANGED <<kStart, kLost, kTalk>>

-----------------------------------------------------------------------------
(* The commands *)

NoLetter == <<>>
Zeros == [i \in 1 .. BufferSize |-> NoLetter]
Letters(command) == [i \in 1 .. CommandLength[command] |-> <<command, i>>]

SendCommand ==
    /\ kControl \in {"reading", "left"} /\ Len(kSent) < MaxCommands
    /\ \E c \in DOMAIN CommandLength :
          /\ kSent' = Append(kSent, c)
          /\ kStream' = kStream \o Letters(c)
    /\ UNCHANGED <<kStart, kState, kControl, kBuffer, kHeard, kAlone, kQuiesce, kWoken>>

\* "0" is sent; when that fails main() is woken and the thread is done.
SendZero ==
    /\ kControl = "ready"
    /\ \/ kControl' = "reading" /\ kBuffer' = Zeros /\ UNCHANGED kWoken
       \/ kControl' = "left" /\ kWoken' = TRUE /\ UNCHANGED kBuffer
    /\ UNCHANGED <<kStart, kState, kSent, kStream, kHeard, kAlone, kQuiesce>>

Received(buffer, letters) ==
    [i \in DOMAIN buffer |-> IF i \in DOMAIN letters THEN letters[i] ELSE buffer[i]]
\* string(buf): a buffer without a zero goes on behind its end and is no command.
CommandIn(buffer) ==
    {c \in DOMAIN CommandLength :
        /\ \A i \in 1 .. CommandLength[c] : buffer[i] = <<c, i>>
        /\ buffer[CommandLength[c] + 1] = NoLetter}

\* memset(buf, 0, 16)
BufferAfter(buffer) == Zeros

Stops == {"QUIESCEANDSTOP", "SHUTDOWN"}

\* recv() returns any first part of what there is, as far as the buffer holds it.  What GETSTATS
\* and RESET do is in ServiceStatistics.
ReceiveCommand ==
    /\ kControl = "reading" /\ kStream # <<>>
    /\ \E n \in 1 .. (IF Len(kStream) < BufferSize THEN Len(kStream) ELSE BufferSize) :
          LET letters == SubSeq(kStream, 1, n)
              heard == CommandIn(Received(kBuffer, letters))
              whole == {c \in DOMAIN CommandLength : letters = Letters(c)}
          IN  /\ kStream' = SubSeq(kStream, n + 1, Len(kStream))
              /\ kBuffer' = BufferAfter(Received(kBuffer, letters))
              /\ kHeard' = IF heard = {} THEN kHeard ELSE Append(kHeard, CHOOSE c \in heard : TRUE)
              /\ kAlone' = IF whole = {} THEN kAlone ELSE Append(kAlone, CHOOSE c \in whole : TRUE)
              /\ kQuiesce' = (kQuiesce \/ "QUIESCEANDSTOP" \in heard)
              /\ kWoken' = (kWoken \/ heard \cap Stops # {})
              /\ kControl' = IF heard \cap Stops # {} THEN "left" ELSE "reading"
    /\ UNCHANGED <<kStart, kState, kSent>>

\* The controller is gone, or recv() fails: the command is empty.
ControllerGone ==
    /\ kControl = "reading" /\ kStream = <<>>
    /\ kControl' = "left" /\ kWoken' = TRUE
    /\ UNCHANGED <<kStart, kState, kSent, kStream, kBuffer, kHeard, kAlone, kQuiesce>>

KNext ==
    \/ ReadCommandLine \/ Connect \/ ConnectFails \/ CreateMonitor \/ CreateService
    \/ \E l \in {"getMeta", "annotator"} : ConnectionLost(l) \/ ReconnectionSuccess(l)
    \/ SendCommand \/ SendZero \/ ReceiveCommand \/ ControllerGone

-----------------------------------------------------------------------------
(* Properties *)

\* What the controller does by a command of its own is what the service does: one that arrives
\* whole and by itself is carried out, in the order they came, whatever came before it, and
\* nothing else is.  The service is told to stop then and only then, and to quiesce only when
\* it was asked to (handleCommands()).
CommandsAreHeard ==
    /\ kHeard = kAlone
    /\ kQuiesce => kHeard[Len(kHeard)] = "QUIESCEANDSTOP"
    /\ kWoken <=> kControl = "left"

\* The controller knows from the messages whether the service is cut off from its queue: each
\* loss and each return of the getMeta listener is told once, those of the others are not
\* (Monitor::reconnecting(), reconnectionSuccess()).
StatusIsTold ==
    "log" \in kSockets /\ kMain = "running" =>
        /\ Len(kTold) = IF "getMeta" \in kOnline THEN 2 * kLost ELSE 2 * kLost - 1
        /\ \A i \in DOMAIN kTold : (kTold[i] = "StatusReconnecting") = (i % 2 = 1)
        /\ (kStatus = "Reconnecting") = ("getMeta" \notin kOnline)

\* What a controller would expect and does not hold: a service that has no controller at its
\* port crashes over the missing Monitor, and one that runs calls itself "Initializing" until it
\* has lost its connection once, because nothing calls Monitor::running().
StartsOrGivesUp == kMain # "crashed"
RunningIsReported == kControl = "reading" /\ kOnline = {"getMeta", "annotator"} => kStatus = "Running"
=============================================================================
