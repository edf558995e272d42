---------------------------- MODULE RequestHandling ----------------------------
(***************************************************************************)
(* What a listener of the service does with a request: it checks it, loads *)
(* its CAS, calls its engine, writes the CAS, sends the reply and accounts *)
(* for the request in the Monitor.  Every listener has an engine, a CAS, a *)
(* connection of its own and a cache of connections for replies, one for   *)
(* each broker that requests name.  All of these are made by the factory   *)
(* of the service's own broker, so that is where every reply goes.  The    *)
(* Monitor is shared.                                                      *)
(* ServiceLifecycle models how listeners start, receive and stop and what  *)
(* the Monitor does when errors reach a threshold.                         *)
(***************************************************************************)
EXTENDS Integers, FiniteSets, TLC

CONSTANTS
    Listeners,    \* the listeners
    Commands,     \* Commands[l]: the commands its selector lets through
    Requests,     \* the requests there can be, each with
                  \* id, text, command, payload, body, replyTo, from, uri
    Brokers,      \* the brokers a ServerURI may name, by their tcp URLs
    OwnBroker,    \* the broker of the service
    MaxRequests   \* bound: how many requests arrive

\* A request has an identity; a connection of the cache is another than the listener's own.
ASSUME RequestsAssumption ==
    /\ \A r \in Requests : r.id # 0
    /\ \A q, r \in Requests : q.id = r.id => q = r
    /\ OwnBroker \in Brokers /\ "none" \notin Brokers

VARIABLES
    arrived,      \* the requests that were received
    pc,           \* pc[l]: what the listener does next
    request,      \* request[l]: the request it works on
    cas,          \* cas[l]: the requests whose data is in its CAS
    response,     \* response[l]: what it is going to send: [kind, data]
    message,      \* message[l][b]: the requests whose data is in the reply message of a connection
    connections,  \* connections[l][b]: iv_replyToConnections, its entry under a broker's URL
    replies,      \* the replies that were sent
    hindered,     \* requests that the broker or an unknown exception kept from being answered
    monitor       \* [processed, errors, started]

vars == <<arrived, pc, request, cas, response, message, connections, replies, hindered, monitor>>

ProcessCas == "2000"
GetMeta == "2001"
CPC == "2002"
NoCommand == "0"
Payloads == {"XCAS", "XMI"}
Own == "own"
None == "none"
NoRequest == [id |-> 0]
NoResponse == [kind |-> None, data |-> {}]
Zero == [processed |-> 0, errors |-> [c \in {ProcessCas, GetMeta, CPC} |-> 0], started |-> {}]

\* validateRequest()
Valid(r) ==
    /\ r.replyTo \/ r.from
    /\ r.command = ProcessCas => r.payload \in Payloads /\ r.body # None

\* getTextMessage(): the message of the connection, cleared.
TextMessage(used) == {}

\* getConnection(): one that is not valid is deleted and erased before a new one is made, and
\* making it may throw.  As long as the service's own broker cannot be reached it is tried again:
\* the listener stays in sendResponse().
OutcomesOfLookup(entry) ==
    IF entry = "valid" THEN {[entry |-> "valid", found |-> TRUE]}
    ELSE {[entry |-> "valid", found |-> TRUE], [entry |-> None, found |-> FALSE]}

\* The key of the cache, the broker's URL in the ServerURI: any that says http is taken for the
\* service's own, one without "tcp:" has none (substr() throws before the position is looked at).
ReplyBroker(r) ==
    CASE r.uri = "http" -> OwnBroker
      [] r.uri \in Brokers -> r.uri
      [] OTHER -> None
Addressable(r) == r.replyTo \/ (r.from /\ ReplyBroker(r) # None)

Busy(l, at) == pc[l] = at
Goto(l, at) == pc' = [pc EXCEPT ![l] = at]

\* processingStarted(); the time of idleness is not modelled.
Receive(l) ==
    /\ Busy(l, "receive")
    /\ Cardinality(arrived) < MaxRequests
    /\ \E r \in Requests \ arrived :
          /\ r.command \in Commands[l]
          /\ arrived' = arrived \cup {r}
          /\ request' = [request EXCEPT ![l] = r]
    /\ monitor' = [monitor EXCEPT !.started = IF GetMeta \in Commands[l] THEN @ ELSE @ \cup {l}]
    /\ Goto(l, "validate")
    /\ UNCHANGED <<cas, response, message, connections, replies, hindered>>

Respond(l, kind, data) ==
    /\ response' = [response EXCEPT ![l] = [kind |-> kind, data |-> data]]
    /\ Goto(l, "send")

\* A message that is not a text is not answered; a bad one and the simple commands are at once.
Validate(l) ==
    /\ Busy(l, "validate")
    /\ LET r == request[l]
       IN  IF ~r.text
           THEN /\ response' = [response EXCEPT ![l] = [kind |-> "refused", data |-> {}]]
                /\ Goto(l, "complete")
           ELSE CASE ~Valid(r) -> Respond(l, "refused", {})
                  [] Valid(r) /\ r.command = GetMeta -> Respond(l, "result", {})
                  [] Valid(r) /\ r.command = CPC -> Goto(l, "cpc") /\ UNCHANGED response
                  [] OTHER -> Goto(l, "load") /\ UNCHANGED response
    /\ UNCHANGED <<arrived, request, cas, message, connections, replies, hindered, monitor>>

\* An XMLException or uima::Exception is answered, what else is thrown is not.
Failed(l) ==
    \/ Respond(l, "error", {}) /\ UNCHANGED hindered
    \/ /\ response' = [response EXCEPT ![l] = [kind |-> "error", data |-> {}]]
       /\ hindered' = hindered \cup {request[l].id}
       /\ Goto(l, "complete")

\* A mutant: the CAS is not reset before a document is read into it.
ClearedNever(content) == content
\* iv_pCas->reset()
Cleared(content) == {}

\* A document that cannot be read leaves what was read before the error.
Load(l) ==
    /\ Busy(l, "load")
    /\ cas' = [cas EXCEPT ![l] = Cleared(@) \cup {request[l].id}]
    /\ IF request[l].body = "bad" THEN Failed(l)
       ELSE Goto(l, "process") /\ UNCHANGED <<response, hindered>>
    /\ UNCHANGED <<arrived, request, message, connections, replies, monitor>>

\* process(): the error it returns is not looked at, an exception is.
Process(l) ==
    /\ Busy(l, "process")
    /\ \/ Goto(l, "store") /\ UNCHANGED <<response, hindered>>
       \/ Failed(l)
    /\ UNCHANGED <<arrived, request, cas, message, connections, replies, monitor>>

\* The CAS is written and reset.
Store(l) ==
    /\ Busy(l, "store")
    /\ \/ /\ Respond(l, "result", cas[l])
          /\ cas' = [cas EXCEPT ![l] = {}]
          /\ UNCHANGED hindered
       \/ Failed(l) /\ UNCHANGED cas
    /\ UNCHANGED <<arrived, request, message, connections, replies, monitor>>

\* collectionProcessComplete(): the error it returns is not looked at.
CollectionProcessComplete(l) ==
    /\ Busy(l, "cpc")
    /\ \/ Respond(l, "result", {}) /\ UNCHANGED hindered
       \/ Failed(l)
    /\ UNCHANGED <<arrived, request, cas, message, connections, replies, monitor>>

\* sendMessage(): the message is cleared when it was sent, and keeps what it holds when send() throws.
\* initialize() connects with the factory it was given, the URL is only logged: a connection kept
\* under another broker's URL sends to a queue of the requester's name on the service's own broker.
Deliver(l, c) ==
    LET r == request[l]
        filled == TextMessage(message[l][c]) \cup {r.id}
    IN  \/ /\ replies' = replies \cup {[to |-> r.id, kind |-> response[l].kind, about |-> filled,
                                        data |-> response[l].data, at |-> OwnBroker]}
           /\ message' = [message EXCEPT ![l][c] = {}]
           /\ UNCHANGED hindered
        \/ /\ message' = [message EXCEPT ![l][c] = filled]
           /\ hindered' = hindered \cup {r.id}
           /\ UNCHANGED replies

\* sendResponse(): every exception is swallowed.
SendResponse(l) ==
    /\ Busy(l, "send")
    /\ LET r == request[l]
       IN  \/ r.replyTo /\ Deliver(l, Own) /\ UNCHANGED connections
           \/ /\ ~r.replyTo /\ Addressable(r)
              /\ LET b == ReplyBroker(r)
                 IN  \E o \in OutcomesOfLookup(connections[l][b]) :
                        /\ connections' = [connections EXCEPT ![l][b] = o.entry]
                        /\ IF o.found THEN Deliver(l, b)
                           ELSE hindered' = hindered \cup {r.id} /\ UNCHANGED <<message, replies>>
           \/ /\ ~Addressable(r)
              /\ UNCHANGED <<connections, message, replies, hindered>>
    /\ Goto(l, "complete")
    /\ UNCHANGED <<arrived, request, cas, response, monitor>>

\* A mutant: an error is counted whether or not the request was one of those that count.
CountedAlways(m, l, command, kind) ==
    [processed |-> IF command = ProcessCas THEN m.processed + 1 ELSE m.processed,
     errors |-> [c \in DOMAIN m.errors |-> IF kind # "result" /\ c = command THEN m.errors[c] + 1 ELSE m.errors[c]],
     started |-> m.started \ {l}]
\* processingComplete() and incrementErrorCount(); a request that was refused has no command.
Counted(m, l, command, kind) ==
    LET counts == IF kind = "refused" THEN NoCommand ELSE command
    IN  [processed |-> IF counts = ProcessCas THEN m.processed + 1 ELSE m.processed,
         errors |-> [c \in DOMAIN m.errors |-> IF kind = "error" /\ c = counts THEN m.errors[c] + 1 ELSE m.errors[c]],
         started |-> m.started \ {l}]

Complete(l) ==
    /\ Busy(l, "complete")
    /\ monitor' = Counted(monitor, l, request[l].command, response[l].kind)
    /\ request' = [request EXCEPT ![l] = NoRequest]
    /\ response' = [response EXCEPT ![l] = NoResponse]
    /\ Goto(l, "receive")
    /\ UNCHANGED <<arrived, cas, message, connections, replies, hindered>>

\* The exception listener of a cached connection marks it.
ConnectionBroken(l, b) ==
    /\ connections[l][b] = "valid"
    /\ connections' = [connections EXCEPT ![l][b] = "invalid"]
    /\ UNCHANGED <<arrived, pc, request, cas, response, message, replies, hindered, monitor>>

Init ==
    /\ arrived = {} /\ replies = {} /\ hindered = {}
    /\ pc = [l \in Listeners |-> "receive"]
    /\ request = [l \in Listeners |-> NoRequest]
    /\ cas = [l \in Listeners |-> {}]
    /\ response = [l \in Listeners |-> NoResponse]
    /\ message = [l \in Listeners |-> [c \in Brokers \cup {Own} |-> {}]]
    /\ connections = [l \in Listeners |-> [b \in Brokers |-> None]]
    /\ monitor = Zero

ListenerStep(l) ==
    \/ Receive(l) \/ Validate(l) \/ Load(l) \/ Process(l) \/ Store(l)
    \/ CollectionProcessComplete(l) \/ SendResponse(l) \/ Complete(l)

Next ==
    \E l \in Listeners : ListenerStep(l) \/ \E b \in Brokers : ConnectionBroken(l, b)

Spec == Init /\ [][Next]_vars

-----------------------------------------------------------------------------
(* Properties *)

Done(r) == r \in arrived /\ \A l \in Listeners : request[l] # r
RepliesTo(r) == {m \in replies : m.to = r.id}

\* The broker whose queue the requester waits at.
RequestersBroker(r) == IF r.replyTo THEN OwnBroker ELSE IF r.from THEN ReplyBroker(r) ELSE None

\* No request is answered twice, and one whose requester waits at the service's own broker is answered
\* there, unless it is not a text or that broker or an exception nobody knows got in the way: not
\* because a connection that is kept had broken before (ActiveMQAnalysisEngineService.cpp).
AnsweredOnce ==
    \A r \in arrived :
        /\ Cardinality(RepliesTo(r)) <= 1
        /\ Done(r) /\ r.text /\ RequestersBroker(r) = OwnBroker /\ r.id \notin hindered
           => \E m \in RepliesTo(r) : m.at = RequestersBroker(r)

\* What is said of the cache of connections, which is there for "sending reply to other brokers"
\* (ActiveMQAnalysisEngineService.hpp): a reply is sent to the broker its requester waits at.
RepliesReachTheirBroker ==
    \A r \in arrived : \A m \in RepliesTo(r) : m.at = RequestersBroker(r)

\* What a reply says is about its request: neither the CAS nor the reply message brings anything
\* along from the request before, also when that one failed half-way.
RepliesKeepToTheirRequest ==
    \A m \in replies :
        /\ m.about = {m.to}
        /\ m.data \subseteq {m.to}
        /\ \A r \in arrived : m.to = r.id /\ r.command = ProcessCas /\ m.kind = "result" => m.data = {r.id}

\* What the Monitor counts is what became of the requests: a valid one that is done is counted
\* once, as an error when its caller is told of one.
CountsAgree ==
    LET done == {r \in arrived : Done(r) /\ r.text /\ Valid(r)}
        Of(c) == {r \in done : r.command = c}
        told(c, kinds) == {r \in Of(c) : \E m \in RepliesTo(r) : m.kind \in kinds}
    IN  /\ monitor.processed = Cardinality(Of(ProcessCas))
        /\ \A c \in DOMAIN monitor.errors :
              /\ monitor.errors[c] >= Cardinality(told(c, {"error", "refused"}))
              /\ monitor.errors[c] <= Cardinality(Of(c)) - Cardinality(told(c, {"result"}))
        /\ \A l \in monitor.started : pc[l] # "receive"
=============================================================================
