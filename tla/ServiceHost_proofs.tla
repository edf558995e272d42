-------------------------- MODULE ServiceHost_proofs --------------------------
(***************************************************************************)
(* Proofs about the service's side of the queue: its requests              *)
(* (RequestHandling), the statistics of its listeners (ServiceStatistics)  *)
(* and its connection to the Java controller (ServiceController), for any  *)
(* requests, listeners, brokers, clocks, command lines and bounds.         *)
(***************************************************************************)
EXTENDS RequestHandling, ServiceStatistics, ServiceController, FiniteSetTheorems, TLAPS

----------------------------------------------------------------------------
(* Requests *)

Working(l) == pc[l] # "receive"
AtWork == {"load", "process", "store"}
ListenerPcs == {"receive", "validate", "cpc", "send", "complete"} \cup AtWork
Kinds == {"refused", "error", "result"}
Accepted(r) == r.text /\ Valid(r)
Ids == {r.id : r \in Requests}

Responses == [kind : Kinds \cup {None}, data : SUBSET Ids]
Monitors == [processed : Nat, errors : [{ProcessCas, GetMeta, CPC} -> Nat], started : SUBSET Listeners]

RequestType ==
    /\ arrived \subseteq Requests /\ IsFiniteSet(arrived)
    /\ pc \in [Listeners -> ListenerPcs]
    /\ request \in [Listeners -> Requests \cup {NoRequest}]
    /\ cas \in [Listeners -> SUBSET Ids]
    /\ response \in [Listeners -> Responses]
    /\ monitor \in Monitors

\* A request is with one listener, from receive to complete.
OneListener ==
    /\ \A l \in Listeners : request[l] = NoRequest <=> ~Working(l)
    /\ \A l \in Listeners : Working(l) => request[l] \in arrived
    /\ \A k, l \in Listeners : Working(k) /\ request[k] = request[l] => k = l

\* How far the listener has come tells what became of the request so far.
Fits(l) ==
    LET r == request[l]
    IN  /\ pc[l] \in AtWork => Accepted(r) /\ r.command \notin {GetMeta, CPC}
        /\ pc[l] \in {"process", "store"} => cas[l] = {r.id}
        /\ pc[l] = "cpc" => Accepted(r) /\ r.command = CPC
        /\ pc[l] \in {"send", "complete"} =>
              /\ response[l].kind \in Kinds
              /\ response[l].kind = "refused" <=> ~Accepted(r)
              /\ response[l].data \subseteq {r.id}
              /\ response[l].kind = "result" /\ r.command = ProcessCas => response[l].data = {r.id}
        /\ pc[l] = "send" => r.text
ResponseFits == \A l \in Listeners : Fits(l)

\* A reply is to a request that arrived, and is the only one; it went to the service's own broker,
\* whichever the request names, and the listener that still has the request has just sent it.
RepliesFit ==
    /\ \A m \in replies : m.at = OwnBroker
    /\ \A m \in replies : \E r \in arrived : m.to = r.id
    /\ \A m, n \in replies : m.to = n.to => m = n
    /\ \A l \in Listeners : Working(l) =>
          \A m \in RepliesTo(request[l]) : pc[l] = "complete" /\ m.kind = response[l].kind

\* A request that is done, or about to be, has its reply if it can have one.
Handled(r) == \A l \in Listeners : request[l] = r => pc[l] = "complete"
RepliesAreThere ==
    \A r \in arrived :
        Handled(r) /\ r.text /\ Addressable(r) /\ r.id \notin hindered => RepliesTo(r) # {}

\* The counts, against the requests that are done and those whose sender was told how.
Served(c) == {r \in arrived : Done(r) /\ Accepted(r) /\ r.command = c}
ToldOf(c, kinds) == {r \in Served(c) : \E m \in RepliesTo(r) : m.kind \in kinds}
CountsFit ==
    /\ monitor.processed = Cardinality(Served(ProcessCas))
    /\ \A c \in {ProcessCas, GetMeta, CPC} :
          /\ monitor.errors[c] >= Cardinality(ToldOf(c, {"error", "refused"}))
          /\ monitor.errors[c] + Cardinality(ToldOf(c, {"result"})) <= Cardinality(Served(c))
    /\ \A l \in monitor.started : Working(l)

RequestInv ==
    /\ RequestType /\ OneListener /\ ResponseFits /\ RepliesFit /\ RepliesAreThere
    /\ RepliesKeepToTheirRequest /\ CountsFit

\* A listener's step is one of these; the environment only breaks connections.
LEMMA RequestCases ==
    ASSUME [Next]_vars, NEW P,
           \A l \in Listeners : Receive(l) => P,
           \A l \in Listeners : Validate(l) => P,
           \A l \in Listeners : Load(l) => P,
           \A l \in Listeners : Process(l) => P,
           \A l \in Listeners : Store(l) => P,
           \A l \in Listeners : CollectionProcessComplete(l) => P,
           \A l \in Listeners : SendResponse(l) => P,
           \A l \in Listeners : Complete(l) => P,
           \A l \in Listeners, b \in Brokers : ConnectionBroken(l, b) => P,
           UNCHANGED vars => P
    PROVE  P
BY DEF Next, ListenerStep

\* What processingComplete() and incrementErrorCount() make of the counts.
LEMMA CountedFields ==
    ASSUME NEW m \in Monitors, NEW l, NEW command, NEW kind \in Kinds
    PROVE  LET n == Counted(m, l, command, kind)
               counts == kind # "refused"
           IN  /\ n \in Monitors
               /\ n.started = m.started \ {l}
               /\ n.processed = IF counts /\ command = ProcessCas THEN m.processed + 1 ELSE m.processed
               /\ \A c \in {ProcessCas, GetMeta, CPC} :
                     n.errors[c] = IF kind = "error" /\ c = command THEN m.errors[c] + 1 ELSE m.errors[c]
<1> DEFINE n == Counted(m, l, command, kind)
           counts == IF kind = "refused" THEN NoCommand ELSE command
           cs == {ProcessCas, GetMeta, CPC}
<1>1. m.processed \in Nat /\ m.errors \in [cs -> Nat] /\ m.started \subseteq Listeners
  BY DEF Monitors
<1>2. NoCommand \notin cs
  BY DEF NoCommand, ProcessCas, GetMeta, CPC
<1>3. n = [processed |-> IF counts = ProcessCas THEN m.processed + 1 ELSE m.processed,
           errors |-> [c \in cs |-> IF kind = "error" /\ c = counts THEN m.errors[c] + 1 ELSE m.errors[c]],
           started |-> m.started \ {l}]
  <2>1. DOMAIN m.errors = cs
    BY <1>1
  <2> HIDE DEF cs
  <2>2. QED
    BY <2>1, Zenon DEF Counted
<1> HIDE DEF n, cs
<1>4. \A c \in cs : (IF kind = "error" /\ c = counts THEN m.errors[c] + 1 ELSE m.errors[c]) \in Nat
  BY <1>1
<1>5. [c \in cs |-> IF kind = "error" /\ c = counts THEN m.errors[c] + 1 ELSE m.errors[c]] \in [cs -> Nat]
  BY <1>4
<1>6. n \in Monitors
  BY <1>1, <1>3, <1>5 DEF Monitors, cs
<1>7. n.started = m.started \ {l} /\ n.processed = IF counts = ProcessCas THEN m.processed + 1 ELSE m.processed
  BY <1>3
<1>8. \A c \in cs : n.errors[c] = IF kind = "error" /\ c = counts THEN m.errors[c] + 1 ELSE m.errors[c]
  BY <1>3
<1>9. ProcessCas \in cs
  BY DEF cs
<1>10. QED
  BY <1>2, <1>6, <1>7, <1>8, <1>9 DEF n, cs, Kinds

\* The steps keep the types: what a listener works on are requests, what it counts are numbers.
LEMMA RequestTypeStep ==
    RequestType /\ OneListener /\ ResponseFits /\ [Next]_vars => RequestType'
<1> SUFFICES ASSUME RequestType, OneListener, ResponseFits, [Next]_vars
             PROVE  RequestType'
  OBVIOUS
<1> USE DEF RequestType, OneListener, Working, Busy, Goto, ListenerPcs, AtWork
<1>w. ASSUME NEW l \in Listeners, Working(l) PROVE request[l] \in Requests /\ request[l].id \in Ids
  BY <1>w DEF Ids
<1>r. /\ NoResponse \in Responses
      /\ \A kind \in Kinds, data \in SUBSET Ids : [kind |-> kind, data |-> data] \in Responses
  BY DEF Responses, NoResponse
<1>k. {"refused", "error", "result"} \subseteq Kinds
  BY DEF Kinds
<1>1. ASSUME NEW l \in Listeners, Receive(l) PROVE RequestType'
  <2>1. PICK r \in Requests \ arrived : arrived' = arrived \cup {r} /\ request' = [request EXCEPT ![l] = r]
    BY <1>1 DEF Receive
  <2>2. IsFiniteSet(arrived') /\ arrived' \subseteq Requests
    BY <2>1, FS_AddElement
  <2>3. monitor' \in Monitors
    BY <1>1 DEF Receive, Monitors
  <2>4. QED
    BY <1>1, <2>1, <2>2, <2>3 DEF Receive
<1>2. ASSUME NEW l \in Listeners, Validate(l) PROVE RequestType'
  BY <1>2, <1>r, <1>k DEF Validate, Respond
<1>3. ASSUME NEW l \in Listeners, Load(l) PROVE RequestType'
  BY <1>3, <1>w, <1>r, <1>k DEF Load, Failed, Respond, Cleared
<1>4. ASSUME NEW l \in Listeners, Process(l) PROVE RequestType'
  BY <1>4, <1>r, <1>k DEF Process, Failed, Respond
<1>5. ASSUME NEW l \in Listeners, Store(l) PROVE RequestType'
  BY <1>5, <1>r, <1>k DEF Store, Failed, Respond
<1>6. ASSUME NEW l \in Listeners, CollectionProcessComplete(l) PROVE RequestType'
  BY <1>6, <1>r, <1>k DEF CollectionProcessComplete, Failed, Respond
<1>7. ASSUME NEW l \in Listeners, SendResponse(l) PROVE RequestType'
  BY <1>7 DEF SendResponse
<1>8. ASSUME NEW l \in Listeners, Complete(l) PROVE RequestType'
  <2>1. monitor' \in Monitors
    <3>1. response[l].kind \in Kinds
      BY <1>8 DEF Complete, ResponseFits, Fits
    <3>2. QED
      BY <1>8, <3>1, CountedFields DEF Complete
  <2>2. response' \in [Listeners -> Responses]
    BY <1>8, <1>r DEF Complete
  <2>3. QED
    BY <1>8, <2>1, <2>2 DEF Complete
<1>9. ASSUME NEW l \in Listeners, NEW b \in Brokers, ConnectionBroken(l, b) PROVE RequestType'
  BY <1>9 DEF ConnectionBroken
<1>10. CASE UNCHANGED vars
  BY <1>10 DEF vars
<1>11. QED
  BY ONLY [Next]_vars, <1>1, <1>2, <1>3, <1>4, <1>5, <1>6, <1>7, <1>8, <1>9, <1>10, RequestCases
\* A listener receives only what no listener has had, and lets go of it when it is complete.
LEMMA OneListenerStep ==
    RequestType /\ OneListener /\ [Next]_vars => OneListener'
<1> SUFFICES ASSUME RequestType, OneListener, [Next]_vars
             PROVE  OneListener'
  OBVIOUS
<1> USE DEF RequestType, OneListener, Working, Busy, Goto, ListenerPcs, AtWork
<1>n. NoRequest \notin Requests
  BY RequestsAssumption DEF NoRequest
<1>1. ASSUME NEW l \in Listeners, Receive(l) PROVE OneListener'
  BY <1>1, <1>n DEF Receive
<1>2. ASSUME NEW l \in Listeners, Validate(l) PROVE OneListener'
  BY <1>2, <1>n DEF Validate, Respond
<1>3. ASSUME NEW l \in Listeners, Load(l) PROVE OneListener'
  BY <1>3, <1>n DEF Load, Failed, Respond, Cleared
<1>4. ASSUME NEW l \in Listeners, Process(l) PROVE OneListener'
  BY <1>4, <1>n DEF Process, Failed, Respond
<1>5. ASSUME NEW l \in Listeners, Store(l) PROVE OneListener'
  BY <1>5, <1>n DEF Store, Failed, Respond
<1>6. ASSUME NEW l \in Listeners, CollectionProcessComplete(l) PROVE OneListener'
  BY <1>6, <1>n DEF CollectionProcessComplete, Failed, Respond
<1>7. ASSUME NEW l \in Listeners, SendResponse(l) PROVE OneListener'
  BY <1>7, <1>n DEF SendResponse
<1>8. ASSUME NEW l \in Listeners, Complete(l) PROVE OneListener'
  BY <1>8, <1>n DEF Complete
<1>9. ASSUME NEW l \in Listeners, NEW b \in Brokers, ConnectionBroken(l, b) PROVE OneListener'
  BY <1>9, <1>n DEF ConnectionBroken
<1>10. CASE UNCHANGED vars
  BY <1>10 DEF vars
<1>11. QED
  BY ONLY [Next]_vars, <1>1, <1>2, <1>3, <1>4, <1>5, <1>6, <1>7, <1>8, <1>9, <1>10, RequestCases

\* Each step of the handler makes the response that its request calls for.
LEMMA ResponseFitsStep ==
    RequestType /\ OneListener /\ ResponseFits /\ [Next]_vars => ResponseFits'
<1> SUFFICES ASSUME RequestType, OneListener, ResponseFits, [Next]_vars
             PROVE  ResponseFits'
  OBVIOUS
<1> USE DEF RequestType, Working, Busy, Goto, ListenerPcs, AtWork, Accepted
<1>f. \A l \in Listeners : Fits(l)
  BY DEF ResponseFits
<1>k. {"refused", "error", "result"} \subseteq Kinds
  BY DEF Kinds
<1>e. ASSUME NEW l \in Listeners, Accepted(request[l]), Failed(l), request' = request PROVE Fits(l)'
  <2>1. response'[l].kind = "error" /\ response'[l].data = {} /\ pc'[l] \in {"send", "complete"}
    BY <1>e DEF Failed, Respond
  <2>2. QED
    BY <1>e, <2>1, <1>k DEF Fits
<1>d. ASSUME NEW l \in Listeners, request' = request, response' = response, NEW at \in {"process", "store"},
             pc' = [pc EXCEPT ![l] = at], cas'[l] = {request[l].id}, pc[l] \in AtWork
      PROVE  Fits(l)'
  BY <1>d, <1>f DEF Fits
<1>1. ASSUME NEW l \in Listeners, Receive(l) PROVE ResponseFits'
  <2>1. \A k \in Listeners \ {l} : Fits(k)'
    <3>1. \A k \in Listeners \ {l} : pc'[k] = pc[k] /\ request'[k] = request[k] /\ cas'[k] = cas[k]
                                     /\ response'[k] = response[k]
      BY <1>1 DEF Receive
    <3>2. QED
      BY <3>1 DEF Fits, ResponseFits, Accepted, Valid
  <2>2. Fits(l)'
    BY <1>1, <1>f DEF Receive, Fits
  <2>3. QED
    BY <2>1, <2>2 DEF ResponseFits
<1>2. ASSUME NEW l \in Listeners, Validate(l) PROVE ResponseFits'
  <2>1. \A k \in Listeners \ {l} : Fits(k)'
    <3>1. \A k \in Listeners \ {l} : pc'[k] = pc[k] /\ request'[k] = request[k] /\ cas'[k] = cas[k]
                                     /\ response'[k] = response[k]
      BY <1>2 DEF Validate, Respond
    <3>2. QED
      BY <3>1 DEF Fits, ResponseFits, Accepted, Valid
  <2>2. Fits(l)'
    <3>1. request' = request /\ cas' = cas /\ pc[l] = "validate"
      BY <1>2 DEF Validate
    <3>2. CASE ~request[l].text
      <4>1. pc'[l] = "complete" /\ response'[l].kind = "refused" /\ response'[l].data = {}
        BY <1>2, <3>2 DEF Validate
      <4>2. QED
        BY <3>1, <3>2, <4>1, <1>k DEF Fits
    <3>3. CASE request[l].text /\ ~Valid(request[l])
      <4>1. Respond(l, "refused", {})
        BY <1>2, <3>3, Zenon DEF Validate
      <4>2. pc'[l] = "send" /\ response'[l].kind = "refused" /\ response'[l].data = {}
        BY <4>1 DEF Respond
      <4>3. QED
        BY <3>1, <3>3, <4>2, <1>k DEF Fits
    <3>4. CASE request[l].text /\ Valid(request[l]) /\ request[l].command = GetMeta
      <4>1. Respond(l, "result", {})
        BY <1>2, <3>4 DEF Validate, GetMeta, CPC
      <4>2. pc'[l] = "send" /\ response'[l].kind = "result" /\ response'[l].data = {}
        BY <4>1 DEF Respond
      <4>3. QED
        BY <3>1, <3>4, <4>2, <1>k DEF Fits, GetMeta, ProcessCas
    <3>5. CASE request[l].text /\ Valid(request[l]) /\ request[l].command = CPC
      <4>1. pc'[l] = "cpc" /\ response' = response
        BY <1>2, <3>5 DEF Validate, GetMeta, CPC
      <4>2. QED
        BY <3>1, <3>5, <4>1 DEF Fits
    <3>6. CASE request[l].text /\ Valid(request[l]) /\ request[l].command \notin {GetMeta, CPC}
      <4>1. pc'[l] = "load" /\ response' = response
        BY <1>2, <3>6 DEF Validate
      <4>2. QED
        BY <3>1, <3>6, <4>1 DEF Fits
    <3>7. QED
      BY <3>2, <3>3, <3>4, <3>5, <3>6
  <2>3. QED
    BY <2>1, <2>2 DEF ResponseFits
<1>3. ASSUME NEW l \in Listeners, Load(l) PROVE ResponseFits'
  <2>1. \A k \in Listeners \ {l} : Fits(k)'
    <3>1. \A k \in Listeners \ {l} : pc'[k] = pc[k] /\ request'[k] = request[k] /\ cas'[k] = cas[k]
                                     /\ response'[k] = response[k]
      BY <1>3 DEF Load, Failed, Respond, Cleared
    <3>2. QED
      BY <3>1 DEF Fits, ResponseFits, Accepted, Valid
  <2>2. Fits(l)'
    <3>1. request' = request /\ pc[l] = "load" /\ Accepted(request[l]) /\ cas'[l] = {request[l].id}
      BY <1>3, <1>f DEF Load, Cleared, Fits
    <3>2. Failed(l) \/ (Goto(l, "process") /\ response' = response)
      BY <1>3 DEF Load
    <3>3. QED
      BY <3>1, <3>2, <1>e, <1>d
  <2>3. QED
    BY <2>1, <2>2 DEF ResponseFits
<1>4. ASSUME NEW l \in Listeners, Process(l) PROVE ResponseFits'
  <2>1. \A k \in Listeners \ {l} : Fits(k)'
    <3>1. \A k \in Listeners \ {l} : pc'[k] = pc[k] /\ request'[k] = request[k] /\ cas'[k] = cas[k]
                                     /\ response'[k] = response[k]
      BY <1>4 DEF Process, Failed, Respond
    <3>2. QED
      BY <3>1 DEF Fits, ResponseFits, Accepted, Valid
  <2>2. Fits(l)'
    <3>1. request' = request /\ pc[l] = "process" /\ Accepted(request[l]) /\ cas'[l] = {request[l].id}
      BY <1>4, <1>f DEF Process, Fits
    <3>2. Failed(l) \/ (Goto(l, "store") /\ response' = response)
      BY <1>4 DEF Process
    <3>3. QED
      BY <3>1, <3>2, <1>e, <1>d
  <2>3. QED
    BY <2>1, <2>2 DEF ResponseFits
<1>5. ASSUME NEW l \in Listeners, Store(l) PROVE ResponseFits'
  <2>1. \A k \in Listeners \ {l} : Fits(k)'
    <3>1. \A k \in Listeners \ {l} : pc'[k] = pc[k] /\ request'[k] = request[k] /\ cas'[k] = cas[k]
                                     /\ response'[k] = response[k]
      BY <1>5 DEF Store, Failed, Respond
    <3>2. QED
      BY <3>1 DEF Fits, ResponseFits, Accepted, Valid
  <2>2. Fits(l)'
    <3>1. request' = request /\ Accepted(request[l]) /\ cas[l] = {request[l].id}
      BY <1>5, <1>f DEF Store, Fits
    <3>2. CASE Respond(l, "result", cas[l])
      <4>1. pc'[l] = "send" /\ response'[l].kind = "result" /\ response'[l].data = {request[l].id}
        BY <3>1, <3>2 DEF Respond
      <4>2. QED
        BY <3>1, <4>1, <1>k DEF Fits
    <3>3. QED
      BY <1>5, <3>1, <3>2, <1>e DEF Store
  <2>3. QED
    BY <2>1, <2>2 DEF ResponseFits
<1>6. ASSUME NEW l \in Listeners, CollectionProcessComplete(l) PROVE ResponseFits'
  <2>1. \A k \in Listeners \ {l} : Fits(k)'
    <3>1. \A k \in Listeners \ {l} : pc'[k] = pc[k] /\ request'[k] = request[k] /\ cas'[k] = cas[k]
                                     /\ response'[k] = response[k]
      BY <1>6 DEF CollectionProcessComplete, Failed, Respond
    <3>2. QED
      BY <3>1 DEF Fits, ResponseFits, Accepted, Valid
  <2>2. Fits(l)'
    <3>1. request' = request /\ Accepted(request[l]) /\ request[l].command = CPC
      BY <1>6, <1>f DEF CollectionProcessComplete, Fits
    <3>2. CASE Respond(l, "result", {})
      <4>1. pc'[l] = "send" /\ response'[l].kind = "result" /\ response'[l].data = {}
        BY <3>2 DEF Respond
      <4>2. QED
        BY <3>1, <4>1, <1>k DEF Fits, ProcessCas, CPC
    <3>3. QED
      BY <1>6, <3>1, <3>2, <1>e DEF CollectionProcessComplete
  <2>3. QED
    BY <2>1, <2>2 DEF ResponseFits
<1>7. ASSUME NEW l \in Listeners, SendResponse(l) PROVE ResponseFits'
  <2>1. \A k \in Listeners \ {l} : Fits(k)'
    <3>1. \A k \in Listeners \ {l} : pc'[k] = pc[k] /\ request'[k] = request[k] /\ cas'[k] = cas[k]
                                     /\ response'[k] = response[k]
      BY <1>7 DEF SendResponse
    <3>2. QED
      BY <3>1 DEF Fits, ResponseFits, Accepted, Valid
  <2>2. Fits(l)'
    BY <1>7, <1>f DEF SendResponse, Fits
  <2>3. QED
    BY <2>1, <2>2 DEF ResponseFits
<1>8. ASSUME NEW l \in Listeners, Complete(l) PROVE ResponseFits'
  <2>1. \A k \in Listeners \ {l} : Fits(k)'
    <3>1. \A k \in Listeners \ {l} : pc'[k] = pc[k] /\ request'[k] = request[k] /\ cas'[k] = cas[k]
                                     /\ response'[k] = response[k]
      BY <1>8 DEF Complete
    <3>2. QED
      BY <3>1 DEF Fits, ResponseFits, Accepted, Valid
  <2>2. Fits(l)'
    BY <1>8, <1>f DEF Complete, Fits
  <2>3. QED
    BY <2>1, <2>2 DEF ResponseFits
<1>9. ASSUME NEW l \in Listeners, NEW b \in Brokers, ConnectionBroken(l, b) PROVE ResponseFits'
  BY <1>9, <1>f DEF ConnectionBroken, ResponseFits, Fits
<1>10. CASE UNCHANGED vars
  BY <1>10, <1>f DEF vars, ResponseFits, Fits
<1>11. QED
  BY ONLY [Next]_vars, <1>1, <1>2, <1>3, <1>4, <1>5, <1>6, <1>7, <1>8, <1>9, <1>10, RequestCases

\* Only sendResponse() replies, once, and with what the response says.
LEMMA RepliesFitStep ==
    RequestType /\ OneListener /\ RepliesFit /\ [Next]_vars => RepliesFit'
<1> SUFFICES ASSUME RequestType, OneListener, RepliesFit, [Next]_vars
             PROVE  RepliesFit'
  OBVIOUS
<1> USE DEF RequestType, OneListener, RepliesFit, RepliesTo, Working, Busy, Goto, ListenerPcs, AtWork
<1>1. ASSUME NEW l \in Listeners, Receive(l) PROVE RepliesFit'
  <2>1. PICK r \in Requests \ arrived : arrived' = arrived \cup {r} /\ request' = [request EXCEPT ![l] = r]
    BY <1>1 DEF Receive
  <2>2. \A m \in replies : m.to # r.id
    BY <2>1, RequestsAssumption
  <2>3. replies' = replies /\ response' = response /\ pc[l] = "receive"
    BY <1>1 DEF Receive
  <2>4. \A k \in Listeners \ {l} : pc'[k] = pc[k] /\ request'[k] = request[k]
    BY <1>1, <2>1 DEF Receive
  <2>5. QED
    BY <2>1, <2>2, <2>3, <2>4
<1>2. ASSUME NEW l \in Listeners, Validate(l) PROVE RepliesFit'
  BY <1>2 DEF Validate, Respond
<1>3. ASSUME NEW l \in Listeners, Load(l) PROVE RepliesFit'
  BY <1>3 DEF Load, Failed, Respond, Cleared
<1>4. ASSUME NEW l \in Listeners, Process(l) PROVE RepliesFit'
  BY <1>4 DEF Process, Failed, Respond
<1>5. ASSUME NEW l \in Listeners, Store(l) PROVE RepliesFit'
  BY <1>5 DEF Store, Failed, Respond
<1>6. ASSUME NEW l \in Listeners, CollectionProcessComplete(l) PROVE RepliesFit'
  BY <1>6 DEF CollectionProcessComplete, Failed, Respond
<1>7. ASSUME NEW l \in Listeners, SendResponse(l) PROVE RepliesFit'
  <2>. DEFINE r == request[l]
  <2>1. r \in arrived /\ Working(l) /\ pc[l] = "send" /\ RepliesTo(r) = {}
    BY <1>7 DEF SendResponse
  <2>2. replies' = replies \/ \E m : /\ replies' = replies \cup {m}
                                    /\ m.to = r.id /\ m.kind = response[l].kind /\ m.at = OwnBroker
    <3>1. ASSUME NEW c, Deliver(l, c)
          PROVE  replies' = replies \/ \E m : /\ replies' = replies \cup {m}
                                            /\ m.to = r.id /\ m.kind = response[l].kind /\ m.at = OwnBroker
      <4> DEFINE m == [to |-> r.id, kind |-> response[l].kind, about |-> TextMessage(message[l][c]) \cup {r.id},
                       data |-> response[l].data, at |-> OwnBroker]
      <4>1. replies' = replies \/ replies' = replies \cup {m}
        BY <3>1 DEF Deliver
      <4>2. m.to = r.id /\ m.kind = response[l].kind /\ m.at = OwnBroker
        OBVIOUS
      <4>3. QED
        BY <4>1, <4>2
    <3>2. replies' = replies \/ \E c : Deliver(l, c)
      BY <1>7 DEF SendResponse
    <3>3. QED
      BY <3>1, <3>2
  <2>3. pc'[l] = "complete" /\ (\A k \in Listeners \ {l} : pc'[k] = pc[k]) /\ request' = request
        /\ response' = response /\ arrived' = arrived
    BY <1>7 DEF SendResponse
  <2>4. CASE replies' = replies
    BY <2>1, <2>3, <2>4
  <2>5. ASSUME NEW m, replies' = replies \cup {m}, m.to = r.id, m.kind = response[l].kind, m.at = OwnBroker
        PROVE  RepliesFit'
    <3>1. \A n \in replies : n.to # r.id
      BY <2>1
    <3>2. \A n \in replies' : \E q \in arrived' : n.to = q.id
      BY <2>1, <2>3, <2>5
    <3>3. \A n, o \in replies' : n.to = o.to => n = o
      BY <2>5, <3>1
    <3>4. ASSUME NEW k \in Listeners, Working(k)', NEW n \in RepliesTo(request[k])'
          PROVE  (pc[k] = "complete" /\ n.kind = response[k].kind)'
      <4>1. CASE k = l
        BY <2>1, <2>3, <2>5, <3>4, <4>1
      <4>2. CASE k # l
        <5>1. Working(k) /\ request[k] \in arrived /\ request[k] # r /\ request[k] \in Requests /\ r \in Requests
          BY <2>1, <2>3, <3>4, <4>2
        <5>2. n \in RepliesTo(request[k])
          BY <2>3, <2>5, <3>4, <5>1, RequestsAssumption
        <5>3. QED
          BY <2>3, <4>2, <5>1, <5>2
      <4>3. QED
        BY <4>1, <4>2
    <3>5. \A n \in replies' : n.at = OwnBroker
      BY <2>5
    <3>6. QED
      BY <3>2, <3>3, <3>4, <3>5
  <2>6. QED
    BY <2>2, <2>4, <2>5
<1>8. ASSUME NEW l \in Listeners, Complete(l) PROVE RepliesFit'
  BY <1>8 DEF Complete
<1>9. ASSUME NEW l \in Listeners, NEW b \in Brokers, ConnectionBroken(l, b) PROVE RepliesFit'
  BY <1>9 DEF ConnectionBroken
<1>10. CASE UNCHANGED vars
  BY <1>10 DEF vars
<1>11. QED
  BY ONLY [Next]_vars, <1>1, <1>2, <1>3, <1>4, <1>5, <1>6, <1>7, <1>8, <1>9, <1>10, RequestCases

\* No request reaches "complete" without a reply, unless one of the stated things is in its way.
LEMMA RepliesAreThereStep ==
    RequestType /\ OneListener /\ RepliesAreThere /\ [Next]_vars => RepliesAreThere'
<1> SUFFICES ASSUME RequestType, OneListener, RepliesAreThere, [Next]_vars
             PROVE  RepliesAreThere'
  OBVIOUS
<1> USE DEF RequestType, OneListener, RepliesAreThere, RepliesTo, Working, Busy, Goto, ListenerPcs, AtWork
<1>g. ASSUME replies \subseteq replies', hindered \subseteq hindered',
             \A q \in arrived' : Handled(q)' /\ q.text /\ Addressable(q) /\ q.id \notin hindered' =>
                 (q \in arrived /\ Handled(q)) \/ RepliesTo(q)' # {}
      PROVE  RepliesAreThere'
  BY <1>g
<1>m. ASSUME NEW l \in Listeners, pc[l] \notin {"receive", "complete"}, request' = request, arrived' = arrived,
             \A k \in Listeners \ {l} : pc'[k] = pc[k], replies \subseteq replies', hindered \subseteq hindered',
             \/ pc'[l] # "complete" \/ ~request[l].text \/ ~Addressable(request[l])
             \/ request[l].id \in hindered' \/ RepliesTo(request[l])' # {}
      PROVE  RepliesAreThere'
  <2>1. ASSUME NEW q \in arrived', Handled(q)', q.text, Addressable(q), q.id \notin hindered'
        PROVE  Handled(q) \/ RepliesTo(q)' # {}
    <3>1. CASE q = request[l]
      BY <1>m, <2>1, <3>1 DEF Handled
    <3>2. CASE q # request[l]
      BY <1>m, <2>1, <3>2 DEF Handled
    <3>3. QED
      BY <3>1, <3>2
  <2>2. QED
    BY <1>m, <2>1, <1>g
<1>n. NoRequest \notin Requests
  BY RequestsAssumption DEF NoRequest
<1>1. ASSUME NEW l \in Listeners, Receive(l) PROVE RepliesAreThere'
  <2>1. PICK r \in Requests \ arrived : arrived' = arrived \cup {r} /\ request' = [request EXCEPT ![l] = r]
    BY <1>1 DEF Receive
  <2>2. replies' = replies /\ hindered' = hindered /\ pc'[l] = "validate" /\ (\A k \in Listeners \ {l} : pc'[k] = pc[k])
        /\ request[l] = NoRequest
    BY <1>1 DEF Receive
  <2>3. ~Handled(r)'
    BY <2>1, <2>2 DEF Handled
  <2>4. ASSUME NEW q \in arrived, Handled(q)' PROVE Handled(q)
    <3>1. ASSUME NEW k \in Listeners, request[k] = q PROVE pc[k] = "complete"
      <4>1. k # l
        BY <2>2, <3>1, <1>n
      <4>2. request'[k] = q /\ pc'[k] = pc[k]
        BY <2>1, <2>2, <3>1, <4>1
      <4>3. QED
        BY <4>2, <2>4 DEF Handled
    <3>2. QED
      BY <3>1 DEF Handled
  <2>5. QED
    BY <2>1, <2>2, <2>3, <2>4, <1>g
<1>2. ASSUME NEW l \in Listeners, Validate(l) PROVE RepliesAreThere'
  <2>1. request' = request /\ arrived' = arrived /\ replies' = replies /\ pc[l] \notin {"receive", "complete"}
        /\ (\A k \in Listeners \ {l} : pc'[k] = pc[k]) /\ hindered' = hindered
    BY <1>2 DEF Validate, Respond
  <2>2. pc'[l] # "complete" \/ ~request[l].text
    BY <1>2 DEF Validate, Respond, GetMeta, CPC
  <2>3. QED
    BY <2>1, <2>2, <1>m
<1>3. ASSUME NEW l \in Listeners, Load(l) PROVE RepliesAreThere'
  <2>1. request' = request /\ arrived' = arrived /\ replies' = replies /\ pc[l] \notin {"receive", "complete"}
        /\ (\A k \in Listeners \ {l} : pc'[k] = pc[k])
    BY <1>3 DEF Load, Failed, Respond, Cleared
  <2>2. hindered \subseteq hindered' /\ (pc'[l] # "complete" \/ request[l].id \in hindered')
    BY <1>3 DEF Load, Failed, Respond, Cleared
  <2>3. QED
    BY <2>1, <2>2, <1>m
<1>4. ASSUME NEW l \in Listeners, Process(l) PROVE RepliesAreThere'
  <2>1. request' = request /\ arrived' = arrived /\ replies' = replies /\ pc[l] \notin {"receive", "complete"}
        /\ (\A k \in Listeners \ {l} : pc'[k] = pc[k])
    BY <1>4 DEF Process, Failed, Respond
  <2>2. hindered \subseteq hindered' /\ (pc'[l] # "complete" \/ request[l].id \in hindered')
    BY <1>4 DEF Process, Failed, Respond
  <2>3. QED
    BY <2>1, <2>2, <1>m
<1>5. ASSUME NEW l \in Listeners, Store(l) PROVE RepliesAreThere'
  <2>1. request' = request /\ arrived' = arrived /\ replies' = replies /\ pc[l] \notin {"receive", "complete"}
        /\ (\A k \in Listeners \ {l} : pc'[k] = pc[k])
    BY <1>5 DEF Store, Failed, Respond
  <2>2. hindered \subseteq hindered' /\ (pc'[l] # "complete" \/ request[l].id \in hindered')
    BY <1>5 DEF Store, Failed, Respond
  <2>3. QED
    BY <2>1, <2>2, <1>m
<1>6. ASSUME NEW l \in Listeners, CollectionProcessComplete(l) PROVE RepliesAreThere'
  <2>1. request' = request /\ arrived' = arrived /\ replies' = replies /\ pc[l] \notin {"receive", "complete"}
        /\ (\A k \in Listeners \ {l} : pc'[k] = pc[k])
    BY <1>6 DEF CollectionProcessComplete, Failed, Respond
  <2>2. hindered \subseteq hindered' /\ (pc'[l] # "complete" \/ request[l].id \in hindered')
    BY <1>6 DEF CollectionProcessComplete, Failed, Respond
  <2>3. QED
    BY <2>1, <2>2, <1>m
<1>7. ASSUME NEW l \in Listeners, SendResponse(l) PROVE RepliesAreThere'
  <2>. DEFINE r == request[l]
  <2>1. request' = request /\ arrived' = arrived /\ pc[l] \notin {"receive", "complete"}
        /\ (\A k \in Listeners \ {l} : pc'[k] = pc[k])
    BY <1>7 DEF SendResponse
  <2>2. ASSUME NEW c, Deliver(l, c)
        PROVE  replies \subseteq replies' /\ hindered \subseteq hindered' /\ (r.id \in hindered' \/ RepliesTo(r)' # {})
    <3> DEFINE m == [to |-> r.id, kind |-> response[l].kind, about |-> TextMessage(message[l][c]) \cup {r.id},
                     data |-> response[l].data, at |-> OwnBroker]
    <3>1. (replies' = replies \cup {m} /\ hindered' = hindered) \/ (hindered' = hindered \cup {r.id} /\ replies' = replies)
      BY <2>2 DEF Deliver
    <3>2. m.to = r.id
      OBVIOUS
    <3>3. QED
      BY <2>1, <3>1, <3>2
  <2>3. CASE r.replyTo /\ Deliver(l, Own)
    BY <2>1, <2>2, <2>3, <1>m
  <2>4. ASSUME NEW b, NEW o \in OutcomesOfLookup(connections[l][b]),
               IF o.found THEN Deliver(l, b)
               ELSE hindered' = hindered \cup {r.id} /\ UNCHANGED <<message, replies>>
        PROVE  RepliesAreThere'
    <3>1. CASE ~o.found
      BY <2>1, <2>4, <3>1, <1>m
    <3>2. CASE o.found
      <4>1. replies \subseteq replies' /\ hindered \subseteq hindered' /\ (r.id \in hindered' \/ RepliesTo(r)' # {})
        BY <2>4, <3>2, <2>2
      <4>2. QED
        BY <2>1, <4>1, <1>m
    <3>3. QED
      BY <3>1, <3>2
  <2>5. CASE ~Addressable(r) /\ hindered' = hindered /\ replies' = replies
    BY <2>1, <2>5, <1>m
  <2>6. QED
    BY <1>7, <2>3, <2>4, <2>5 DEF SendResponse
<1>8. ASSUME NEW l \in Listeners, Complete(l) PROVE RepliesAreThere'
  <2>. DEFINE r == request[l]
  <2>1. replies' = replies /\ hindered' = hindered /\ arrived' = arrived /\ pc[l] = "complete"
        /\ (\A k \in Listeners \ {l} : pc'[k] = pc[k] /\ request'[k] = request[k])
    BY <1>8 DEF Complete
  <2>2. ASSUME NEW q \in arrived, Handled(q)' PROVE Handled(q)
    BY <2>1, <2>2 DEF Handled
  <2>3. QED
    BY <2>1, <2>2, <1>g
<1>9. ASSUME NEW l \in Listeners, NEW b \in Brokers, ConnectionBroken(l, b) PROVE RepliesAreThere'
  BY <1>9 DEF ConnectionBroken, Handled
<1>10. CASE UNCHANGED vars
  BY <1>10 DEF vars, Handled
<1>11. QED
  BY ONLY [Next]_vars, <1>1, <1>2, <1>3, <1>4, <1>5, <1>6, <1>7, <1>8, <1>9, <1>10, RequestCases

\* The reply message is cleared before it is filled, and the response is of this request.
LEMMA RepliesKeepStep ==
    RequestType /\ OneListener /\ ResponseFits /\ RepliesFit /\ RepliesKeepToTheirRequest /\ [Next]_vars => RepliesKeepToTheirRequest'
<1> SUFFICES ASSUME RequestType, OneListener, ResponseFits, RepliesFit, RepliesKeepToTheirRequest, [Next]_vars
             PROVE  RepliesKeepToTheirRequest'
  OBVIOUS
<1> USE DEF RequestType, OneListener, ResponseFits, RepliesKeepToTheirRequest, Working, Busy
<1>1. ASSUME NEW l \in Listeners, Receive(l) PROVE RepliesKeepToTheirRequest'
  <2>1. PICK r \in Requests \ arrived : arrived' = arrived \cup {r} /\ replies' = replies
    BY <1>1 DEF Receive
  <2>2. \A m \in replies : m.to # r.id
    BY <2>1, RequestsAssumption DEF RepliesFit
  <2>3. QED
    BY <2>1, <2>2
<1>2. ASSUME NEW l \in Listeners, Validate(l) PROVE RepliesKeepToTheirRequest'
  BY <1>2 DEF Validate
<1>3. ASSUME NEW l \in Listeners, Load(l) PROVE RepliesKeepToTheirRequest'
  BY <1>3 DEF Load
<1>4. ASSUME NEW l \in Listeners, Process(l) PROVE RepliesKeepToTheirRequest'
  BY <1>4 DEF Process
<1>5. ASSUME NEW l \in Listeners, Store(l) PROVE RepliesKeepToTheirRequest'
  BY <1>5 DEF Store
<1>6. ASSUME NEW l \in Listeners, CollectionProcessComplete(l) PROVE RepliesKeepToTheirRequest'
  BY <1>6 DEF CollectionProcessComplete
<1>7. ASSUME NEW l \in Listeners, SendResponse(l) PROVE RepliesKeepToTheirRequest'
  <2>. DEFINE r == request[l]
  <2>1. arrived' = arrived /\ r \in arrived /\ Fits(l) /\ pc[l] = "send"
    BY <1>7 DEF SendResponse
  <2>2. ASSUME NEW c, Deliver(l, c)
        PROVE  RepliesKeepToTheirRequest'
    <3>1. CASE replies' = replies
      BY <2>1, <3>1
    <3>2. CASE replies' # replies
      <4> DEFINE m == [to |-> r.id, kind |-> response[l].kind, about |-> TextMessage(message[l][c]) \cup {r.id},
                       data |-> response[l].data, at |-> OwnBroker]
      <4>1. replies' = replies \cup {m}
        BY <2>2, <3>2 DEF Deliver
      <4>2. m.to = r.id /\ m.kind = response[l].kind /\ m.data = response[l].data /\ m.about = {r.id}
        BY DEF TextMessage
      <4>3. m.data \subseteq {r.id} /\ (m.kind = "result" /\ r.command = ProcessCas => m.data = {r.id})
        BY <2>1, <4>2 DEF Fits
      <4>4. \A q \in arrived : m.to = q.id => q = r
        BY <2>1, <4>2, RequestsAssumption
      <4> HIDE DEF m
      <4>5. QED
        BY <2>1, <4>1, <4>2, <4>3, <4>4
    <3>3. QED
      BY <3>1, <3>2
  <2>3. replies' = replies \/ \E c : Deliver(l, c)
    BY <1>7 DEF SendResponse
  <2>4. QED
    BY <2>1, <2>2, <2>3
<1>8. ASSUME NEW l \in Listeners, Complete(l) PROVE RepliesKeepToTheirRequest'
  BY <1>8 DEF Complete
<1>9. ASSUME NEW l \in Listeners, NEW b \in Brokers, ConnectionBroken(l, b) PROVE RepliesKeepToTheirRequest'
  BY <1>9 DEF ConnectionBroken
<1>10. CASE UNCHANGED vars
  BY <1>10 DEF vars
<1>11. QED
  BY ONLY [Next]_vars, <1>1, <1>2, <1>3, <1>4, <1>5, <1>6, <1>7, <1>8, <1>9, <1>10, RequestCases

\* The counts of the invariant are those of the property.
LEMMA CountsFitAgree ==
    RequestType /\ CountsFit => CountsAgree
<1> SUFFICES ASSUME RequestType, CountsFit PROVE CountsAgree
  OBVIOUS
<1> DEFINE done == {r \in arrived : Done(r) /\ r.text /\ Valid(r)}
           Of(c) == {r \in done : r.command = c}
           told(c, kinds) == {r \in Of(c) : \E m \in RepliesTo(r) : m.kind \in kinds}
<1>1. \A c : Of(c) = Served(c)
  BY DEF Served, Accepted
<1>2. \A c, kinds : told(c, kinds) = ToldOf(c, kinds)
  BY <1>1 DEF ToldOf
<1>3. DOMAIN monitor.errors = {ProcessCas, GetMeta, CPC} /\ \A c \in DOMAIN monitor.errors : monitor.errors[c] \in Nat
  BY DEF RequestType, Monitors
<1>4. \A c, kinds : Cardinality(Served(c)) \in Nat /\ Cardinality(ToldOf(c, kinds)) \in Nat
  <2>1. ASSUME NEW c, NEW kinds PROVE IsFiniteSet(Served(c)) /\ IsFiniteSet(ToldOf(c, kinds))
    <3>1. Served(c) \subseteq arrived /\ ToldOf(c, kinds) \subseteq arrived
      BY DEF Served, ToldOf
    <3>2. QED
      BY <3>1, FS_Subset DEF RequestType
  <2>2. QED
    BY <2>1, FS_CardinalityType
<1> HIDE DEF done, Of, told
<1>5. /\ monitor.processed = Cardinality(Of(ProcessCas))
      /\ \A l \in monitor.started : pc[l] # "receive"
  BY <1>1 DEF CountsFit, Working
<1>6. ASSUME NEW c \in DOMAIN monitor.errors
      PROVE  /\ monitor.errors[c] >= Cardinality(told(c, {"error", "refused"}))
             /\ monitor.errors[c] <= Cardinality(Of(c)) - Cardinality(told(c, {"result"}))
  <2>1. /\ monitor.errors[c] >= Cardinality(ToldOf(c, {"error", "refused"}))
        /\ monitor.errors[c] + Cardinality(ToldOf(c, {"result"})) <= Cardinality(Served(c))
    BY <1>3 DEF CountsFit
  <2>2. Of(c) = Served(c) /\ told(c, {"error", "refused"}) = ToldOf(c, {"error", "refused"})
        /\ told(c, {"result"}) = ToldOf(c, {"result"})
    BY <1>1, <1>2
  <2>3. monitor.errors[c] \in Nat /\ Cardinality(Served(c)) \in Nat /\ Cardinality(ToldOf(c, {"result"})) \in Nat
    BY <1>3, <1>4
  <2>4. QED
    BY <2>1, <2>2, <2>3
<1>7. QED
  BY <1>5, <1>6 DEF CountsAgree, done, Of, told

\* Only Complete() counts, and its request is then done.
LEMMA CountsFitStep ==
    RequestType /\ OneListener /\ ResponseFits /\ RepliesFit /\ CountsFit /\ [Next]_vars => CountsFit'
<1> SUFFICES ASSUME RequestType, OneListener, ResponseFits, RepliesFit, CountsFit, [Next]_vars
             PROVE  CountsFit'
  OBVIOUS
<1> USE DEF Working, Busy, Goto
<1>n. NoRequest \notin Requests
  BY RequestsAssumption DEF NoRequest
<1>w. /\ arrived \subseteq Requests /\ monitor \in Monitors
      /\ \A l \in Listeners : Working(l) => request[l] \in arrived
      /\ \A l \in Listeners : ~Working(l) => request[l] = NoRequest
  BY DEF RequestType, OneListener
\* No request is done that was not, and none of those that are has another reply.
<1>s. ASSUME \A q : (q \in arrived' /\ Done(q)') <=> (q \in arrived /\ Done(q)),
             \A q \in arrived : Done(q) => RepliesTo(q)' = RepliesTo(q),
             monitor'.processed = monitor.processed, monitor'.errors = monitor.errors,
             \A l \in monitor'.started : Working(l)'
      PROVE  CountsFit'
  <2>1. \A c : Served(c)' = Served(c)
    BY <1>s DEF Served, Accepted, Valid
  <2>2. \A c, kinds : ToldOf(c, kinds)' = ToldOf(c, kinds)
    <3>1. \A c, kinds : ToldOf(c, kinds)' = {q \in Served(c) : \E m \in RepliesTo(q)' : m.kind \in kinds}
      BY <2>1 DEF ToldOf
    <3>2. \A c : \A q \in Served(c) : RepliesTo(q)' = RepliesTo(q)
      BY <1>s DEF Served
    <3>3. QED
      BY <3>1, <3>2 DEF ToldOf
  <2>3. QED
    BY <1>s, <2>1, <2>2 DEF CountsFit
<1>t. ASSUME arrived' = arrived, request' = request, replies' = replies, monitor' = monitor,
             \A l \in Listeners : Working(l) => Working(l)'
      PROVE  CountsFit'
  <2>1. \A q : Done(q)' <=> Done(q)
    BY <1>t DEF Done
  <2>2. \A q : RepliesTo(q)' = RepliesTo(q)
    BY <1>t DEF RepliesTo
  <2>3. \A l \in monitor'.started : Working(l)'
    BY <1>t, <1>w DEF CountsFit, Monitors
  <2>4. QED
    BY <1>t, <2>1, <2>2, <2>3, <1>s
<1>1. ASSUME NEW l \in Listeners, Receive(l) PROVE CountsFit'
  <2>1. PICK r \in Requests \ arrived : arrived' = arrived \cup {r} /\ request' = [request EXCEPT ![l] = r]
    BY <1>1 DEF Receive
  <2>2. replies' = replies /\ request[l] = NoRequest /\ pc' = [pc EXCEPT ![l] = "validate"]
    BY <1>1, <1>w DEF Receive
  <2>3. ~Done(r)'
    BY <2>1 DEF Done, RequestType
  <2>4. ASSUME NEW q \in arrived PROVE Done(q)' <=> Done(q)
    <3>1. q # r /\ q # NoRequest
      BY <2>1, <1>n, <1>w
    <3>2. \A k \in Listeners : (request'[k] = q) <=> (request[k] = q)
      BY <2>1, <2>2, <3>1 DEF RequestType
    <3>3. QED
      BY <2>1, <3>2 DEF Done
  <2>5. monitor'.processed = monitor.processed /\ monitor'.errors = monitor.errors
        /\ monitor'.started \subseteq monitor.started \cup {l}
    BY <1>1, <1>w DEF Receive, Monitors
  <2>6. \A k \in monitor'.started : Working(k)'
    BY <2>2, <2>5, <1>w DEF CountsFit, Monitors, RequestType
  <2>7. \A q : RepliesTo(q)' = RepliesTo(q)
    BY <2>2 DEF RepliesTo
  <2>8. QED
    BY <2>1, <2>3, <2>4, <2>5, <2>6, <2>7, <1>s
<1>2. ASSUME NEW l \in Listeners, Validate(l) PROVE CountsFit'
  <2>1. arrived' = arrived /\ request' = request /\ replies' = replies /\ monitor' = monitor
    BY <1>2 DEF Validate
  <2>2. pc'[l] # "receive" /\ \A k \in Listeners \ {l} : pc'[k] = pc[k]
    BY <1>2 DEF Validate, Respond, GetMeta, CPC, RequestType
  <2>3. QED
    BY <2>1, <2>2, <1>t
<1>3. ASSUME NEW l \in Listeners, Load(l) PROVE CountsFit'
  <2>1. arrived' = arrived /\ request' = request /\ replies' = replies /\ monitor' = monitor
    BY <1>3 DEF Load
  <2>2. pc'[l] # "receive" /\ \A k \in Listeners \ {l} : pc'[k] = pc[k]
    BY <1>3 DEF Load, Failed, Respond, Cleared, RequestType
  <2>3. QED
    BY <2>1, <2>2, <1>t
<1>4. ASSUME NEW l \in Listeners, Process(l) PROVE CountsFit'
  <2>1. arrived' = arrived /\ request' = request /\ replies' = replies /\ monitor' = monitor
    BY <1>4 DEF Process
  <2>2. pc'[l] # "receive" /\ \A k \in Listeners \ {l} : pc'[k] = pc[k]
    BY <1>4 DEF Process, Failed, Respond, RequestType
  <2>3. QED
    BY <2>1, <2>2, <1>t
<1>5. ASSUME NEW l \in Listeners, Store(l) PROVE CountsFit'
  <2>1. arrived' = arrived /\ request' = request /\ replies' = replies /\ monitor' = monitor
    BY <1>5 DEF Store
  <2>2. pc'[l] # "receive" /\ \A k \in Listeners \ {l} : pc'[k] = pc[k]
    BY <1>5 DEF Store, Failed, Respond, RequestType
  <2>3. QED
    BY <2>1, <2>2, <1>t
<1>6. ASSUME NEW l \in Listeners, CollectionProcessComplete(l) PROVE CountsFit'
  <2>1. arrived' = arrived /\ request' = request /\ replies' = replies /\ monitor' = monitor
    BY <1>6 DEF CollectionProcessComplete
  <2>2. pc'[l] # "receive" /\ \A k \in Listeners \ {l} : pc'[k] = pc[k]
    BY <1>6 DEF CollectionProcessComplete, Failed, Respond, RequestType
  <2>3. QED
    BY <2>1, <2>2, <1>t
<1>7. ASSUME NEW l \in Listeners, SendResponse(l) PROVE CountsFit'
  <2>. DEFINE r == request[l]
  <2>1. arrived' = arrived /\ request' = request /\ monitor' = monitor /\ r \in arrived /\ pc' = [pc EXCEPT ![l] = "complete"]
    BY <1>7, <1>w DEF SendResponse
  <2>2. \A q : Done(q)' <=> Done(q)
    BY <2>1 DEF Done
  <2>3. ~Done(r)
    BY DEF Done
  <2>4. replies \subseteq replies' /\ \A m \in replies' \ replies : m.to = r.id
    <3>1. ASSUME NEW c, Deliver(l, c)
          PROVE  replies \subseteq replies' /\ \A m \in replies' \ replies : m.to = r.id
      BY <3>1 DEF Deliver
    <3>2. QED
      BY <1>7, <3>1 DEF SendResponse
  <2>5. ASSUME NEW q \in arrived, Done(q) PROVE RepliesTo(q)' = RepliesTo(q)
    <3>1. q.id # r.id
      BY <2>1, <2>3, <2>5, <1>w, RequestsAssumption
    <3>2. QED
      BY <2>4, <3>1 DEF RepliesTo
  <2>6. \A k \in monitor'.started : Working(k)'
    BY <2>1, <1>w DEF CountsFit, Monitors, RequestType
  <2>7. QED
    BY <2>1, <2>2, <2>5, <2>6, <1>s
<1>8. ASSUME NEW l \in Listeners, Complete(l) PROVE CountsFit'
  <2>. DEFINE r == request[l]
              kind == response[l].kind
              cs == {ProcessCas, GetMeta, CPC}
  <2>1. /\ arrived' = arrived /\ replies' = replies /\ request' = [request EXCEPT ![l] = NoRequest]
        /\ monitor' = Counted(monitor, l, r.command, kind) /\ pc' = [pc EXCEPT ![l] = "receive"]
        /\ pc[l] = "complete" /\ r \in arrived /\ r \in Requests
    BY <1>8, <1>w DEF Complete
  <2>2. kind \in Kinds /\ (kind = "refused" <=> ~Accepted(r)) /\ (\A m \in RepliesTo(r) : m.kind = kind)
    BY <2>1 DEF ResponseFits, Fits, RepliesFit
  <2>3. \A q \in arrived : Done(q)' <=> (Done(q) \/ q = r)
    <3>1. ASSUME NEW q \in arrived, q # r PROVE Done(q)' <=> Done(q)
      <4>1. \A k \in Listeners : (request'[k] = q) <=> (request[k] = q)
        BY <2>1, <3>1, <1>n, <1>w DEF RequestType
      <4>2. QED
        BY <2>1, <4>1 DEF Done
    <3>2. ASSUME NEW q, q = r PROVE Done(q)'
      <4>1. \A k \in Listeners \ {l} : request[k] # r
        BY <2>1 DEF OneListener
      <4>2. \A k \in Listeners : request'[k] # r
        BY <2>1, <4>1, <1>n DEF RequestType
      <4>3. QED
        BY <2>1, <3>2, <4>2 DEF Done
    <3>3. QED
      BY <3>1, <3>2
  <2>4. ~Done(r)
    BY DEF Done
  <2>5. \A q : RepliesTo(q)' = RepliesTo(q)
    BY <2>1 DEF RepliesTo
  <2>6. ASSUME NEW c
        PROVE  /\ r \notin Served(c) /\ IsFiniteSet(Served(c))
               /\ Served(c)' = IF Accepted(r) /\ r.command = c THEN Served(c) \cup {r} ELSE Served(c)
    <3>1. Served(c) \subseteq arrived /\ r \notin Served(c)
      BY <2>4 DEF Served
    <3>2. IsFiniteSet(Served(c))
      BY <3>1, FS_Subset DEF RequestType
    <3>3. Served(c)' = {q \in arrived : (Done(q) \/ q = r) /\ Accepted(q) /\ q.command = c}
      BY <2>1, <2>3 DEF Served, Accepted, Valid
    <3>4. QED
      BY <2>1, <3>1, <3>2, <3>3 DEF Served
  <2>7. ASSUME NEW c, NEW kinds
        PROVE  /\ r \notin ToldOf(c, kinds) /\ IsFiniteSet(ToldOf(c, kinds))
               /\ \/ ToldOf(c, kinds)' = ToldOf(c, kinds)
                  \/ ToldOf(c, kinds)' = ToldOf(c, kinds) \cup {r} /\ kind \in kinds /\ Accepted(r) /\ r.command = c
    <3>1. ToldOf(c, kinds) \subseteq Served(c)
      BY DEF ToldOf
    <3>2. r \notin ToldOf(c, kinds) /\ IsFiniteSet(ToldOf(c, kinds))
      BY <2>6, <3>1, FS_Subset
    <3>3. ToldOf(c, kinds)' = {q \in Served(c)' : \E m \in RepliesTo(q) : m.kind \in kinds}
      BY <2>5 DEF ToldOf
    <3>4. CASE Accepted(r) /\ r.command = c /\ \E m \in RepliesTo(r) : m.kind \in kinds
      <4>1. ToldOf(c, kinds)' = ToldOf(c, kinds) \cup {r}
        BY <2>6, <3>3, <3>4 DEF ToldOf
      <4>2. kind \in kinds
        BY <2>2, <3>4
      <4>3. QED
        BY <3>2, <3>4, <4>1, <4>2
    <3>5. CASE ~(Accepted(r) /\ r.command = c /\ \E m \in RepliesTo(r) : m.kind \in kinds)
      <4>1. ToldOf(c, kinds)' = ToldOf(c, kinds)
        BY <2>6, <3>3, <3>5 DEF ToldOf
      <4>2. QED
        BY <3>2, <4>1
    <3>6. QED
      BY <3>4, <3>5
  <2>8. /\ monitor'.started = monitor.started \ {l}
        /\ monitor'.processed = IF kind # "refused" /\ r.command = ProcessCas THEN monitor.processed + 1 ELSE monitor.processed
        /\ \A c \in cs : monitor'.errors[c] = IF kind = "error" /\ c = r.command THEN monitor.errors[c] + 1 ELSE monitor.errors[c]
    BY <2>1, <2>2, <1>w, CountedFields
  <2>9. monitor'.processed = Cardinality(Served(ProcessCas)')
    <3>1. monitor.processed = Cardinality(Served(ProcessCas))
      BY DEF CountsFit
    <3>2. Cardinality(Served(ProcessCas) \cup {r}) = Cardinality(Served(ProcessCas)) + 1
      BY <2>6, FS_AddElement
    <3>3. CASE Accepted(r) /\ r.command = ProcessCas
      BY <2>2, <2>6, <2>8, <3>1, <3>2, <3>3
    <3>4. CASE ~(Accepted(r) /\ r.command = ProcessCas)
      BY <2>2, <2>6, <2>8, <3>1, <3>4
    <3>5. QED
      BY <3>3, <3>4
  <2>10. ASSUME NEW c \in cs
         PROVE  /\ monitor'.errors[c] >= Cardinality(ToldOf(c, {"error", "refused"})')
                /\ monitor'.errors[c] + Cardinality(ToldOf(c, {"result"})') <= Cardinality(Served(c)')
    <3> DEFINE bad == {"error", "refused"}
               good == {"result"}
    <3>1. /\ monitor.errors[c] >= Cardinality(ToldOf(c, bad)) /\ monitor.errors[c] \in Nat
          /\ monitor.errors[c] + Cardinality(ToldOf(c, good)) <= Cardinality(Served(c))
      BY <1>w DEF CountsFit, Monitors
    <3>2. /\ Cardinality(ToldOf(c, bad)) \in Nat /\ Cardinality(ToldOf(c, good)) \in Nat /\ Cardinality(Served(c)) \in Nat
          /\ Cardinality(ToldOf(c, bad) \cup {r}) = Cardinality(ToldOf(c, bad)) + 1
          /\ Cardinality(ToldOf(c, good) \cup {r}) = Cardinality(ToldOf(c, good)) + 1
          /\ Cardinality(Served(c) \cup {r}) = Cardinality(Served(c)) + 1
      BY <2>6, <2>7, FS_AddElement, FS_CardinalityType
    <3>3. \/ ToldOf(c, bad)' = ToldOf(c, bad)
          \/ ToldOf(c, bad)' = ToldOf(c, bad) \cup {r} /\ kind \in bad /\ Accepted(r) /\ r.command = c
      BY <2>7
    <3>4. \/ ToldOf(c, good)' = ToldOf(c, good)
          \/ ToldOf(c, good)' = ToldOf(c, good) \cup {r} /\ kind \in good /\ Accepted(r) /\ r.command = c
      BY <2>7
    <3>5. Served(c)' = IF Accepted(r) /\ r.command = c THEN Served(c) \cup {r} ELSE Served(c)
      BY <2>6
    <3>6. monitor'.errors[c] = IF kind = "error" /\ c = r.command THEN monitor.errors[c] + 1 ELSE monitor.errors[c]
      BY <2>8
    <3>7. monitor'.errors[c] >= Cardinality(ToldOf(c, bad)')
      <4>1. CASE ToldOf(c, bad)' = ToldOf(c, bad)
        BY <3>1, <3>2, <3>6, <4>1
      <4>2. CASE ToldOf(c, bad)' = ToldOf(c, bad) \cup {r} /\ kind \in bad /\ Accepted(r) /\ r.command = c
        <5>1. kind = "error"
          BY <2>2, <4>2
        <5>2. monitor'.errors[c] = monitor.errors[c] + 1
          BY <3>6, <4>2, <5>1
        <5>3. Cardinality(ToldOf(c, bad)') = Cardinality(ToldOf(c, bad)) + 1
          BY <3>2, <4>2
        <5>4. QED
          BY <3>1, <3>2, <5>2, <5>3
      <4>3. QED
        BY <3>3, <4>1, <4>2
    <3>8. monitor'.errors[c] + Cardinality(ToldOf(c, good)') <= Cardinality(Served(c)')
      <4>1. CASE ToldOf(c, good)' = ToldOf(c, good) /\ ~(kind = "error" /\ c = r.command)
        BY <3>1, <3>2, <3>5, <3>6, <4>1
      <4>2. CASE ToldOf(c, good)' = ToldOf(c, good) /\ kind = "error" /\ c = r.command
        <5>1. Accepted(r)
          BY <2>2, <4>2
        <5>2. monitor'.errors[c] = monitor.errors[c] + 1
          BY <3>6, <4>2
        <5>3. Cardinality(Served(c)') = Cardinality(Served(c)) + 1
          BY <3>2, <3>5, <4>2, <5>1
        <5>4. QED
          BY <3>1, <3>2, <4>2, <5>2, <5>3
      <4>3. CASE ToldOf(c, good)' = ToldOf(c, good) \cup {r} /\ kind \in good /\ Accepted(r) /\ r.command = c
        <5>1. kind # "error"
          BY <4>3
        <5>2. monitor'.errors[c] = monitor.errors[c]
          BY <3>6, <5>1
        <5>3. Cardinality(ToldOf(c, good)') = Cardinality(ToldOf(c, good)) + 1
          BY <3>2, <4>3
        <5>4. Cardinality(Served(c)') = Cardinality(Served(c)) + 1
          BY <3>2, <3>5, <4>3
        <5>5. QED
          BY <3>1, <3>2, <5>2, <5>3, <5>4
      <4>4. QED
        BY <3>4, <4>1, <4>2, <4>3
    <3>9. QED
      BY <3>7, <3>8
  <2>11. \A k \in monitor'.started : Working(k)'
    BY <2>1, <2>8, <1>w DEF CountsFit, Monitors, RequestType
  <2>12. QED
    BY <2>9, <2>10, <2>11 DEF CountsFit
<1>9. ASSUME NEW l \in Listeners, NEW b \in Brokers, ConnectionBroken(l, b) PROVE CountsFit'
  BY <1>9, <1>t DEF ConnectionBroken
<1>10. CASE UNCHANGED vars
  BY <1>10, <1>t DEF vars
<1>11. QED
  BY ONLY [Next]_vars, <1>1, <1>2, <1>3, <1>4, <1>5, <1>6, <1>7, <1>8, <1>9, <1>10, RequestCases

\* What the invariant says is so from the start.
LEMMA RequestInvInit == Init => RequestInv
<1>1. SUFFICES ASSUME Init PROVE RequestInv
  OBVIOUS
<1>2. NoRequest \notin Requests
  BY RequestsAssumption DEF NoRequest
<1>3. RequestType
  <2>1. NoResponse \in Responses /\ Zero \in Monitors
    BY DEF NoResponse, Responses, Zero, Monitors
  <2>2. QED
    BY <1>1, <2>1, FS_EmptySet DEF Init, RequestType, ListenerPcs
<1>4. OneListener /\ RepliesFit /\ RepliesAreThere /\ RepliesKeepToTheirRequest /\ ResponseFits
  BY <1>1 DEF Init, OneListener, RepliesFit, RepliesAreThere, RepliesKeepToTheirRequest, ResponseFits, Fits,
              AtWork, Working
<1>5. CountsFit
  <2>1. \A c, kinds : Served(c) = {} /\ ToldOf(c, kinds) = {}
    BY <1>1 DEF Init, Served, ToldOf
  <2>2. monitor.processed = 0 /\ monitor.started = {} /\ \A c \in {ProcessCas, GetMeta, CPC} : monitor.errors[c] = 0
    BY <1>1 DEF Init, Zero
  <2>3. QED
    BY <2>1, <2>2, FS_EmptySet DEF CountsFit
<1>6. QED
  BY <1>3, <1>4, <1>5 DEF RequestInv

LEMMA RequestInvStep == RequestInv /\ [Next]_vars => RequestInv'
BY RequestTypeStep, OneListenerStep, ResponseFitsStep, RepliesFitStep, RepliesAreThereStep, RepliesKeepStep,
   CountsFitStep DEF RequestInv

\* The requests of the service, for any requests, listeners, selectors and brokers: the parts of
\* the invariant hold from the start, and every step keeps them together.
THEOREM RequestInvariant ==
    Spec => []RequestInv
<1>1. Init => RequestInv
  BY RequestInvInit
<1>2. RequestInv /\ [Next]_vars => RequestInv'
  BY RequestInvStep
<1>3. QED
  BY <1>1, <1>2, PTL DEF Spec

\* What the invariant says of a request that has left its listener.
LEMMA RequestInvImplies ==
    RequestInv => AnsweredOnce /\ RepliesKeepToTheirRequest /\ CountsAgree
<1> SUFFICES ASSUME RequestInv PROVE AnsweredOnce /\ RepliesKeepToTheirRequest /\ CountsAgree
  OBVIOUS
<1>1. ASSUME NEW r \in arrived PROVE Cardinality(RepliesTo(r)) <= 1
  <2>1. CASE RepliesTo(r) = {}
    BY <2>1, FS_EmptySet
  <2>2. CASE RepliesTo(r) # {}
    <3>1. PICK m \in RepliesTo(r) : TRUE
      BY <2>2
    <3>2. RepliesTo(r) = {m}
      BY <3>1 DEF RequestInv, RepliesFit, RepliesTo
    <3>3. QED
      BY <3>2, FS_Singleton
  <2>3. QED
    BY <2>1, <2>2
<1>2. ASSUME NEW r \in arrived, Done(r), r.text, RequestersBroker(r) = OwnBroker, r.id \notin hindered
      PROVE  \E m \in RepliesTo(r) : m.at = RequestersBroker(r)
  <2>1. Addressable(r)
    BY <1>2, RequestsAssumption DEF Addressable, RequestersBroker, None
  <2>2. RepliesTo(r) # {}
    BY <1>2, <2>1 DEF RequestInv, RepliesAreThere, Handled, Done
  <2>3. QED
    BY <1>2, <2>2 DEF RequestInv, RepliesFit, RepliesTo
<1>3. AnsweredOnce
  BY <1>1, <1>2 DEF AnsweredOnce
<1>4. QED
  BY <1>3, CountsFitAgree DEF RequestInv

\* A request is answered at most once, and where its requester waits when that is at the service's own
\* broker, whatever was broken before: handleRequest() with sendResponse() and getConnection().
THEOREM RequestsAnsweredOnce ==
    Spec => []AnsweredOnce
BY RequestInvariant, RequestInvImplies, PTL

\* A reply says nothing of the requests before its own (postCAS(), getTextMessage()).
THEOREM RepliesAreAboutTheirRequest ==
    Spec => []RepliesKeepToTheirRequest
BY RequestInvariant, RequestInvImplies, PTL

\* The Monitor's counts are those of the requests that are done (processingComplete(),
\* incrementErrorCount()).
THEOREM MonitorCounts ==
    Spec => []CountsAgree
BY RequestInvariant, RequestInvImplies, PTL

----------------------------------------------------------------------------
(* Statistics *)

StatisticsType ==
    /\ mNow \in Nat \ {0} /\ mStartTime \in 1 .. mNow /\ mBusy \subseteq Instances
    /\ mLast \in [Instances -> 0 .. mNow] /\ mIdleTimes \in [Instances -> Nat]
    /\ mStarted \in [Instances -> Nat \cup {Never}] /\ mCompleted \in [Instances -> Nat]
    /\ mIdled \in [Instances -> Nat] /\ mRequests \in [Instances -> Nat]
    /\ mBlurred \in BOOLEAN

\* Since when a listener without a request is idle.
Since(l) == IF mLast[l] # 0 THEN mLast[l] ELSE mStartTime
\* How far the recorded idle time of a listener is behind what it was idle up to its last request.
Behind(l) == mIdled[l] - (IF l \in mBusy THEN 0 ELSE mNow - Since(l)) - mIdleTimes[l] * Milli

\* What the Monitor has noted of a listener says how far it has come, and each request took less
\* than a millisecond from its idle time.
NotesFit(l) ==
    /\ Behind(l) \in 0 .. (Milli - 1) * mRequests[l]
    /\ mIdleTimes[l] = 0 <=> mRequests[l] = 0
    /\ l \in mBusy => mRequests[l] > 0 /\ mStarted[l] > 0
    /\ l \notin mBusy /\ mRequests[l] > 0 => mStarted[l] = 0 /\ mCompleted[l] = mLast[l] /\ mLast[l] > 0
    /\ mRequests[l] = 0 => mStarted[l] = Never /\ mLast[l] = 0

StatisticsInv ==
    /\ StatisticsType
    /\ ~mBlurred => \A l \in Instances : NotesFit(l)

MSpec == MInit /\ [][MNext]_mVars

\* Dividing by the length of a millisecond loses less than one.
LEMMA Milliseconds ==
    ASSUME NEW t \in Nat
    PROVE  t \div Milli \in Nat /\ t - (t \div Milli) * Milli \in 0 .. Milli - 1
           /\ (t >= Milli => t \div Milli > 0)
BY StatisticsAssumption

LEMMA StatisticsTypeStep ==
    StatisticsType /\ [MNext]_mVars => StatisticsType'
<1> SUFFICES ASSUME StatisticsType, [MNext]_mVars PROVE StatisticsType'
  OBVIOUS
<1> USE DEF StatisticsType, Everyone, Never
<1>1. CASE Tick
  BY <1>1 DEF Tick
<1>2. CASE ResetStatistics
  BY <1>2 DEF ResetStatistics
<1>3. ASSUME NEW l \in Instances, ProcessingStarted(l) PROVE StatisticsType'
  <2>1. TimeIdle(l) \in Nat
    BY DEF TimeIdle
  <2>2. TimeIdle(l) \div Milli \in Nat
    BY <2>1, Milliseconds
  <2> HIDE DEF TimeIdle
  <2>3. mIdleTimes' \in [Instances -> Nat]
    BY <1>3, <2>2 DEF ProcessingStarted
  <2>4. QED
    BY <1>3, <2>3 DEF ProcessingStarted
<1>4. ASSUME NEW l \in Instances, ProcessingComplete(l) PROVE StatisticsType'
  BY <1>4 DEF ProcessingComplete
<1>5. CASE UNCHANGED mVars
  BY <1>5 DEF mVars
<1>6. QED
  BY <1>1, <1>2, <1>3, <1>4, <1>5 DEF MNext

LEMMA NotesFitStep ==
    StatisticsInv /\ [MNext]_mVars => StatisticsInv'
<1> SUFFICES ASSUME StatisticsInv, [MNext]_mVars PROVE StatisticsInv'
  OBVIOUS
<1>t. StatisticsType /\ StatisticsType'
  BY StatisticsTypeStep DEF StatisticsInv
<1> SUFFICES ASSUME ~mBlurred', NEW k \in Instances PROVE NotesFit(k)'
  BY <1>t DEF StatisticsInv
<1>n. ~mBlurred => NotesFit(k)
  BY DEF StatisticsInv
<1>m. Milli \in Nat /\ Milli > 0
  BY StatisticsAssumption
<1>1. CASE Tick
  BY <1>1, <1>n, <1>t, <1>m DEF Tick, NotesFit, Behind, Since, StatisticsType
<1>2. CASE ResetStatistics
  BY <1>2 DEF ResetStatistics
<1>3. ASSUME NEW l \in Instances, ProcessingStarted(l) PROVE NotesFit(k)'
  <2>1. CASE k # l
    BY <1>3, <2>1, <1>n, <1>t, <1>m DEF ProcessingStarted, NotesFit, Behind, Since, StatisticsType
  <2>2. CASE k = l
    <3> DEFINE t == mNow - Since(k)
               q == t \div Milli
    <3>1. t \in Nat /\ t = TimeIdle(k)
      BY <1>t DEF TimeIdle, Since, StatisticsType
    <3>2. t >= Milli /\ ~mBlurred
      <4>1. (mBlurred \/ TimeIdle(k) < Milli) => mBlurred'
        BY <1>3, <2>2, Zenon DEF ProcessingStarted
      <4> HIDE DEF t
      <4>2. QED
        BY <4>1, <3>1, <1>m
    <3>3. q \in Nat /\ q > 0 /\ t - q * Milli \in 0 .. Milli - 1
      BY <3>1, <3>2, Milliseconds
    <3>4. k \notin mBusy /\ k \in mBusy' /\ mIdled' = mIdled /\ mIdleTimes'[k] = mIdleTimes[k] + q
          /\ mRequests'[k] = mRequests[k] + 1 /\ mStarted'[k] = mNow
      BY <1>3, <2>2, <3>1, <3>2, <1>m, <1>t DEF ProcessingStarted, StatisticsType
    <3>5. mIdled[k] \in Nat /\ mIdleTimes[k] \in Nat /\ mRequests[k] \in Nat /\ mNow \in Nat \ {0}
      BY <1>t DEF StatisticsType
    <3>6. mIdled[k] - t - mIdleTimes[k] * Milli \in 0 .. (Milli - 1) * mRequests[k]
      BY <1>n, <3>2, <3>4 DEF NotesFit, Behind
    <3> HIDE DEF t, q
    <3>7. Behind(k)' = mIdled[k] - (mIdleTimes[k] + q) * Milli
      BY <3>1, <3>3, <3>4, <3>5, <1>m DEF Behind
    <3>8. (mIdleTimes[k] + q) * Milli = mIdleTimes[k] * Milli + q * Milli
      BY <3>3, <3>5, <1>m
    <3>9. (Milli - 1) * (mRequests[k] + 1) = (Milli - 1) * mRequests[k] + (Milli - 1)
      BY <3>5, <1>m
    <3> DEFINE a == mIdleTimes[k] * Milli
               b == q * Milli
               c == (Milli - 1) * mRequests[k]
    <3>10. a \in Int /\ b \in Int /\ c \in Int
      BY <3>3, <3>5, <1>m
    <3>11. mIdled[k] - (a + b) \in 0 .. c + (Milli - 1)
      <4>1. mIdled[k] - t - a \in 0 .. c /\ t - b \in 0 .. Milli - 1
        BY <3>3, <3>6
      <4> HIDE DEF a, b, c
      <4>2. QED
        BY <4>1, <3>1, <3>5, <3>10, <1>m
    <3>12. Behind(k)' \in 0 .. (Milli - 1) * mRequests'[k]
      BY <3>4, <3>7, <3>8, <3>9, <3>11
    <3>13. QED
      BY <3>3, <3>4, <3>5, <3>12 DEF NotesFit
  <2>3. QED
    BY <2>1, <2>2
<1>4. ASSUME NEW l \in Instances, ProcessingComplete(l) PROVE NotesFit(k)'
  <2>1. CASE k # l
    BY <1>4, <2>1, <1>n, <1>t DEF ProcessingComplete, NotesFit, Behind, Since, StatisticsType
  <2>2. CASE k = l
    <3>1. k \in mBusy /\ k \notin mBusy' /\ mStarted'[k] = 0 /\ mCompleted'[k] = mNow /\ mLast'[k] = mNow
          /\ mNow' = mNow /\ mIdled' = mIdled /\ mIdleTimes' = mIdleTimes /\ mRequests' = mRequests
      BY <1>4, <2>2, <1>t DEF ProcessingComplete, StatisticsType
    <3>2. mNow > 0 /\ NotesFit(k)
      BY <1>4, <1>n, <1>t DEF ProcessingComplete, StatisticsType
    <3>3. Since(k)' = mNow
      BY <3>1, <3>2, <1>t DEF Since, StatisticsType
    <3>4. Behind(k)' = Behind(k)
      BY <3>1, <3>3, <1>t DEF Behind, StatisticsType
    <3>5. QED
      BY <3>1, <3>2, <3>4, <1>t DEF NotesFit, StatisticsType
  <2>3. QED
    BY <2>1, <2>2
<1>5. CASE UNCHANGED mVars
  BY <1>5, <1>n DEF mVars, NotesFit, Behind, Since
<1>6. QED
  BY <1>1, <1>2, <1>3, <1>4, <1>5 DEF MNext

\* What getStatistics() makes of the notes.
LEMMA NotesAreRead ==
    StatisticsInv => IdleIsMeasured
<1> SUFFICES ASSUME StatisticsInv, ~mBlurred, NEW l \in Instances
             PROVE  mIdled[l] - IdleTime(l) * Milli \in 0 .. (Milli - 1) * (mRequests[l] + 1)
  BY DEF IdleIsMeasured
<1>t. StatisticsType /\ NotesFit(l)
  BY DEF StatisticsInv
<1>m. Milli \in Nat /\ Milli > 0
  BY StatisticsAssumption
<1> DEFINE n == mRequests[l]
           i == mIdled[l]
           r == mIdleTimes[l]
           t == IF l \in mBusy THEN 0 ELSE mNow - Since(l)
           q == t \div Milli
<1>1. n \in Nat /\ i \in Nat /\ r \in Nat /\ t \in Nat
  BY <1>t DEF StatisticsType, Since
<1>2. q \in Nat /\ t - q * Milli \in 0 .. Milli - 1
  BY <1>1, Milliseconds
<1>3. i - t - r * Milli \in 0 .. (Milli - 1) * n
  BY <1>t DEF NotesFit, Behind
<1>4. IdleTime(l) = r + q
  <2>1. CASE n = 0
    BY <2>1, <1>t, <1>m, <1>1, <1>2 DEF NotesFit, IdleTime, Recorded, Current, Since, Never
  <2>2. CASE n # 0 /\ l \in mBusy
    <3>1. q = 0
      BY <2>2, <1>m
    <3>2. QED
      BY <2>2, <3>1, <1>t, <1>m, <1>1 DEF NotesFit, IdleTime, Recorded, Current
  <2>3. CASE n # 0 /\ l \notin mBusy
    BY <2>3, <1>t, <1>m, <1>1 DEF NotesFit, IdleTime, Recorded, Current, Since, StatisticsType
  <2>4. QED
    BY <2>1, <2>2, <2>3
<1> HIDE DEF n, i, r, t, q
<1>5. (r + q) * Milli = r * Milli + q * Milli /\ (Milli - 1) * (n + 1) = (Milli - 1) * n + (Milli - 1)
  BY <1>1, <1>2, <1>m
<1> DEFINE a == r * Milli
           b == q * Milli
           c == (Milli - 1) * n
<1>6. a \in Int /\ b \in Int /\ c \in Int
  BY <1>1, <1>2, <1>m
<1>7. i - t - a \in 0 .. c /\ t - b \in 0 .. Milli - 1
  BY <1>2, <1>3
<1> HIDE DEF a, b, c
<1>8. i - (a + b) \in 0 .. c + (Milli - 1)
  BY <1>1, <1>6, <1>7, <1>m
<1>9. QED
  BY <1>4, <1>5, <1>8 DEF a, b, c, n, i

\* What the invariant says is so from the start.
LEMMA StatisticsInvInit == MInit => StatisticsInv
<1>1. SUFFICES ASSUME MInit PROVE StatisticsInv
  OBVIOUS
<1>2. StatisticsType
  <2>1. mNow = 1 /\ mStartTime = 1 /\ mBusy = {} /\ mBlurred = FALSE
    BY <1>1 DEF MInit
  <2>2. mLast \in [Instances -> {0}] /\ mIdleTimes \in [Instances -> Nat] /\ mStarted \in [Instances -> {-1}]
        /\ mCompleted \in [Instances -> Nat] /\ mIdled \in [Instances -> Nat] /\ mRequests \in [Instances -> Nat]
    BY <1>1 DEF MInit, Everyone, Never
  <2>3. mLast \in [Instances -> 0 .. mNow] /\ mStarted \in [Instances -> Nat \cup {Never}]
    BY <2>1, <2>2 DEF Never
  <2>4. mBlurred \in BOOLEAN
    BY <2>1
  <2>5. mNow \in Nat \ {0} /\ mStartTime \in 1 .. mNow /\ mBusy \subseteq Instances
    BY <2>1
  <2>6. QED
    BY <2>2, <2>3, <2>4, <2>5 DEF StatisticsType
<1>3. \A l \in Instances : NotesFit(l)
  BY <1>1, StatisticsAssumption DEF MInit, NotesFit, Behind, Since, Everyone, Never
<1>4. QED
  BY <1>2, <1>3 DEF StatisticsInv

\* The idle time the controller is told is that of the listener, but for less than a millisecond
\* a request: for every length of a millisecond, every clock and any number of requests.
THEOREM IdleTimeIsMeasured ==
    MSpec => []IdleIsMeasured
<1>1. MInit => StatisticsInv
  BY StatisticsInvInit
<1>2. QED
  BY <1>1, NotesFitStep, NotesAreRead, PTL DEF MSpec

----------------------------------------------------------------------------
(* The controller *)

KSpec == KInit /\ [][KNext]_kVars

ControllerCommands == DOMAIN CommandLength
AllLetters == ControllerCommands \X (1 .. BufferSize - 1)
Before == {"start", "initialize", "serve"}

ControllerType ==
    /\ kMain \in Before \cup {"running", "crashed", "exit"}
    /\ kControl \in {"none", "ready", "reading", "left"}
    /\ kStream \in Seq(AllLetters)
    /\ kHeard \in Seq(ControllerCommands)
    /\ kQuiesce \in BOOLEAN /\ kWoken \in BOOLEAN
    /\ kTold \in Seq({"StatusReconnecting", "StatusReconnectionSuccess"}) /\ kLost \in Nat

\* The buffer is empty whenever recv() is called.
TalkFits ==
    /\ kMain \in Before => kControl = "none"
    /\ kControl = "reading" => kBuffer = Zeros
    /\ kHeard = kAlone
    /\ kQuiesce => kControl = "left" /\ kHeard # <<>> /\ kHeard[Len(kHeard)] = "QUIESCEANDSTOP"
    /\ kWoken <=> kControl = "left"

\* Before the service runs nothing is told; then all that is told is of the getMeta listener.
StatusFits ==
    /\ kMain \in Before => kTold = <<>> /\ kLost = 0 /\ kOnline = {"getMeta", "annotator"}
                           /\ kStatus # "Reconnecting"
    /\ kMain = "running" => (kStatus = "Reconnecting") = ("getMeta" \notin kOnline)
    /\ kMain = "running" /\ "log" \in kSockets =>
          /\ Len(kTold) = IF "getMeta" \in kOnline THEN 2 * kLost ELSE 2 * kLost - 1
          /\ \A i \in 1 .. Len(kTold) : kTold[i] = "StatusReconnecting" <=> i % 2 = 1

ControllerInv == ControllerType /\ TalkFits /\ StatusFits

\* A step of main, of the listeners or of the controller thread.
LEMMA ControllerCases ==
    ASSUME [KNext]_kVars, NEW P,
           ReadCommandLine => P, Connect => P, ConnectFails => P, CreateMonitor => P, CreateService => P,
           \A l \in {"getMeta", "annotator"} : ConnectionLost(l) => P,
           \A l \in {"getMeta", "annotator"} : ReconnectionSuccess(l) => P,
           SendCommand => P, SendZero => P, ReceiveCommand => P, ControllerGone => P,
           UNCHANGED kVars => P
    PROVE  P
BY DEF KNext

\* A command is heard exactly when the letters that came are all of one and nothing else: the
\* rest of the buffer is zero.
LEMMA CommandsAlone ==
    ASSUME NEW letters \in Seq(AllLetters), Len(letters) \in 1 .. BufferSize
    PROVE  /\ CommandIn(Received(Zeros, letters)) = {c \in ControllerCommands : letters = Letters(c)}
           /\ \A c, d \in CommandIn(Received(Zeros, letters)) : c = d
<1> DEFINE buffer == Received(Zeros, letters)
<1>a. /\ BufferSize \in Nat \ {0}
      /\ \A c \in ControllerCommands : CommandLength[c] \in 1 .. BufferSize - 1
  BY ControllerAssumption DEF ControllerCommands
<1>1. DOMAIN buffer = 1 .. BufferSize
      /\ \A i \in 1 .. BufferSize : buffer[i] = IF i \in 1 .. Len(letters) THEN letters[i] ELSE NoLetter
  <2>1. DOMAIN letters = 1 .. Len(letters)
    OBVIOUS
  <2>2. QED
    BY <2>1 DEF Received, Zeros
<1>2. \A i \in 1 .. Len(letters) : letters[i] \in AllLetters /\ letters[i] # NoLetter
  <2>1. \A x \in AllLetters : x # <<>>
    <3>1. \A c, i : <<c, i>> # <<>>
      <4>1. \A c, i : Len(<<c, i>>) = 2
        OBVIOUS
      <4>2. Len(<<>>) = 0
        OBVIOUS
      <4>3. QED
        BY <4>1, <4>2
    <3>2. ASSUME NEW x \in AllLetters PROVE \E c, i : x = <<c, i>>
      BY <3>2 DEF AllLetters
    <3>3. QED
      BY <3>1, <3>2
  <2>2. QED
    BY <2>1 DEF NoLetter
<1>3. ASSUME NEW c \in ControllerCommands
      PROVE  c \in CommandIn(buffer) <=> letters = Letters(c)
  <2>1. CommandLength[c] \in 1 .. BufferSize - 1
    BY <1>a
  <2>2. ASSUME c \in CommandIn(buffer) PROVE letters = Letters(c)
    <3>1. (\A i \in 1 .. CommandLength[c] : buffer[i] = <<c, i>>) /\ buffer[CommandLength[c] + 1] = NoLetter
      BY <2>2 DEF CommandIn
    <3>2. CommandLength[c] \in 1 .. Len(letters)
      BY <1>1, <1>a, <2>1, <3>1 DEF NoLetter
    <3>3. CommandLength[c] + 1 \notin 1 .. Len(letters)
      BY <1>1, <1>2, <1>a, <2>1, <3>1
    <3>4. Len(letters) = CommandLength[c]
      BY <2>1, <3>2, <3>3
    <3>5. \A i \in 1 .. Len(letters) : letters[i] = <<c, i>>
      <4>1. \A i \in 1 .. Len(letters) : i \in 1 .. BufferSize
        BY <1>a
      <4> HIDE DEF buffer
      <4>2. QED
        BY <1>1, <3>1, <3>4, <4>1
    <3>6. letters = [i \in 1 .. Len(letters) |-> letters[i]]
      OBVIOUS
    <3>7. QED
      BY <3>4, <3>5, <3>6 DEF Letters
  <2>3. ASSUME letters = Letters(c) PROVE c \in CommandIn(buffer)
    <3>1. Len(letters) = CommandLength[c] /\ \A i \in 1 .. CommandLength[c] : letters[i] = <<c, i>>
      BY <2>1, <2>3 DEF Letters
    <3>2. QED
      BY <1>1, <1>a, <2>1, <3>1 DEF CommandIn, ControllerCommands
  <2>4. QED
    BY <2>2, <2>3
<1>4. CommandIn(buffer) \subseteq ControllerCommands
  BY DEF CommandIn, ControllerCommands
<1>5. CommandIn(buffer) = {c \in ControllerCommands : letters = Letters(c)}
  BY <1>3, <1>4
<1>6. ASSUME NEW c \in CommandIn(buffer), NEW d \in CommandIn(buffer) PROVE c = d
  <2>1. letters[1] = <<c, 1>> /\ letters[1] = <<d, 1>>
    BY <1>5, <1>a DEF Letters
  <2>2. QED
    BY <2>1
<1>7. QED
  BY <1>5, <1>6

LEMMA ControllerTypeStep ==
    ControllerInv /\ [KNext]_kVars => ControllerType'
<1> SUFFICES ASSUME ControllerInv, [KNext]_kVars PROVE ControllerType'
  OBVIOUS
<1> USE DEF ControllerInv, ControllerType, Before, kStart, kState, kTalk
<1>1. CASE ReadCommandLine
  BY <1>1 DEF ReadCommandLine
<1>2. CASE Connect
  BY <1>2 DEF Connect
<1>3. CASE ConnectFails
  BY <1>3 DEF ConnectFails
<1>4. CASE CreateMonitor
  BY <1>4 DEF CreateMonitor
<1>5. CASE CreateService
  BY <1>5 DEF CreateService
<1>6. ASSUME NEW l \in {"getMeta", "annotator"}, ConnectionLost(l) PROVE ControllerType'
  <2>1. Told("StatusReconnecting") \in Seq({"StatusReconnecting", "StatusReconnectionSuccess"})
    BY DEF Told
  <2>2. CASE l = "getMeta"
    BY <1>6, <2>1, <2>2 DEF ConnectionLost
  <2>3. CASE l # "getMeta"
    BY <1>6, <2>3 DEF ConnectionLost
  <2>4. QED
    BY <2>2, <2>3
<1>7. ASSUME NEW l \in {"getMeta", "annotator"}, ReconnectionSuccess(l) PROVE ControllerType'
  BY <1>7 DEF ReconnectionSuccess, Told
<1>8. CASE SendCommand
  <2>1. PICK c \in ControllerCommands : kStream' = kStream \o Letters(c)
    BY <1>8 DEF SendCommand, ControllerCommands
  <2>2. Letters(c) \in Seq(AllLetters)
    <3>1. CommandLength[c] \in 1 .. BufferSize - 1 /\ BufferSize \in Nat
      BY ControllerAssumption DEF ControllerCommands
    <3>2. \A i \in 1 .. CommandLength[c] : <<c, i>> \in AllLetters
      BY <3>1 DEF AllLetters
    <3>3. QED
      BY <3>1, <3>2 DEF Letters
  <2>3. QED
    BY <1>8, <2>1, <2>2 DEF SendCommand
<1>9. CASE SendZero
  BY <1>9 DEF SendZero
<1>10. CASE ReceiveCommand
  <2> DEFINE max == IF Len(kStream) < BufferSize THEN Len(kStream) ELSE BufferSize
  <2>1. PICK n \in 1 .. max :
            LET letters == SubSeq(kStream, 1, n)
                heard == CommandIn(Received(kBuffer, letters))
            IN  /\ kStream' = SubSeq(kStream, n + 1, Len(kStream))
                /\ kHeard' = IF heard = {} THEN kHeard ELSE Append(kHeard, CHOOSE c \in heard : TRUE)
                /\ kQuiesce' = (kQuiesce \/ "QUIESCEANDSTOP" \in heard)
                /\ kWoken' = (kWoken \/ heard \cap Stops # {})
                /\ kControl' = IF heard \cap Stops # {} THEN "left" ELSE "reading"
    BY <1>10 DEF ReceiveCommand
  <2>2. kStream' \in Seq(AllLetters)
    BY <2>1, ControllerAssumption
  <2>3. kHeard' \in Seq(ControllerCommands)
    <3> DEFINE heard == CommandIn(Received(kBuffer, SubSeq(kStream, 1, n)))
    <3>1. heard \subseteq ControllerCommands
      BY DEF CommandIn, ControllerCommands
    <3>2. kHeard' = IF heard = {} THEN kHeard ELSE Append(kHeard, CHOOSE c \in heard : TRUE)
      BY <2>1
    <3> HIDE DEF heard
    <3>3. heard # {} => (CHOOSE c \in heard : TRUE) \in ControllerCommands
      BY <3>1
    <3>4. QED
      BY <3>2, <3>3
  <2>4. kControl' \in {"reading", "left"} /\ kQuiesce' \in BOOLEAN /\ kWoken' \in BOOLEAN
    BY <2>1
  <2>5. QED
    BY <1>10, <2>2, <2>3, <2>4 DEF ReceiveCommand
<1>11. CASE ControllerGone
  BY <1>11 DEF ControllerGone
<1>12. CASE UNCHANGED kVars
  BY <1>12 DEF kVars
<1>13. QED
  BY ONLY [KNext]_kVars, <1>1, <1>2, <1>3, <1>4, <1>5, <1>6, <1>7, <1>8, <1>9, <1>10, <1>11, <1>12, ControllerCases

\* Only handleCommands() hears; it leaves with the first command that stops the service.
LEMMA TalkFitsStep ==
    ControllerInv /\ [KNext]_kVars => TalkFits'
<1> SUFFICES ASSUME ControllerInv, [KNext]_kVars PROVE TalkFits'
  OBVIOUS
<1> USE DEF ControllerInv, ControllerType, TalkFits, Before, kStart, kState, kTalk
<1>1. CASE ReadCommandLine
  BY <1>1 DEF ReadCommandLine
<1>2. CASE Connect
  BY <1>2 DEF Connect
<1>3. CASE ConnectFails
  BY <1>3 DEF ConnectFails
<1>4. CASE CreateMonitor
  BY <1>4 DEF CreateMonitor
<1>5. CASE CreateService
  BY <1>5 DEF CreateService
<1>6. ASSUME NEW l \in {"getMeta", "annotator"}, ConnectionLost(l) PROVE TalkFits'
  BY <1>6 DEF ConnectionLost
<1>7. ASSUME NEW l \in {"getMeta", "annotator"}, ReconnectionSuccess(l) PROVE TalkFits'
  BY <1>7 DEF ReconnectionSuccess
<1>8. CASE SendCommand
  BY <1>8 DEF SendCommand
<1>9. CASE SendZero
  BY <1>9 DEF SendZero
<1>10. CASE ReceiveCommand
  <2> DEFINE max == IF Len(kStream) < BufferSize THEN Len(kStream) ELSE BufferSize
             letters(n) == SubSeq(kStream, 1, n)
             heard(n) == CommandIn(Received(kBuffer, letters(n)))
             whole(n) == {c \in DOMAIN CommandLength : letters(n) = Letters(c)}
  <2>1. PICK n \in 1 .. max :
            /\ kHeard' = IF heard(n) = {} THEN kHeard ELSE Append(kHeard, CHOOSE c \in heard(n) : TRUE)
            /\ kAlone' = IF whole(n) = {} THEN kAlone ELSE Append(kAlone, CHOOSE c \in whole(n) : TRUE)
            /\ kBuffer' = Zeros
            /\ kQuiesce' = (kQuiesce \/ "QUIESCEANDSTOP" \in heard(n))
            /\ kWoken' = (kWoken \/ heard(n) \cap Stops # {})
            /\ kControl' = IF heard(n) \cap Stops # {} THEN "left" ELSE "reading"
    BY <1>10 DEF ReceiveCommand, BufferAfter
  <2>2. kControl = "reading" /\ kBuffer = Zeros /\ ~kQuiesce /\ ~kWoken /\ kMain' = kMain /\ kMain \notin Before
    BY <1>10 DEF ReceiveCommand
  <2>3. letters(n) \in Seq(AllLetters) /\ Len(letters(n)) \in 1 .. BufferSize
    BY <2>1, ControllerAssumption
  <2>4. heard(n) = whole(n) /\ \A c, d \in heard(n) : c = d
    BY <2>2, <2>3, CommandsAlone DEF ControllerCommands
  <2> HIDE DEF letters, heard, whole, max
  <2>5. kHeard' = kAlone'
    BY <2>1, <2>4
  <2>6. kQuiesce' => kControl' = "left" /\ kHeard' # <<>> /\ kHeard'[Len(kHeard')] = "QUIESCEANDSTOP"
    <3>1. ASSUME kQuiesce' PROVE heard(n) = {"QUIESCEANDSTOP"}
      BY <2>1, <2>2, <2>4, <3>1
    <3>2. ASSUME heard(n) = {"QUIESCEANDSTOP"}
          PROVE  kControl' = "left" /\ kHeard' = Append(kHeard, "QUIESCEANDSTOP")
      BY <2>1, <3>2 DEF Stops
    <3>3. \A s \in Seq(ControllerCommands), c \in ControllerCommands :
              Append(s, c) # <<>> /\ Append(s, c)[Len(Append(s, c))] = c
      OBVIOUS
    <3>4. "QUIESCEANDSTOP" \in ControllerCommands
      BY ControllerAssumption DEF ControllerCommands
    <3>5. QED
      BY <3>1, <3>2, <3>3, <3>4
  <2>7. kWoken' <=> kControl' = "left"
    BY <2>1, <2>2
  <2>8. QED
    BY <2>1, <2>2, <2>5, <2>6, <2>7
<1>11. CASE ControllerGone
  BY <1>11 DEF ControllerGone
<1>12. CASE UNCHANGED kVars
  BY <1>12 DEF kVars
<1>13. QED
  BY ONLY [KNext]_kVars, <1>1, <1>2, <1>3, <1>4, <1>5, <1>6, <1>7, <1>8, <1>9, <1>10, <1>11, <1>12, ControllerCases

\* A loss and a return take turns, and each is told.
LEMMA StatusFitsStep ==
    ControllerInv /\ [KNext]_kVars => StatusFits'
<1> SUFFICES ASSUME ControllerInv, [KNext]_kVars PROVE StatusFits'
  OBVIOUS
<1> USE DEF ControllerInv, ControllerType, StatusFits, Before, kStart, kState, kTalk
<1>1. CASE ReadCommandLine
  BY <1>1 DEF ReadCommandLine
<1>2. CASE Connect
  BY <1>2 DEF Connect
<1>3. CASE ConnectFails
  BY <1>3 DEF ConnectFails
<1>4. CASE CreateMonitor
  BY <1>4 DEF CreateMonitor
<1>5. CASE CreateService
  BY <1>5 DEF CreateService
<1>6. ASSUME NEW l \in {"getMeta", "annotator"}, ConnectionLost(l) PROVE StatusFits'
  <2>1. kMain = "running" /\ kMain' = "running" /\ kSockets' = kSockets
    BY <1>6 DEF ConnectionLost
  <2>2. CASE l = "annotator"
    BY <1>6, <2>1, <2>2 DEF ConnectionLost
  <2>3. CASE l = "getMeta"
    <3>1. "getMeta" \in kOnline /\ "getMeta" \notin kOnline' /\ kStatus' = "Reconnecting" /\ kLost' = kLost + 1
          /\ kTold' = Told("StatusReconnecting")
      BY <1>6, <2>3 DEF ConnectionLost
    <3>2. ASSUME "log" \in kSockets
          PROVE  /\ Len(kTold') = 2 * kLost' - 1
                 /\ \A i \in 1 .. Len(kTold') : kTold'[i] = "StatusReconnecting" <=> i % 2 = 1
      <4>1. kTold' = Append(kTold, "StatusReconnecting")
        BY <3>1, <3>2 DEF Told
      <4>2. Len(kTold) = 2 * kLost /\ \A i \in 1 .. Len(kTold) : kTold[i] = "StatusReconnecting" <=> i % 2 = 1
        BY <2>1, <3>1, <3>2
      <4>3. Len(kTold') = Len(kTold) + 1
            /\ \A i \in 1 .. Len(kTold') : kTold'[i] = IF i = Len(kTold) + 1 THEN "StatusReconnecting" ELSE kTold[i]
        BY <4>1
      <4>4. (Len(kTold) + 1) % 2 = 1
        BY <4>2
      <4>5. ASSUME NEW i \in 1 .. Len(kTold') PROVE kTold'[i] = "StatusReconnecting" <=> i % 2 = 1
        <5>1. CASE i = Len(kTold) + 1
          BY <4>3, <4>4, <5>1
        <5>2. CASE i # Len(kTold) + 1
          <6>1. i \in 1 .. Len(kTold)
            BY <4>3, <5>2
          <6>2. QED
            BY <4>2, <4>3, <5>2, <6>1
        <5>3. QED
          BY <5>1, <5>2
      <4>6. QED
        BY <2>1, <3>1, <4>2, <4>3, <4>5
    <3>3. QED
      BY <2>1, <3>1, <3>2
  <2>4. QED
    BY <2>2, <2>3
<1>7. ASSUME NEW l \in {"getMeta", "annotator"}, ReconnectionSuccess(l) PROVE StatusFits'
  <2>1. kMain = "running" /\ kMain' = "running" /\ kSockets' = kSockets /\ kLost' = kLost
    BY <1>7 DEF ReconnectionSuccess
  <2>2. CASE l = "annotator"
    BY <1>7, <2>1, <2>2 DEF ReconnectionSuccess
  <2>3. CASE l = "getMeta"
    <3>1. "getMeta" \notin kOnline /\ "getMeta" \in kOnline' /\ kStatus' = "Running"
          /\ kTold' = Told("StatusReconnectionSuccess")
      BY <1>7, <2>3 DEF ReconnectionSuccess
    <3>2. ASSUME "log" \in kSockets
          PROVE  /\ Len(kTold') = 2 * kLost'
                 /\ \A i \in 1 .. Len(kTold') : kTold'[i] = "StatusReconnecting" <=> i % 2 = 1
      <4>1. kTold' = Append(kTold, "StatusReconnectionSuccess")
        BY <3>1, <3>2 DEF Told
      <4>2. Len(kTold) = 2 * kLost - 1 /\ \A i \in 1 .. Len(kTold) : kTold[i] = "StatusReconnecting" <=> i % 2 = 1
        BY <2>1, <3>1, <3>2
      <4>3. Len(kTold') = Len(kTold) + 1
            /\ \A i \in 1 .. Len(kTold') : kTold'[i] = IF i = Len(kTold) + 1 THEN "StatusReconnectionSuccess" ELSE kTold[i]
        BY <4>1
      <4>4. (Len(kTold) + 1) % 2 = 0
        BY <4>2
      <4>5. ASSUME NEW i \in 1 .. Len(kTold') PROVE kTold'[i] = "StatusReconnecting" <=> i % 2 = 1
        <5>1. CASE i = Len(kTold) + 1
          BY <4>3, <4>4, <5>1
        <5>2. CASE i # Len(kTold) + 1
          <6>1. i \in 1 .. Len(kTold)
            BY <4>3, <5>2
          <6>2. QED
            BY <4>2, <4>3, <5>2, <6>1
        <5>3. QED
          BY <5>1, <5>2
      <4>6. QED
        BY <2>1, <3>1, <4>2, <4>3, <4>5
    <3>3. QED
      BY <2>1, <3>1, <3>2
  <2>4. QED
    BY <2>2, <2>3
<1>8. CASE SendCommand
  BY <1>8 DEF SendCommand
<1>9. CASE SendZero
  BY <1>9 DEF SendZero
<1>10. CASE ReceiveCommand
  BY <1>10 DEF ReceiveCommand
<1>11. CASE ControllerGone
  BY <1>11 DEF ControllerGone
<1>12. CASE UNCHANGED kVars
  BY <1>12 DEF kVars
<1>13. QED
  BY ONLY [KNext]_kVars, <1>1, <1>2, <1>3, <1>4, <1>5, <1>6, <1>7, <1>8, <1>9, <1>10, <1>11, <1>12, ControllerCases

\* What the invariant says is so from the start.
LEMMA ControllerInvInit == KInit => ControllerInv
<1> SUFFICES ASSUME KInit PROVE ControllerInv
  OBVIOUS
<1>1. ControllerType
  <2>1. kQuiesce \in BOOLEAN /\ kWoken \in BOOLEAN
    BY DEF KInit
  <2>2. \A S : <<>> \in Seq(S)
    OBVIOUS
  <2>3. kStream = <<>> /\ kHeard = <<>> /\ kTold = <<>> /\ kLost = 0 /\ kMain = "start" /\ kControl = "none"
    BY DEF KInit
  <2>4. QED
    BY <2>1, <2>2, <2>3 DEF ControllerType, Before
<1>2. TalkFits
  BY DEF KInit, TalkFits
<1>3. StatusFits
  BY DEF KInit, StatusFits, Before, Unset
<1>4. QED
  BY <1>1, <1>2, <1>3 DEF ControllerInv

LEMMA ControllerInvStep == ControllerInv /\ [KNext]_kVars => ControllerInv'
BY ControllerTypeStep, TalkFitsStep, StatusFitsStep DEF ControllerInv

\* The connection to the controller, for every command line, every set of bounds and every way
\* recv() cuts the stream into pieces.
THEOREM ControllerInvariant ==
    KSpec => []ControllerInv
<1>1. KInit => ControllerInv
  BY ControllerInvInit
<1>2. ControllerInv /\ [KNext]_kVars => ControllerInv'
  BY ControllerInvStep
<1>3. QED
  BY <1>1, <1>2, PTL DEF KSpec

LEMMA ControllerInvImplies ==
    ControllerInv => CommandsAreHeard /\ StatusIsTold
<1> SUFFICES ASSUME ControllerInv PROVE CommandsAreHeard /\ StatusIsTold
  OBVIOUS
<1>1. CommandsAreHeard
  BY DEF ControllerInv, TalkFits, CommandsAreHeard
<1>2. StatusIsTold
  <2>1. DOMAIN kTold = 1 .. Len(kTold)
    BY DEF ControllerInv, ControllerType
  <2>2. QED
    BY <2>1 DEF ControllerInv, StatusFits, StatusIsTold
<1>3. QED
  BY <1>1, <1>2

\* What arrives whole and alone is carried out, and nothing else (handleCommands()).
THEOREM ControllerCommandsHeard ==
    KSpec => []CommandsAreHeard
BY ControllerInvariant, ControllerInvImplies, PTL

\* Every loss and return of the getMeta listener's connection is told once (reconnecting()).
THEOREM ControllerStatusTold ==
    KSpec => []StatusIsTold
BY ControllerInvariant, ControllerInvImplies, PTL
=============================================================================
