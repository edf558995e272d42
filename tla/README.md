# A verification project for UIMA C++ (uimacpp)

UIMA C++ runs text-analysis annotators. An application, or a service behind a
message broker, creates an *analysis engine* from a descriptor (a primitive that
wraps one annotator, written in C++, Java or a scripting language, or an
aggregate of delegates), fills a *CAS* (a heap of typed feature structures, its
views with their documents, and its indexes), and hands the CAS to the engine.
This directory holds TLA+ models of that program, TLC configurations that check
them on small instances, and theorems that the TLA+ proof system TLAPS checks for
all values of the constants.

`PROJECT.json` is the index: the components, the runs, the seeded faults
("mutants") every property must catch, the source lines each definition stands
for, the hazards, the findings and the theorems. In this text, paths are relative
to `src/src` of the repository unless they begin with `src/`.

To check a module: `tlc -config <run>.cfg MC<Module>.tla`, with the names in
section 3 (`ServiceLifecycle.tla` for the runs of the service, which needs no MC module). To check proofs: `tlapm <Module>_proofs.tla`.

## 1. Inventory

| Component (source) | State | Operations | Module |
|---|---|---|---|
| Service lifecycle (`utils/deployCppService.*`, `utils/ActiveMQAnalysisEngineService.*`) | Monitor counters and flags, one listener thread and connection per instance, the controller socket, process-wide shutdown flag | start, receive, reconnect, stop, quiesceAndStop, shutdown, cleanup, terminateService, signals, commands and status messages | `ServiceLifecycle`, `ServiceController`, `ServiceStatistics` |
| Request handling (same files) | per listener: CAS, engine, reply connections; Monitor: requests, errors, times | getMeta, process, collection complete, reply, error reply, statistics | `RequestHandling`, `ServiceStatistics` |
| Index repository (`cas/lowlevel_indexrepository.cpp`, `cas/lowlevel_internal_indexes.cpp`) | single indexes, composite caches, dirty flags, used types | add, remove, find, reset, hand over to serializers | `IndexRepository` |
| Iterators and filters (`cas/lowlevel_index*`, `cas/filter*.cpp`, `cas/cas.cpp`) | container, position, one iterator per component type | move in every direction, filters, subiterators | `IndexIterators` |
| Aggregate engine and annotator manager (`framework/internal_aggregate_engine.cpp`, `annotator_mgr.cpp`, `internal_engine_base.cpp`) | engine state, vector of delegates with capability containers, result specification | create, process, batch and collection complete, reinitTypeSystem, destroy, delete | `AggregateEngine`, `EngineContract` |
| Primitive engine (`framework/internal_primitive_engine.cpp`, `annotator.cpp`) | engine state, annotator, its library | the same on one annotator | delegates of `AggregateEngine`; `Resources` |
| CAS, views, sofas (`cas/cas.cpp`) | sofa index and counter, map of views, document copies, document annotations | createSofa, getView, createView, setSofaDataString, setDocumentText, reset, XMI load, deletion | `CasViews`, `ViewDirectory`, `CasLifetime` |
| Capabilities (`framework/internal_capability_container.cpp`) | inputs and outputs by language, with the closure over territories | build, query | `Capabilities` |
| Feature structures (`cas/lowlevel_fsheap.cpp`, `featurestructure.cpp`, `arrayfs.cpp`, `listfs.cpp`) | main heap, references, characters, longs, bytes | create, set, get, clone, list operations, reset | `FeatureStructures` |
| Type system, priorities, index definitions, comparators (`cas/lowlevel_typesystem.cpp`, `framework/casdefinition.cpp`) | types, features, hierarchy, priorities | create from a descriptor, commit, subsume, compare, send | `TypeSystem` |
| Serialization (`cas/xmi*.cpp`, `cas/xcas*.cpp`, `cas/internal_cas*serializer.cpp`) | numbering tables, out-of-typesystem data | write, read, reply | `XmiSerialization`, `XcasSerialization`, `BinarySerialization` over `CasGraph` |
| Descriptors (`framework/taespecifierbuilder.cpp`, `taespecifier.cpp`) | an analysis engine description | read, resolve imports, validate, commit, write | `Descriptors` |
| Annotator context, configuration parameters, CAS pool (`framework/annotator_context.cpp`, `caspool.cpp`) | declarations and settings in groups, sofa mappings, free CASes | extract and assign values, map names, get and release a CAS | `Configuration`, `AnnotatorContext` |
| Resource manager, log (`framework/resmgr.cpp`, `log.cpp`) | the singleton, its libraries and handlers, the log's mutex | init, load, unload, delete | `Resources` |
| Sofa streams (`cas/sofastream.cpp`) | position, address of the data | open, read, seek, close | `DataStreams` |
| Text utilities (`framework/unistrref.*`, `strtools.*`, `language.*`, `token_properties.*`, `filename.*`, `exceptions.cpp`) | values | search, compare, split, trim, replace, parse | `Text`, with definitions to compare with |
| Scripting annotators (`src/scriptators/`) | a shared interpreter, its lock, a thread | initialize, process, destroy | `ScriptAnnotators`, `ScriptThread` |
| Java bridge (`jni/jni.cpp`, `framework/internal_jedii_engine.cpp`) | the native object, its CAS and segments, the Java VM | native methods; engines written in Java | `JavaBridge`, `JavaEngine` |
| runAECpp (`utils/runAECpp.cpp`) | instances in threads, files, CASes | run over the input | `Driver` |
| Tests and examples | | read as documentation of what is intended | not modelled |

### How the components interact

The service's `main` creates an engine and a CAS per listener thread. A listener
receives a message, deserializes it into its own CAS (*serialization* into
*CAS views* and *index repository*), calls `process()` of its own engine, and
serializes the CAS for the reply. Threads share the `Monitor`, the process-wide
shutdown flag and the objects `main` deletes. An engine is made from a descriptor
(*Descriptors*), with a tree of contexts (*Annotator context*), a type system and
index definitions merged from all delegates (*Type system*), and annotators out of
shared libraries (*Resources*), Java or an interpreter. The aggregate calls its
delegates in the order of the flow, on the thread of its caller, each with the
view and the part of the result specification that the delegate's capabilities
allow. An annotator changes views and indexes through the public CAS interface.

So threads meet in the service, in the script annotator with a thread of its own,
in the interpreters and in `runAECpp -n`; below that the difficult part is long
sequences of legal calls, caches, and errors or exceptions half way.

### Hard behaviours and what makes each component correct

- *Service*: `Monitor::shutdown()` is a bare condition signal and main waits
  without a predicate; flags are read without a lock; an exception or a broken
  connection can arrive at any step; `main` may delete objects under a running
  thread. Correct: an orderly stop (every listener joined), no request abandoned
  half way, a stop that completes, no shutdown before its cause; a request is
  answered once, to who sent it, with nothing of an earlier one; what the Monitor
  reports agrees with what was done.
- *Index repository*: composite caches that stay filled while single indexes
  change; positions that rely on `lower_bound`; "used" flags that reset and
  serializers rely on; nested iterators over one shared cache; iterators that turn
  round in a merge. Correct: sorted order, nothing missing from an iteration,
  nothing left after reset, the serializer sees everything, an iterator is not
  disturbed by others and comes by each thing it should show once.
- *Engine*: errors and exceptions of a delegate in the middle of a loop,
  containers freed and rebuilt, creation that fails half way. Correct: everything
  initialized is released, in reverse order; a delegate is asked for exactly what
  is still wanted; the result tells the truth; calls return.
- *CAS*: two counters for one number space, the text of a document kept twice,
  views that outlive their sofa, names mapped by component. Correct: names find
  one sofa, views show the text of their sofa, document annotations fit, an
  annotation leads back to its own text.
- *Feature structures*: heaps that move when they grow and are used again after a
  reset; strings by reference; lists that share ends. Correct: every value reads as
  it was last written.
- *Serialization*: forward and unknown references, shared and embedded
  containers, numbers of sofas that differ, data kept for a reply. Correct: what is
  read is what was written; a reply keeps the identifiers it was sent.
- *Type system, descriptors, contexts, capabilities*: imports in circles, types before
  their supertypes, features that meet, chains of priorities that contradict,
  refusals half way, names mapped level by level. Correct: each definition
  arrives once or the whole is refused, and what a component asks for is what
  its ancestors gave it.
- *Hosts* (interpreters, VMs, libraries, streams, drivers): things with several
  users and one owner. Correct: nothing is used after it is gone, nobody waits for
  ever, input is read whole.

The 40 entries under "hazards" in `PROJECT.json` list these by line, with the
properties that catch each; an entry without a property says why. Smaller
hazards that are out of the models' scope are in section 6.

## 2. The modules

| Module | What it is |
|---|---|
| `ServiceLifecycle`, `ServiceLifecycle_proofs` | threads of the service |
| `RequestHandling`, `ServiceStatistics`, `ServiceController`, `ServiceHost_proofs` | what a listener does with a request; the times the Monitor keeps; the command line and the commands of the controller |
| `IndexRepository`, `IndexRepository_proofs` | indexes, caches, dirty flags of one view |
| `IndexIterators` | what those who read an index see: iterators, filters, subiterators |
| `EngineContract` | abstract: what any analysis engine promises its caller |
| `AggregateEngine`, `AggregateEngine_proofs` | an aggregate over delegates, shown to implement `EngineContract` |
| `ViewDirectory` | abstract: a CAS is a directory from names to texts |
| `CasViews`, `CasViews_proofs` | sofas, views and documents, shown to implement `ViewDirectory`; the proofs about `IndexIterators` are in the second as well |
| `FeatureStructures`, `FeatureStructures_proofs` | heaps, typed values, arrays, lists, and what each list call means for the sequences the lists are |
| `TypeSystem` | type system and index definitions, made, committed and sent |
| `CasGraph` | a CAS as a graph of feature structures, shared by the three formats |
| `XmiSerialization`, `XcasSerialization`, `BinarySerialization` | the formats, each with a sender, a reader element by element, and what comes back |
| `Descriptors` | a descriptor read, validated, committed, written |
| `Configuration`, `AnnotatorContext` | declarations and settings; contexts that inherit them, sofa names, the CAS pool |
| `Capabilities` | the capability container |
| `Configuration_proofs` | proofs about the last two rows |
| `Text` | text utilities as functions on sequences, and the definitions by positions they are compared with |
| `ScriptThread`, `ScriptAnnotators` | the thread of a script annotator; the shared interpreters |
| `JavaBridge`, `JavaEngine` | engines called from Java; engines written in Java |
| `Driver`, `Resources`, `DataStreams`, `CasLifetime` | runAECpp; libraries and log; sofa streams; deleting a CAS and its views |
| `Hosts_proofs` | proofs about the last three rows, and about all scenes of `MCHosts` together |
| `MC...` | the constants of the runs, and the scenes of those that put several modules together |

Small variants next to an operator, marked "Seeded fault" or "mutant" in their
comments (for instance `AdvanceTwice` beside `Advance`), are not part of any
specification: each is the form a plausible bug would give the operator that
follows it, kept so that one can see that a property notices it.

A run over several modules takes them as *scenes*: a behaviour belongs to one of
them and the variables of the others stay as they are, so the state space is the
sum of the scenes and not their product. Components whose interaction matters
are in one module: main, listeners and controller; the aggregate and its delegates;
the views and the sofas; a sender and its receiver; a description, the contexts over it and
a second engine made from it; engines, the libraries and the log.

### ServiceLifecycle

| Variables | Code |
|---|---|
| `mainPc`, `mainIdx`, `quiescing`, `skipped` | where `main` is (`deployCppService.cpp`: construct, start, wait, shutdown or quiesceAndStop, cleanup, terminateService); `skipped` are listeners `shutdown()` does not join since they are reconnecting |
| `quiesceFlag`, `numRunning`, `processcasErrors`, `monitorAlive` | `Monitor::iv_quiesceandstop`, `iv_numRunning`, `iv_processcasErrors`, `singleton_pMonitor` |
| `lpc`, `stopFlag`, `busy` | position of a listener thread in `receiveAndProcessMessages()`, `iv_stopProcessing`, `iv_busy` |
| `handles`, `broken`, `valid`, `reconnecting` | an `AMQConnection`: its handles, the library's view of it, `iv_valid`, `iv_reconnecting` |
| `cpc` | `handleCommands()` (with a Java controller) or `readstdin()` |
| `proc`, `abortCause`, `closed`, `cleanedUp`, `doneSent` | the process and what has been done to the objects it owns |
| `decremented`, `stopCauses`, `stopLost` | history |

Each action is a stretch of code between two points where another thread can
see the difference. `ScanBusy`, `SetStopFlag`, `JoinOrSkip` and `Join` are the
loops of `shutdown()` and `quiesceAndStop()`; `ReceiveThrows`, `ListenerFails`
and `DecrementRunning` are the exception paths of the receive loop; `Abort(c)` is
a step that uses a deleted object or a NULL handle.

Abstractions: one read or write of a flag or handle is atomic; a request is one
step with an outcome (`RequestHandling` is that step); once `cleanup()` has begun
a listener that is still there takes no step except to touch what was freed; the
overwrite of `iv_valid` by a late `onException()` is a step of its own.

### RequestHandling, ServiceStatistics, ServiceController

`pc[l]` is where a listener is between `receive()` and the next one: command
checks, deserialization, engine, serialization, reply, error reply, accounting.
`cas[l]`, `response[l]` and `message[l][b]` hold *whose* data is in the listener's
CAS, in its buffer and in the reply message it uses again, so that "nothing left over from an
earlier request" can be said. `connections[l]` is `iv_replyToConnections`: kept by the
broker a request names, but every one made by the `ConnectionFactory` of the service's own
broker, so that `Deliver` puts each reply on a queue there; `replies` records where it went.
The broker may refuse a connection (`initialize()` then tries again) and a connection may
break at any send.
`hindered` is history: requests the broker, or an exception nobody catches, kept
from being answered.

`ServiceStatistics` has a clock of `Milli` ticks to the code's millisecond and the
Monitor's `iv_idleTimes`, `iv_processingStarted`, `iv_processingComplete`;
`mIdled` is what a stopwatch would have measured.

`ServiceController` starts with `argv`: `ParseArgs`, the two sockets of
`initialize()`, the Monitor. `kStream` holds the letters of the commands on their
way, and `ReceiveCommand` takes any first part of it, up to the 16 letters of the
buffer `kBuffer`; what it holds is compared with the commands letter by letter.
`kAlone` is history: the commands that one `recv()` returned whole and alone. What
the controller sends in one go, or the network delivers in parts, is lost, and the
property says no more than the code does.

### IndexRepository, IndexIterators

`single[<<id, t>>]` is the content of the single index of type `t` for index id
`id` (`iv_tyStructures` or `iv_tyFIFO`), `cache` the content of `iv_cache` of a
composite index, `upToDate[t]` is `iv_cacheDirtyFlags[t]` (the composite indexes
for which `t` needs no refill; the code's name says the opposite), `used` is
`iv_usedIndexes` together with `iv_isUsed`, `undefined` is `iv_undefinedindex`. One iterator of
the program is followed (`reader`, `dangling`, `touched`) while others come and go.
`AddFS`, `RemoveFS`, `CreateIterator`, `Reset` are whole public calls, with all
single indexes they touch, the flags and the refill.

In `IndexIterators` the indexes hold what they hold: `single` is the sequence of
each type, `seq` the container under the iterator (the merge `iv_cache` of an
ordered index, the set and the bag cache), `shown` what types or a filter let
through (`TypeSets` and `Filters` are what there is to choose from), `pos` the place. `SubIterator`, `UnambiguousIterator` and
`UnAmbiguousSubIterator` of `cas/cas.cpp` are on top of it, in the same module.

Abstractions: the key of a feature structure is constant while it is indexed; in
`IndexRepository` a cache is a set, its order is `IndexIterators`'; adding and
removing by index id and `resetDefinitions()`, which have no callers, are left out.

### AggregateEngine and EngineContract

`op`, `pc`, `idx`, `rc`, `result` are the call in progress and the loop of the
`AnnotatorManager` it is in, one step per delegate; `entries` is the length of
`iv_vecEntries`; `engine`, `annotators`, `container` are each delegate's state,
what was done to its annotators, and its `iv_pCapabilityContainer`. `request`,
`resSpec`, `asked`, `answer` follow one `process()` call. Every delegate call can
return no error, return an error, or throw; every capability container can fail to be
built. A delegate is either a `PrimitiveEngine`, whose own handling of its
annotator is modelled, or opaque: known by `EngineContract` only. The theorem
that an aggregate keeps that contract is what makes nesting sound.

Abstractions: using a freed object ends the model with `undefined = TRUE`; an
opaque delegate that fails to initialize releases its own annotators; memory of
a destroyed annotator is not modelled; the CAS that is passed is a view;
running out of memory is left out, and so are CAS multipliers (`hasNext`, `next`)
and the creation of CASes. What a delegate outputs for a language is a constant;
`Capabilities` is how that is computed.

### CasViews and ViewDirectory

`sofaName`, `sofaText` are the sofa feature structures by number, `sofaCount`
is `iv_sofaCount`, `initialSofaCreated` the flag of that name, `views` the keys of
`iv_sofa2tcasMap`, `docText` the copy of the text in each view, `docSofa`,
`docEnd`, `docIndexed` its document annotation, `annSofa` and `index` the other
annotations. `component` is the annotator the CAS is with, whose context maps
local names (`SofaId`). The actions are the public calls: create a sofa or a view,
look views up by name, set a text in the two ways there are, annotate, ask for the view of
an annotation, reset, load the sofas of an XMI document.

Abstractions: callers do not use a view whose sofa a reset took away, the initial
view excepted, nor feature structures of before a reset; a text stands for its length too; NULL and
the empty text are merged; XMI is loaded into an empty CAS only;
`iv_sofa2indexMap` is one with the view; reading a feature of the null feature
structure ends the model.

### FeatureStructures

`heap`, `refs`, `chars`, `longs`, `bytes` are the heaps of `lowlevel::FSHeap`, each
with its top, its capacity and its cells: a cell of the main heap holds a number,
an address, or a place in another heap. Growth moves and repaints as
`lowlevel_internal_heap.hpp` does. `stored` is history, the value last written to each
slot; `list` are the list objects an application holds; `did` is the last list
call, which the property about lists reads. Floats, bytes, shorts and doubles are
stored like integers, booleans and longs.

### TypeSystem

`input` is a descriptor, `stage` the step of making it: types in the order given,
features, priorities, `commit()`, index definitions, then sending. `ts` has the
vectors of `lowlevel::TypeSystem`, `order` the priorities `commit()` computes,
`copy` the receiver. Comparison of feature structures by keys and by priorities is
an operator.

### CasGraph and the three formats

A CAS is a sequence of feature structures and the members of each view. A `sender` is
written as one of three documents, the receiver reads it element by element
(`todo`, `rd`), so that forward references and unknown types meet the tables as
they are in that moment. For XMI the receiver then changes nothing or one
reference and writes the reply with the `XmiSerializationSharedData` it kept.
A number in a document is what a stream prints: floats and doubles lose the digits
that six do not hold (`Printed`).

XCAS is read event by event: `XcasStartElement`, `XcasCharacters`, `XcasEndElement` and
`XcasFatalError` are the handler's functions, with its `iv_state`, its buffer and its two maps
of sofas, of numbers and of identifiers; the parser (`Events`, external) hands a text over in
pieces of any length. Besides what the writer makes, `Documents` are those
of version 1, where an annotation holds the number of its sofa, documents with one
text and no sofa, and documents that are not well formed. The states `FEAT_STATE`
and `FEAT_CONTENT_STATE`, which nothing enters, are left out. The binary formats have
their own senders: six heaps of cells, where a string is an offset and a length. A
`SerializedCAS` carries vectors and a table of strings, from which the heap of
strings is built anew; a blob is written byte by byte, each section filled up to a
multiple of four bytes (`Aligned`), after the caller has asked for its size and
perhaps changed the CAS. It may come from a machine of the other byte order or with
another version: the reader turns it round section by section (`SwapSection`), with
the 64-bit numbers that `swap8()` cuts off. Both are read into a CAS that holds
something already. `ByteRange` is 4 in the run, so an int has 256 values. The
reader counts the sofas anew from the members of the base index.

### Descriptors, Configuration, AnnotatorContext, Capabilities

`Descriptors` reads a document of sections (each a sequence of elements) as
`taespecifierbuilder.cpp` does: imports of types, indexes and priorities with
their lists of what was read, merging of types and features, groups of
parameters, delegates in line or in files; then `validate()`, `commit()` and the
writing of the whole and of the parts that travel to Java in buffers.
`Configuration` has the declarations, settings and fallback strategies as
operators on values; `AnnotatorContext` has them as the state of a tree of
contexts: `meta` and `mappings` belong to the descriptions and outlive an engine
(`Build`, `Destroy`), `sofaMap` to the live contexts, `free` and `filled` to the
pool. `Capabilities` fills the tables of a container and computes the closure over
territories and languages.

### Text utilities

Functions on sequences of code units, one for each function of the source, over
memory that goes on behind the end of a reference. The second half of `Text` says by
positions what each should give, and one property compares them for all short texts.

### ScriptThread and ScriptAnnotators

`tCaller` and `tWorker` are positions in `ThreadAnnotator`, with the one mutex and two
condition variables without predicates; a wait gives the mutex back whoever holds it.
In `ScriptAnnotators` every annotator has an engine and a thread; `sCount` is the count
that brings Python up and down, `sLock` the interpreter lock or Tcl's mutex. A
script may lack any function.

### JavaBridge and JavaEngine

`bInstance` is the number kept in the Java object, `bEngine`, `bCas`,
`bSerialized`, `bSegment` the members of `JNIInstance`; Java calls the native
methods in any order. `jVm` is the VM of the process, `jEngine[e]` what an engine
knows of it and whether it was the one that made it.

### Driver, Resources, DataStreams, CasLifetime

`Driver`: instances of `runAECpp`, each with its own CAS, over files that are or are not
read whole. `dCas` is the sequence of the files read since the CAS was reset, which only
the walk over a directory does: a text can be set again, so a single file comes into what
the runs before left. The branch of `process()` for backward compatible CASes is left out:
it asks the initial view, whose own count of sofas is never set, and is not entered. `Resources`: the manager, the libraries it
keeps, and engines whose annotators live in them; manager and engines are deleted
in any order. `DataStreams`: data is the sequence of its bytes, known by their
positions; a local stream over an array keeps the address in a heap that may move.
`CasLifetime`: the destructors of a base CAS and of its views, which call each other;
`lStack` is the stack of the calls, `lFreed` counts what was deleted.
External code (the interpreters, the VM, the broker client, the dynamic loader,
the handlers of a URI scheme) is modelled by the outcomes its callers handle.

## 3. The runs

| Run (`.cfg`) | Bounds | States | Properties |
|---|---|---|---|
| `service_safety` (`ServiceLifecycle`) | two annotator threads and the getMeta thread, Java controller, one request, one broken connection, spurious wakeups | 731,982 | `OrderlyStop`, `NoRequestAbandoned`, `NoPrematureShutdown`, `NoCrashWithoutBreak` |
| `service_liveness` (`ServiceLiveness`) | one annotator thread, stdin, two requests, one break, one signal | 138,944 | `StopCompletes` |
| `index_repository` (`IndexRepository`) | a chain of three types and one type without index; an ordered, a bag and a set index; four feature structures of two ranks; two entries per single index | 874,534 | `OrderKept`, `ReadersSeeAll`, `NothingOutlivesReset` |
| `aggregate_engine` (`AggregateEngine`) | three delegates (primitive, opaque, primitive on the base CAS), two types, two languages, three calls | 64,731 | `FailureIsContained`, `AskedUntilDelivered`, `ResultIsOfTheDelegates`, `TornDownInReverse`, `CallsReturn`, `KeepsContract` |
| `cas_views` (`CasViews`) | three sofa numbers, the initial name and two others, two texts, one annotation, an application and an annotator that swaps the two names; symmetric in texts and in the two names | 112,368 | `ViewsKeepToTheirSofas`, `CoveredTextIsOfItsSofa`, `KeepsDirectory` |
| `serialization` (`Serialization`) | CASes of up to three sofas in any order, two tokens that refer to each other, to a type the receiver lacks and to one container of each shape; XCAS documents of version 1 with up to three sofas and some that are broken off; vectors and blobs of both byte orders and two versions, read into a fresh and a used CAS; 1392 descriptors of up to three types | 56,972 | `XmiReadsBack`, `XmiReplies`, `XcasReadsBack`, `BinaryReadsBack`, `TypeSystemArrives` |
| `configuration` (`Configuration`) | four families of documents, five type files, four index files; three contexts in a chain with 512 combinations of declarations and 16 of mappings; two capabilities over five language codes and six document languages; every text of up to five units over alphabets of three | 268,397 | `DescriptionsServe`, `AssignmentIsRead`, `PoolIsExact`, `RefusalChangesNothing`, `CapabilitiesServe`, `TextUtilitiesAgree` |
| `feature_structures` (`FeatureStructures`) | two objects and a clone, two arrays of up to two elements, two chains of up to two nodes and two list objects, one reset; four feature structures in three indexes of three kinds, six filters, as annotations every subiterator | 97,091 | `HeapIsRead`, `ListsAreSequences`, `IndexesRead`, `IteratorsWalk` |
| `hosts` (`Hosts`) | eleven scenes: three calls of a script thread; two script annotators; two type systems, three documents, two segments; two Java engines; two driver instances, two runs, a directory of two files or a single one; two engines, one good and three bad libraries, two managers; streams of two elements; two listeners, three of nine requests, two brokers; eight ticks of a clock; two commands of a controller in any parts; a base CAS with up to three views, twice | 436,182 | `OneAtATime`, `UsedWhileItLives`, `JavaGetsItsDocument`, `InputIsReadWhole`, `RequestsAreAnswered`, `ControllerIsServed`, `ThreadCallsReturn` |
| `error_discarded`, `stale_cache`, `stop_overwritten` | the least that leads there | | findings, section 4 |

What each property says is at its definition; the composed ones
(`XmiReplies == XmiEchoes /\ XmiReplyIsSound` and so on) are at the end of the MC
module, their parts in the module they are about.

**Why the bounds are enough.** *Service*: the races are between main and one
listener, or between two annotators that both decrement the counter; a second
annotator and a second break add interleavings of independent threads, and the
safety invariants are proved for any number. *Indexes*: two structures of equal
rank and one of another, in one type, meet every case of `lower_bound`; three
types in a chain give two composite indexes that share components; a third entry
per single index would only move the positions `lower_bound` finds, and
`OrderKept` is proved for any length. *Engine*: three delegates give a first, a
middle and a last one, overlapping outputs and both kinds; three calls after
creation reach reinit after process, destroy after a failed reinit, and calls on a
destroyed engine. The fixed flow was explored too, with the same result. *CAS*: number 1 is
special, 2 and 3 make the counter matter; two texts tell an old one from a new
one; swapped names are the hardest mapping one component can have.
*Serialization*: a reference is backward, forward or to itself, to something known
or unknown, shared or embedded: two tokens, one stranger and one container meet
each pair of these; a third sofa makes the numbers of a document differ from
those of the receiver in both directions. *Type systems*: A, B, C suffice for a type before its
supertype, a feature on both sides of a chain, and priorities that go in a circle
with the tree. *Documents*: two files that import each other and one that each of
them and the document imports give every meeting of two paths. *Contexts*: the
third level is the first whose answer passes through a middle one. *Capabilities*:
one language with two territories and one without give every direction of the
closure. *Texts*: searches and splits differ by what is at the border and whether
units repeat; five units hold a pattern of two twice with something between.
*Feature structures*: initial capacities are small, so every heap grows
within the bound; a list shares its end with at most one other that matters.
*Iterators*: three types below each other with two equal keys turn the merge
round at every place. *Hosts*: one maker and one user of a VM, an interpreter or
a library; the third request of a listener finds what the first left behind
whatever the second did.

**Fairness.** The service has `FairSpec`: weak fairness of main, of each
listener and of the controller's last step. The operating system runs threads, and
`process()` and the calls of the broker client library are taken to return. Reconnecting, commands of the
controller, signals, breaks and callbacks are not fair: nothing makes the broker
come back or a peer write. The engine has `WF_vars(Step)`: a call runs on the
thread of its caller. The script thread has weak fairness of the caller in a call
and of the worker: both are threads, and scripts are taken to return.
`ThreadCallsReturn` excuses the behaviours in which the first call comes before the worker
waits (`tLate`): the constructor sleeps a millisecond and then only warns, and
the call waits for ever. The other modules claim no liveness.

**Deadlock** is checked for the index repository only. Elsewhere the system may
stop: a service that has exited or aborted, an engine that was deleted or used up its
calls, a CAS in which the null feature structure was read, a document that was read,
a text that was compared, a host that ended.

**Bounds named in guards**: `MaxRequests`, `MaxBreaks`, `MaxSignals`, `MaxLen`,
`MaxCalls`, `MaxSofas`, `MaxBuilds`, `MaxAssigns`, `MaxCells`, `MaxChars`, `MaxSide`,
`MaxResets`, `MaxWritten`, `MaxThreadCalls`, `MaxVersions`, `MaxSegments`, `MaxReinits`,
`MaxInput`, `MaxRuns`, `MaxOutputs`, `MaxManagers`, `MaxTime`, `MaxServed`, `Elements`,
`HeapCells`, `MaxCommands`, `MaxLost`, `MaxViews`, `MaxFamilies`. The theorems hold for all values of those that occur in them.

## 4. Findings

Each is a statement of a comment, a printed message or a test that the code does
not keep; the run finds the counterexample.

1. `stop_overwritten`: a listener thread that is scheduled late clears the stop
   flag that main has just set; main joins it for ever
   (`utils/ActiveMQAnalysisEngineService.cpp:839`).
2. `stale_cache`: `remove()` clears no flag, so an up-to-date composite cache
   still holds the removed structure (`cas/uima/lowlevel_indexrepository.hpp:266`). The
   existing test passes since its type has no subtypes.
3. `error_discarded`: the error id of an annotator's `process()` is dropped
   (`framework/internal_primitive_engine.cpp:206`).

More differences between code and documentation were met. The formula named in
each line is in the module of the component; it has no run, and TLC refutes it
when it is put in the place of the run's properties.

| Formula | What the code does |
|---|---|
| `TerminationHeeded` | passing the error threshold prints "Terminating the service.", but a service driven from stdin has main waiting for the stdin thread, and nobody is woken (`utils/deployCppService.hpp:721`) |
| `FailedReconnectRetried` | `receive()` marks the connection valid whether or not `reconnect()` succeeded (`utils/ActiveMQAnalysisEngineService.cpp:582`) |
| `RunningIsReported` | nothing calls `Monitor::running()`: a service that runs reports the status "Initializing" until it has lost its connection once (`utils/deployCppService.hpp:505`) |
| `StartsOrGivesUp` | `main()` does not look at the error codes of `initialize()`: with nobody at the controller's port it goes on without a Monitor and crashes (`utils/deployCppService.cpp:81`) |
| `IdleWithinUptime` | a listener's idle time counts from before the last `reset()`, so more idle time than time may be reported (`utils/deployCppService.hpp:521-525`, `:595`; the comment at `:589-592` says otherwise) |
| `RepliesReachTheirBroker` | the connection kept for "the specified broker" is made by the factory of the service's own broker, and the URL is only logged: the reply to a request that names another broker goes to a queue of the own one (`utils/ActiveMQAnalysisEngineService.cpp:619`, `:637`, `:140`; the header says otherwise at `:195-198` and `:227-228`) |
| `SofaIdsAreUnique` | `createSofa()` accepts the name of the initial view while that has no sofa, and `createInitialSofa()` does not look, so two sofas come to have one SofaID (`cas/cas.cpp:1126`; `cas/uima/cas.hpp:998-999`). The other names are unique: that is part of what is proved |
| `RemovedFromAll` | an ordered index erases what is at the lower bound, which may be another structure (`cas/lowlevel_internal_indexes.cpp:653`) |
| `LongestIsFound` | `getFirstCoveringAnnotation()` gives the shortest of those with the same begin, not the one with the "biggest end" (`cas/cas.cpp:1353-1356`) |
| `FailedInitReleasesAll` | when a capability container cannot be built the delegate just created is never deinitialized (`framework/internal_aggregate_engine.cpp:104`) |
| `ClonesCopyCommonOnly` | a clone of another type copies cells by offset, features the types do not share included (`cas/lowlevel_fsheap.cpp:153`; `featurestructure.hpp:173-178`) |
| `EqualStringsAreAccepted` | the comparison of the allowed strings is the wrong way round: a subtype of one string that is described twice alike is refused, and of two or more strings any others are accepted (`framework/casdefinition.cpp:147`) |
| `XmiListsComeBack` | the tail of a list that was written as a feature structure is read as an embedded list, whose one element is the node that follows (`cas/xmiwriter.cpp:823-825`; `xmideserializer_handler.cpp:936-951`, `:1141`) |
| `XcasUnknownIsNull` | a reference to an unknown element keeps the number of that element (`cas/xcasdeserializer_handler.cpp:881-884`) |
| `XcasContentStaysHome` | the content of an element of an unknown type is stored as a feature of the structure read before it (`cas/xcasdeserializer_handler.cpp:225-231`) |
| `BinaryKeepsViews` | the reader does not step over the count of an empty base index, and gives each view the members of the one before (`cas/internal_casdeserializer.cpp:638-641`, format in `internal_casserializer.cpp:406-420`) |
| `MappingsAreUpdated` | a delegate's sofa name that one mapping has rewritten is rewritten again by the next one (`framework/annotator_context.cpp:91-95`, `:101-105`) |
| `AcceptedIsRead` | a value is accepted by an ancestor that the asker does not read it from (`framework/uima/annotator_context.hpp:334-336`, `:419-421`) |
| `GroupNamesServe` | `extractValue()` throws for some of the groups that `getGroupNamesForParameter()` names (`framework/uima/annotator_context.hpp:313-322`) |
| `UnspecifiedServesAll` | outputs declared for every language are handed on to the others only when inputs are declared for it as well (`framework/internal_capability_container.cpp:256`, header `:142-152`) |
| `PartsAreReadBack` | nothing is appended for parts without elements, and nothing cannot be parsed (`framework/taespecifierbuilder.cpp:449`) |
| `LetterPairsAreValid` | a language code with an x is refused: the constant of legal letters has z twice (`framework/language.cpp:77`; `language.hpp:65-75`) |
| `SuffixesAreInside` | `endsWith()` compares a text that is longer than the reference with what stands in memory before it (`framework/uima/unistrref.hpp:1575-1585`, `:592-598`) |

An older one has no formula: `cas/uima/cas.hpp:565` and `:582` say that sofa data
is immutable once set, while the setters never refuse (there are TODOs in
`cas/cas.cpp`).

## 5. The proofs

All theorems hold for every value of the constants that the named assumptions
admit, each of which TLC evaluates on a run. Every invariant that takes part was
first checked by TLC. What the assumptions ask:

| Assumption | What it says, and why the code justifies it |
|---|---|
| `ParametersAssumption`, `AggregateAssumption`, `IndexAssumption`, `CasAssumption`, `LifetimeAssumption`, `BridgeAssumption`, `StreamsAssumption`, `StatisticsAssumption`, `ByteRangeAssumption` | the kinds of the constants: bounds are numbers, tables are functions, subsumption is reflexive and transitive (a tree of types), a millisecond has at least one tick, a byte an even number of values |
| `RequestsAssumption` | a message has an identity of its own; the service's own broker is one of the brokers |
| `ControllerAssumption` | there are the four commands `handleCommands()` compares with, each shorter than its buffer |
| `ScriptAssumption` | fewer script annotators than the counter of the interpreter's users can count |
| `ResourcesAssumption` | a library is not both good and missing |
| `LanguagesAssumption` | a language is two letters with or without a territory, or it is the unspecified one: what `Language::init()` makes of any text (`framework/language.cpp`) |
| `DescriptionsAssumption`, `PathOrderAssumption`, `GroupsAssumption` | every context has metadata with the members of `AnalysisEngineMetaData` and one of its three search strategies, and the pool a size; contexts are named by paths, groups by sequences of parts |
| `TypesAssumption` | the built-in types have the numbers of `internal_typeshortcuts.hpp` and their places in a tree of types; the primitive ones directly below the top; arrays and lists are no strings; arrays and empty lists have no features, other lists a head and a tail; a type has a feature once |
| `IteratorAssumption` | structures are finitely many positive addresses, each of a type of the table, with a rank under the comparator; an index names the types of its components, each once; a filter says yes, no or throws |
| `SpanAssumption` | the rank of an annotation is by its begin, then by its end, the longest first; nothing is said of two with one span, which type priorities may tell apart (the annotation index of `framework/casdefinition.cpp:303-317`) |
| `OffsetsAreInherited` | a type has the features of its supertypes, at the same offsets: the type system appends those a type adds (`cas/lowlevel_typesystem.cpp`) |
| `ValuesAssumption` | the characters of a string are not the end mark (`addString()` copies up to the length it is given, `setStringRef()` measures up to the mark); lengths of arrays are numbers |

**ServiceLifecycle** (any number of instances, requests, breaks and signals).
`OrderlyStop`, `NoRequestAbandoned`, `NoPrematureShutdown` and
`NoCrashWithoutBreak` are not inductive alone. `IInv` adds: `JoinInv`, the
listeners below main's loop index have exited or were skipped, and only `shutdown()`
skips; `ReconnectInv`, a listener marked reconnecting is inside `receive()` or has no
handle; `SkipInv`, a skipped listener has its stop flag set and cannot get another
request; `StartInv`, threads start in order, once; `CountInv`, `iv_numRunning` is
the number of instances less those that decremented it, all of which exited;
`BreakInv`, without a break every connection is usable and cleanup begins after every
thread ended. The proof has a lemma per part, by the actions that disturb it.

**IndexRepository** (any finite or infinite sets of types and structures).
`OrderKept` needs the facts about `lower_bound`: it exists in every sorted
sequence, and inserting there or removing there keeps order. `ReadersSeeAll` is the
conjunction of `NoneMissed`, `IteratorsStay` and `SerializersSeeAll`, with a theorem
each; they and `NothingOutlivesReset` need
`UsedInv` (what is not recorded as used is empty), `CoverInv` (a type whose flag
is set is covered by the cache), `FreshInv` (a clean non-empty cache has a used
type below it) and `OpenInv` (an untouched iterator reads a clean cache).

**AggregateEngine** (any flow, kinds, outputs, languages and number of calls).
`ControlInv` relates the call, its phase and its loop index. `SlotInv`: live annotators
belong to an entry that is ready for process and not yet passed by the teardown (or
were lost to a refusal), and a container dangles only after a refusal.
`RefusalInv`: without a refusal nothing undefined is used, and an entry is not ready
only during teardown or a failing reinit. `ProcessInv`: what the loop has asked,
delivered and answered so far. From them follow `FailureIsContained`
(`ReleasedWithTheEngine` and `UndefinedAfterRefusalOnly`), `AskedUntilDelivered`,
`ResultIsOfTheDelegates`, the order of
teardown as an action property, and `ContractIsKept`: every step of the aggregate
is a step of `EngineContract` or a stutter. `DelegatesAreKept` is `SlotInv` and
`RefusalInv` as a theorem.

**CasViews** (any names, texts, annotations, mapping and number of sofas). The
conjunction of its invariants and of `OthersNamedOnce` (no two sofas share a name other than the
initial one, see `SofaIdsAreUnique` in section 4) is inductive; `ViewsAreKept` is the theorem of
`ViewsKeepToTheirSofas`, whose five parts have theorems of their own. `DirectoryIsKept` refines to
`ViewDirectory` from it: names other than the initial one are unique, so
`getSofa(name)` finds the one sofa and a step changes the document of one name.

**The indexes, in CasViews_proofs** (any hierarchy of types, ranks, indexes and contents). `IndexesRead`
follows from `IteratorFits`: what an iterator is made over has the structures of its index, each once,
and in order if the index is. For a composite index that is what `clearAndFillCache()` computes. The
merge is a recursive function; `RecursionExists` gives any function defined along an interval by a step
that stays in a set, with the least number at which it would fail. Its invariant (`TurnKeeps`): what is in
the cache comes before all that is left to merge, and of cache and rest together nothing is lost or
doubled (`CutInTwo`, `JoinedAre`); the first of the iterators in order has the least that is left
(`FirstGrows`), so each turn takes at least one. `InOrder` stands for the bubble sort: there is an order
without inversions for any strict order (`CanBeOrdered`: the least number of inversions), and any of them
serves. For `IteratorsWalk` the invariant `WalkFits` adds that an iterator over annotations is over an
ordered index from which nothing is skipped, and stays in it (`PlacesWithin`, `LastIs`). A plain
iterator is at the least or greatest of the places it may show, on its side (`ForwardIs`, `BackwardIs`,
`PlainWalks`). The halving of `std::lower_bound` narrows to the one place where an annotation stands
(`LowerBoundIs`, `StandsOnce`); by the order of annotations, all that begin in its span are right behind
that place, one after the other (`BelowIs`), so that the first, the next and the last of the walk
are those of that stretch (`FirstEnds`, `NextEnds`, `LastEnds`). A subiterator is made at the end of
the index (`MadeEnds`), and where nothing is at or behind its annotation `moveTo()` leaves it there, with
nothing to show (`NothingIsBelow`). Only one that its caller's `moveTo()` has put above its annotation stays
there when it is sent to the first (`StaysAbove`); the property says so, and that is proved too.

**ServiceHost_proofs** (any requests, listeners, commands, brokers, clocks and
bounds). `RequestInv` has seven parts: `RequestType`; `OneListener`, a request is
with one listener from `receive()` to its end; `ResponseFits`, how far the listener
has come says what is in its CAS and in its response; `RepliesFit`, a reply is to a
request that arrived, the only one, and its listener has at most the accounting left;
`RepliesAreThere`; `RepliesKeepToTheirRequest`; `CountsFit`, the Monitor's counts are
the cardinalities of the requests that are done. `AnsweredOnce` and `CountsAgree`
follow; neither is inductive: the first needs to know where a request is, the second
what its listener is about to count. `StatisticsInv` says how far the recorded idle time is
behind the true one (`Behind`): less than a millisecond for each request, from which
`IdleIsMeasured` follows for every length of a millisecond. `ControllerInv`:
the buffer is empty whenever `recv()` is called (so a command that comes whole and alone is
recognised), what was heard came whole and alone, and of the messages that were told the
losses and the returns take turns.

**Hosts_proofs** has a section for each of the other components, with its invariant
`...Inv` and three lemmas (`...InvInit`, `...InvStep`, `...InvImplies`):

| Component | What the invariant adds to the property |
|---|---|
| `ScriptThread` | `BatonFits`: where the caller is says where the worker is, who has the mutex and how many calls were run, unless a baton was lost |
| `ScriptAnnotators` | the lock's owner is inside the interpreter and nobody else is; `UsersFit`: `refcount` is the number of annotators that use Python, and the interpreter is up while there is one |
| `JavaBridge` | `TypesFit`: definition, CAS and engine have the types given last; `PoolFits`: the free segments and the one in use are the numbers of the pool, each once |
| `JavaEngine` | `OrderFits`: engines are recorded in the order they were made; `VmFits`: in an orderly teardown only the first engine made the VM, and it is the last to go |
| `Driver` | `CasFits`: at each place of the loop, what is in the CAS: nothing of a directory's other files, and of a single file one reading per run |
| `Resources` | `LoadsFit`: a library is loaded once while the manager keeps it; `EnginesFit`: an engine that can be called has a manager that keeps its library |
| `DataStreams` | `SizeFits`, `PlaceFits`: the position of a caller who does not stray |
| `CasLifetime` | one formula for each state of the stack of destructors (`AtRest`, `ViewDeleted`, `BaseDeleted`, `NextDeleted`, `LastDeleted`), each with the exact parts that were deleted by then (`FreedAre`) |

`HostsInv` is the conjunction of the eleven invariants. `ScenesAreApart` says that a
step of one scene is a step of its component and leaves the other components alone, so
`HostsInvariant` is `MCSpec => []HostsInv`, and the six invariants of the run `hosts`
are theorems: for any number of annotators, engines, libraries, files, views,
segments, requests, and any bound. The excuses in the properties (`tLate`,
`sUnready`, `sRemade`, `bExcused`, `jOrderly`, `rEarly`, `yStrayed`, `mBlurred`) are history
variables: each records an order of calls, or a failure, that the code does not handle. The
model's actions set them, and they are part of the statements that are proved.

**Configuration_proofs** (any languages, types, declarations, trees of contexts and
sizes of pools). `TablesAreMade` says what the container's two tables hold at every
stage of `init()`: for each language the declarations of related languages, nothing
else, and at least its own; the copies for the unspecified language and the closure over
territories are folded into that one description, from which `CapabilitiesServe`
follows for every document language. `PoolFits`: the list of free CASes is a sequence
without repetition of numbers of the pool, none of them filled; `PoolIsExact` needs
its bounds. `RefusalChangesNothing` is an action property: `MetaFits` keeps `meta` a
function, `TopmostTakes` shows that when a component takes a value there is a topmost one (by the
least length of a path, which exists since the naturals are well founded), so a
refusal means that nobody took it and the metadata that were written back are those
that were read. `AssignmentIsRead` says what an accepted value is good for, and is not
inductive, since it does not say where the value is: `AssignmentIsKept` adds that the topmost
taker has the pair, in the group the assignment goes to. That stays so because an
assignment changes no declaration, and so not who takes the pair (`TakenAgain`). From there
to the reader: the first group that has a value of the name answers (`FirstGroupAnswers`,
for every fallback), and the answer of the keeper comes down (`VisibleIsFound`). The search
through the ancestors is a recursive function; that it exists is shown with the result it
should have as the witness, and that it has that result with the least level at which it would
not. The premise of the property is the least there is to say: nobody between throws, nobody
above the keeper finds a value. Without it the property fails
(`AcceptedIsRead`, which TLC refutes).

**FeatureStructures_proofs** (any type system, values, lengths, list objects and bounds).
`HeapIsRead` has two parts, that values read back and that the iterator over the heap sees
all, and neither is inductive. `EverythingFits` says that there is a set of list nodes with
which everything has its place: `HeapFits`, each of the five heaps is zero from its top
on (`createFS()` clears nothing, so this is what unset features rest on, and what
`reset()` has to keep); `Layout`, the structures lie one behind the other from the
first cell to the top; `ObjectsFit`, each slot has the cell its value asks for, in the main
heap or in a side heap, where `RefsApart` (no two slots share a reference to a
string, since writing a string points the reference at another one), `SidesApart` (no two arrays
share cells of a side heap) and `LongsApart` (no 64-bit feature is in the cells of an array) keep a write
from showing elsewhere; `NodesFit` and `HandlesFit`, what tails and list objects lead to is in
the heap. There is a lemma for each call. The walks of `removeElement()` and `getLastListElement()`,
and the iterator's, are recursive functions over an interval: that they exist, and stay
inside the heap, is proved with the least number for which they would not (`WalkExists`,
`WalkStays`), which needs no induction theorem. Clones are proved for the targets that
`copyFeatures()` does not assert against (`Careless = FALSE`, as in the run); sections 4
(`ClonesCopyCommonOnly`) and 6 say what the others do.

`ListsAreSequences` follows from the same invariant, for any number of list objects. It has the
premise that no list object leads into a circle before the call, and says nothing of those that do so after
it (`append()` refuses the list itself, but a list object further on in the same chain makes one). The argument is about paths: a
path from `a` is a sequence of places that begins at `a`, each the tail of the one before, and
ends at an empty list. There is at most one from each place, it never comes back to a place, `Chain` is
that path where `Ends` holds, and `Elements` reads its heads. A call either leaves all nodes
alone, or sets a head, or writes the tail of one node, sometimes of two. A path that avoids
the nodes written is a path afterwards with the same elements; one that comes to such a node is, up to the first
of them, what it was, and goes on as the new tail does. Two chains that end in the same node
are equal from the first node they share, which is why `addLast()` and `append()` show in exactly
the lists whose last node is the same. From there each call has one lemma, on the
sequence it makes of the list it is made on (`WithoutAt` for `removeElement()`, `\o` for the others),
and of every other list (`Expected`).

**Model-checked only**: the liveness properties `StopCompletes`, `CallsReturn`
and `ThreadCallsReturn` (liveness under fairness is out of the prover's reach), the
counterexamples, the properties of the run `serialization` and two of the run
`configuration`. `DescriptionsServe`,
`TextUtilitiesAgree`, `XmiReadsBack`, `XmiReplies`, `XcasReadsBack`, `BinaryReadsBack` and
`TypeSystemArrives` are about what folds and recursive functions
compute from a whole document, text or chain of sofa mappings. The library's induction
theorems take an operator as a parameter, which none of the installed provers can instantiate.
Where one recursive function over an interval is all there is, the least number at which it would
go wrong serves instead (`VisibleIsFound`, `WalkExists`, `RecursionExists`); for
documents written and read back by several recursions, one inside another, no such proof was
attempted. RECURSIVE operators are in `Descriptors` only, and nothing is proved about it.

## 6. Not modelled

The notes of the components in `PROJECT.json` name what each leaves out. In short:
XML parsing and escaping, formats of numbers and dates, code pages, directories and
console; the wording of messages; path expressions over several features, printing of heaps
and drawing of type systems; CAS multipliers inside an aggregate; an annotator's own `next()` that
throws after it took a CAS of the pool (`NextSegmentJNI` returns or refuses); a string feature set from a
reference into the heap of strings that grows for it; how the XMI writer treats the nodes of lists of
strings that are elements of their own (these are outside `Portable`, the CASes the round trip is
stated for); word tearing and reordering of unlocked accesses below the
level of one flag; spurious wake-ups in the script thread; running out of memory;
external libraries, except for the outcomes their callers handle; tests, examples
and build files.

What was seen in the code and is either outside the models or modelled without
a property of its own:

- *Service*: the loop over controller commands takes each `recv()` for one command
  (`utils/deployCppService.hpp:890`, modelled); a reply without a Command property would throw
  (`ActiveMQAnalysisEngineService.cpp:1190`); the time to send is added to the wrong
  counter (`:1033`); the error id of `process()` is not looked at (`:1008`, modelled).
- *Engine*: `batchProcessCompleteImpl()` runs `launchCollectionProcessComplete()`
  (`framework/internal_aggregate_engine.cpp:214`); `iv_componentInfo` is never cleared
  (`internal_primitive_engine.cpp:204`); `AnnotatorProxy::deInit()` leaks the
  annotator when its `destroy()` throws (`annotator.cpp:387`, modelled).
- *Index repository*: a feature structure without an index is never removed
  (`cas/uima/lowlevel_indexrepository.hpp:271`); what `std::unique` leaves behind
  its end is kept (`lowlevel_indexrepository.cpp:200`); a key changed while the
  structure is indexed (`lowlevel_internal_indexes.cpp:652`).
- *Iterators*: `moveTo()` of a filtered iterator ignores the filter
  (`lowlevel_index.cpp:173`); that of a bag lands behind what it sought; a type set
  iterator over an index of one type ignores its types; annotations of the same
  span before the anchor are shown by `moveToPrevious()` and not by `moveToFirst()`;
  the documentation of peek is swapped in `fsiterator.hpp`.
- *Feature structures*: the iterator over the heap steps wrongly over arrays in
  other heaps unless they have one element (`lowlevel_defaultfsiterator.hpp:146`);
  `clone()` of an array makes one cell; lists can be made circular; unset 64-bit
  features read what is in cell 0; a string is added before its subtype is checked.
- *Type system*: a key whose range is a string subtype pushes no kind
  (`lowlevel_indexcomparator.cpp:112`); a subtype described before its supertype
  with the same feature gets it twice; the XML reader refuses string subtypes.
- *Serialization*: the name the initial sofa had in version 1 is looked up in the buffer that
  holds the *name* of the attribute, and so never recognised as the initial view's
  (`xcasdeserializer_handler.cpp:357-359`, modelled); an XCAS document with a text and no sofa does
  not make its document annotation the view's; XMI is loaded right only into an empty CAS, since sofas are
  numbered from 2 (`xmideserializer_handler.cpp:604`); what is new behind an incoming
  structure that is not indexed is not written; `swap8()` keeps 32 bits
  (`internal_casdeserializer.cpp:735`); an empty byte array is never closed in XCAS.
- *Descriptors and contexts*: imports of delegates are not checked for circles;
  by-name imports of imported files are lost; without groups but with a fallback strategy, an optional
  parameter that has no value throws `NO_GROUPS_DEFINED` and hides the value of an aggregate
  (`taespecifier.cpp:372-384`, modelled); an aggregate without flow
  dereferences NULL; the conversion buffer is static and shared by threads
  (`taespecifierbuilder.cpp:74`, `:2221`); string values are not escaped when
  written; `releaseCAS()` does not check what it is given (`caspool.cpp:117`: the
  model's callers give back what they have).
- *Text*: `compare()` has the opposite sign of its documentation; equality stops at a
  NUL; an unpaired surrogate leaves a length uninitialized (`unistrref.cpp:347`);
  `strtrim()` of blanks runs below 0; replacing an empty text never ends.
- *Hosts*: `Py_NewInterpreter` is called without the lock; a script without
  `typeSystemInit` keeps the lock (`pythonnator_multi.cpp:279`, modelled); the result of
  `reinitTypeSystem()` is ignored (`jni.cpp:553`, modelled); `delete` for `delete[]`
  in the bridge; short and long heaps are not fetched back from Java; the single
  file mode of runAECpp never resets its CAS (`runAECpp.cpp:610-613`, modelled: with `-r 2` the
  engine is given the annotations of the first run as well); `isBackwardCompatibleCas()` is
  false of every view, the initial one included, since only the base CAS counts sofas
  (`cas/cas.cpp:1100-1102`; asked by `runAECpp.cpp:397` and `framework/annotator_mgr.cpp:488`); the log's mutex dangles after a manager was
  deleted and made again (`log.cpp`, modelled); the local stream returns bytes where the
  header says elements.

## 7. Plan

The order of what is left, the most consequential first:

1. `RequestHandling` shown to implement the single step `ServiceLifecycle` makes of
   a request, as a refinement with the phases of a request mapped to one.
2. `AggregateEngine`'s constant `Output` discharged by `Capabilities`, and
   `IndexRepository`'s `Subsumed` by `TypeSystem`.
3. CAS multipliers in the aggregate (`hasNext()`, `next()`) and array data in `CasViews`.
