------------------------------ MODULE JavaBridge ------------------------------
(***************************************************************************)
(* The native methods of the Java class that hosts an engine: a Java       *)
(* object has a JNIInstance with an engine, its CAS, the segment (an       *)
(* output CAS of the pool) that Java works on and what was serialized of   *)
(* both.  Java describes the type system, fills the CAS, has it processed, *)
(* serialized and reads it, and steps through the segments.  Every         *)
(* exception becomes a Java exception: the call was "refused".             *)
(* The engine is AggregateEngine's; here it is ready or not, knows a type  *)
(* system and makes segments.                                              *)
(***************************************************************************)
EXTENDS Integers, Sequences

CONSTANTS
    PoolSize,       \* CASes the annotator asks for
    BridgeStrings,  \* [document -> its string: "null", "empty" or "text"]
    MaxVersions,    \* bound: type systems Java gives
    MaxSegments     \* bound: output CASes of a document

ASSUME BridgeAssumption == PoolSize \in Nat /\ MaxSegments \in Nat

VARIABLES
    bInstance,    \* the long field of the Java object: "none", "live", "dangling", "null"
    bEngine,      \* [at, types]: its state and the type system its annotators were told of
    bDefinition,  \* the type system of the engine's CAS definition
    bGiven,       \* the type system Java gave last
    bCas,         \* [types, doc]: the CAS, doc 0 when empty
    bText,        \* the string in the CAS
    bSerialized,  \* iv_serializedCAS: [doc, text]
    bSegment,     \* iv_pSegment: 0 or a CAS of the pool
    bSegmentData, \* iv_serializedSegment: 0 or the CAS it is of
    bFree,        \* iv_vecFreeInstances
    bLeft,        \* output CASes the annotator has left
    bLogger,      \* the Java logger, made once: "none", "deaf", "live"
    bExcused,     \* typeSystemInit threw, or annotators threw in it
    bLast         \* what the last call did: [call, ok, read], read being what Java got

bVars == <<bInstance, bEngine, bDefinition, bGiven, bCas, bText, bSerialized, bSegment,
           bSegmentData, bFree, bLeft, bLogger, bExcused, bLast>>
bData == <<bText, bSerialized>>
bPool == <<bSegment, bSegmentData, bFree, bLeft>>
bTypes == <<bDefinition, bGiven, bExcused>>
bObject == <<bInstance, bLogger>>

bDocuments == DOMAIN BridgeStrings
NoData == [doc |-> 0, text |-> "null"]
bReply(call, ok) == bLast' = [call |-> call, ok |-> ok, read |-> NoData]
Hosted == bInstance = "live" /\ bEngine.at # "none"

\* A null element of a Java array is a reference without a buffer, an empty string has one.
StringFromJava(s) == IF s = "null" THEN "unbuffered" ELSE s
\* JavaString makes no object for a reference without a buffer.
StringToJava(r) == IF r = "unbuffered" THEN "null" ELSE r

BInit ==
    /\ bInstance = "none" /\ bLogger = "none"
    /\ bEngine = [at |-> "none", types |-> 0]
    /\ bDefinition = 0 /\ bGiven = 0 /\ bExcused = FALSE
    /\ bCas = [types |-> 0, doc |-> 0] /\ bText = "unbuffered" /\ bSerialized = NoData
    /\ bSegment = 0 /\ bSegmentData = 0 /\ bFree = << >> /\ bLeft = 0
    /\ bLast = [call |-> "none", ok |-> TRUE, read |-> NoData]

\* The logger stays silent when a class or method of Java is missing or the level is unknown.
NewLogger == IF bLogger = "none" THEN {"deaf", "live"} ELSE {bLogger}

ConstructorJNI ==
    /\ bInstance = "none"
    /\ bInstance' = "live"
    /\ bLogger' \in NewLogger
    /\ bReply("constructor", TRUE)
    /\ UNCHANGED <<bEngine, bCas>> /\ UNCHANGED bData /\ UNCHANGED bPool /\ UNCHANGED bTypes

\* The description's own type system is version 1; the pool's CASes keep it for ever.
InitializeJNI ==
    /\ bInstance = "live" /\ bEngine.at = "none"
    /\ \/ /\ bEngine' = [at |-> "ready", types |-> 1]
          /\ bDefinition' = 1 /\ bGiven' = 1
          /\ bCas' = [types |-> 1, doc |-> 0]
          /\ bFree' = [i \in 1 .. PoolSize |-> i]
          /\ bReply("initialize", TRUE)
       \/ /\ bReply("initialize", FALSE)
          /\ UNCHANGED <<bEngine, bDefinition, bGiven, bCas, bFree>>
    /\ UNCHANGED <<bSegment, bSegmentData, bLeft, bExcused>> /\ UNCHANGED bData /\ UNCHANGED bObject

\* reinitTypeSystem(): told, refused (and the engine destroyed), or thrown and only logged.
\* A mutant: an engine that refuses is not destroyed.
ReinitializedAnyhow(e) ==
    { [engine |-> [e EXCEPT !.types = bGiven'], threw |-> FALSE],
      [engine |-> e, threw |-> FALSE],
      [engine |-> e, threw |-> TRUE] }
Reinitialized(e) ==
    { [engine |-> [e EXCEPT !.types = bGiven'], threw |-> FALSE],
      [engine |-> [e EXCEPT !.at = "destroyed"], threw |-> FALSE],
      [engine |-> e, threw |-> TRUE] }

\* Bad definitions throw with the type system in pieces.  What reinitTypeSystem() returns is
\* not looked at; the CAS is replaced by one of the new type system.
TypeSystemInitJNI ==
    /\ Hosted /\ bGiven < MaxVersions
    /\ bGiven' = bGiven + 1
    /\ \/ /\ bDefinition' = bGiven'
          /\ \E r \in Reinitialized(bEngine) : bEngine' = r.engine /\ bExcused' = r.threw
          /\ bCas' = [types |-> bDefinition', doc |-> 0]
          /\ bText' = "unbuffered"
          /\ bReply("typeSystemInit", TRUE)
       \/ /\ bDefinition' = 0
          /\ bExcused' = TRUE
          /\ bReply("typeSystemInit", FALSE)
          /\ UNCHANGED <<bEngine, bCas, bText>>
    /\ UNCHANGED bSerialized /\ UNCHANGED bPool /\ UNCHANGED bObject

\* deserializeData() replaces what was in the CAS.
FillCASJNI(d) ==
    /\ Hosted
    /\ bCas' = [bCas EXCEPT !.doc = d]
    /\ bText' = StringFromJava(BridgeStrings[d])
    /\ bReply("fillCAS", TRUE)
    /\ UNCHANGED <<bEngine, bSerialized>> /\ UNCHANGED bPool /\ UNCHANGED bTypes /\ UNCHANGED bObject

\* The result specification is read with the CAS's definition; the view must exist.  The
\* iterator over the output CASes is dropped: Java asks the engine for them itself.
ProcessJNI ==
    /\ Hosted /\ bCas.doc # 0
    /\ \/ /\ bEngine.at = "ready"
          /\ \E n \in 0 .. MaxSegments : bLeft' = n
          /\ bReply("process", TRUE)
       \/ /\ bReply("process", FALSE)
          /\ UNCHANGED bLeft
    /\ UNCHANGED <<bEngine, bCas, bSegment, bSegmentData, bFree>>
    /\ UNCHANGED bData /\ UNCHANGED bTypes /\ UNCHANGED bObject

\* The segments are left alone.
ResetJNI ==
    /\ Hosted
    /\ bCas' = [bCas EXCEPT !.doc = 0]
    /\ bText' = "unbuffered"
    /\ bSerialized' = NoData
    /\ bReply("reset", TRUE)
    /\ UNCHANGED bEngine /\ UNCHANGED bPool /\ UNCHANGED bTypes /\ UNCHANGED bObject

SerializeCASJNI ==
    /\ Hosted
    /\ bSerialized' = [doc |-> bCas.doc, text |-> StringToJava(bText)]
    /\ bReply("serializeCAS", TRUE)
    /\ UNCHANGED <<bEngine, bCas, bText>> /\ UNCHANGED bPool /\ UNCHANGED bTypes /\ UNCHANGED bObject

\* The parts Java asks for one by one.  serializeData() fills no table of definitions, the top
\* type is the instance's CAS's and says nothing of the data, and the document is never made.
Tables == {"typeInh", "featureDef", "featureOffset", "typeSymbols", "featureSymbols", "typePriorities",
           "indexId", "indexKind", "comparatorDef", "comparatorStart"}
GetSerializedCasData(which, data) ==
    CASE which \in Tables \cup {"document", "topType"} -> NoData
      [] which = "stringSymbol" -> data
      [] OTHER -> [data EXCEPT !.text = "null"]
AskedParts == {"typeInh", "document", "topType", "stringSymbol", "fsHeap"}

\* Nothing is refused: what was not serialized, or is of an earlier document, is read.
GetSerializedDataJNI(which) ==
    /\ Hosted
    /\ bLast' = [call |-> "getSerializedData", ok |-> TRUE, read |-> GetSerializedCasData(which, bSerialized)]
    /\ UNCHANGED <<bEngine, bCas>> /\ UNCHANGED bData /\ UNCHANGED bPool /\ UNCHANGED bTypes
    /\ UNCHANGED bObject

BatchProcessCompleteJNI ==
    /\ Hosted
    /\ \E ok \in BOOLEAN : (ok => bEngine.at = "ready") /\ bReply("batchProcessComplete", ok)
    /\ UNCHANGED <<bEngine, bCas>> /\ UNCHANGED bData /\ UNCHANGED bPool /\ UNCHANGED bTypes
    /\ UNCHANGED bObject

CollectionProcessCompleteJNI ==
    /\ Hosted
    /\ \E ok \in BOOLEAN : (ok => bEngine.at = "ready") /\ bReply("collectionProcessComplete", ok)
    /\ UNCHANGED <<bEngine, bCas>> /\ UNCHANGED bData /\ UNCHANGED bPool /\ UNCHANGED bTypes
    /\ UNCHANGED bObject

----------------------------------------------------------------------------
(* Segments *)

\* An aggregate never has one.
HasNextSegmentJNI ==
    /\ Hosted
    /\ bReply("hasNextSegment", PoolSize > 0 /\ bLeft > 0)
    /\ UNCHANGED <<bEngine, bCas>> /\ UNCHANGED bData /\ UNCHANGED bPool /\ UNCHANGED bTypes
    /\ UNCHANGED bObject

\* JNIInstance::releaseSegment(): back to the pool, which resets it, and the copy is dropped.
FreeAfterRelease == IF bSegment # 0 THEN Append(bFree, bSegment) ELSE bFree

ReleaseSegmentJNI ==
    /\ Hosted
    /\ bFree' = FreeAfterRelease
    /\ bSegment' = 0
    /\ bSegmentData' = IF bSegment # 0 THEN 0 ELSE bSegmentData
    /\ bReply("releaseSegment", TRUE)
    /\ UNCHANGED <<bEngine, bCas, bLeft>> /\ UNCHANGED bData /\ UNCHANGED bTypes /\ UNCHANGED bObject

\* The last segment goes back first; the annotator takes a CAS of the pool, which throws when there is none.
\* One that throws after it took a CAS, which is then its own to release, is left out.
NextSegmentJNI ==
    /\ Hosted /\ PoolSize > 0 /\ bLeft > 0
    /\ IF FreeAfterRelease # << >>
       THEN /\ bSegment' = Head(FreeAfterRelease)
            /\ bFree' = Tail(FreeAfterRelease)
            /\ bLeft' = bLeft - 1
            /\ bReply("nextSegment", TRUE)
       ELSE /\ bSegment' = 0 /\ bFree' = FreeAfterRelease
            /\ bReply("nextSegment", FALSE)
            /\ UNCHANGED bLeft
    /\ bSegmentData' = IF bSegment # 0 THEN 0 ELSE bSegmentData
    /\ UNCHANGED <<bEngine, bCas>> /\ UNCHANGED bData /\ UNCHANGED bTypes /\ UNCHANGED bObject

SerializeSegmentJNI ==
    /\ Hosted /\ bSegment # 0
    /\ bSegmentData' = bSegment
    /\ bReply("serializeSegment", TRUE)
    /\ UNCHANGED <<bEngine, bCas, bSegment, bFree, bLeft>>
    /\ UNCHANGED bData /\ UNCHANGED bTypes /\ UNCHANGED bObject

\* The copy was dropped with its segment: then there is nothing to read.
GetSerializedSegmentDataJNI(which) ==
    /\ Hosted
    /\ bLast' = [call |-> "getSerializedSegmentData", ok |-> TRUE,
                 read |-> GetSerializedCasData(which, [NoData EXCEPT !.doc = bSegmentData])]
    /\ UNCHANGED <<bEngine, bCas>> /\ UNCHANGED bData /\ UNCHANGED bPool /\ UNCHANGED bTypes
    /\ UNCHANGED bObject

----------------------------------------------------------------------------
(* The end *)

\* An engine that is destroyed already refuses, and nothing is deleted.
DestroyJNI ==
    /\ Hosted
    /\ \/ /\ bEngine.at = "ready"
          /\ bInstance' = "null"
          /\ bEngine' = [bEngine EXCEPT !.at = "none"]
          /\ bReply("destroy", TRUE)
       \/ /\ bEngine' = [bEngine EXCEPT !.at = "destroyed"]
          /\ bReply("destroy", FALSE)
          /\ UNCHANGED bInstance
    /\ UNCHANGED <<bCas, bLogger>> /\ UNCHANGED bData /\ UNCHANGED bPool /\ UNCHANGED bTypes

\* The field keeps the pointer; the engine and the CAS are not deleted.
DestructorJNI ==
    /\ bInstance \in {"live", "null"} /\ bEngine.at # "ready"
    /\ bInstance' = IF bInstance = "live" THEN "dangling" ELSE "null"
    /\ bReply("destructor", TRUE)
    /\ UNCHANGED <<bEngine, bCas, bLogger>> /\ UNCHANGED bData /\ UNCHANGED bPool /\ UNCHANGED bTypes

BNext ==
    \/ ConstructorJNI \/ InitializeJNI \/ TypeSystemInitJNI
    \/ \E d \in bDocuments : FillCASJNI(d)
    \/ ProcessJNI \/ ResetJNI \/ SerializeCASJNI
    \/ BatchProcessCompleteJNI \/ CollectionProcessCompleteJNI
    \/ HasNextSegmentJNI \/ NextSegmentJNI \/ SerializeSegmentJNI \/ ReleaseSegmentJNI
    \/ \E which \in AskedParts : GetSerializedDataJNI(which) \/ GetSerializedSegmentDataJNI(which)
    \/ DestroyJNI \/ DestructorJNI

BSpec == BInit /\ [][BNext]_bVars

----------------------------------------------------------------------------
(* A document that was processed was processed by annotators that know the
   type system Java gave last, in a CAS of that type system: an engine that
   refuses it refuses the document.  Only annotators that throw, which
   nobody is told of, work on with what they knew. *)
ProcessedWithTheTypesGiven ==
    bLast.call = "process" /\ bLast.ok /\ ~bExcused =>
        bEngine.types = bGiven /\ bDefinition = bGiven /\ bCas.types = bGiven

(* However Java mixes documents, segments and releases: a CAS of the pool is
   free or is the segment, there is always one for the next segment, and the
   copy Java reads is of the segment it has. *)
SegmentsAreReturned ==
    /\ bLast.call = "nextSegment" => bLast.ok
    /\ bSegmentData # 0 => bSegmentData = bSegment
    /\ bFree # << >> \/ bSegment # 0 =>
          /\ {bFree[i] : i \in DOMAIN bFree} \cup ({bSegment} \ {0}) = 1 .. PoolSize
          /\ Len(bFree) + (IF bSegment = 0 THEN 0 ELSE 1) = PoolSize
=============================================================================
