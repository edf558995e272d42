------------------------------- MODULE MCHosts -------------------------------
(***************************************************************************)
(* The hosts of the framework, each in a scene of its own: the thread of a *)
(* script annotator, script annotators, the Java bridge, engines in Java,  *)
(* runAECpp, the resource manager, sofa streams, the deletion of a CAS,    *)
(* and the requests of the service, its statistics and its controller.  A  *)
(* behaviour is one scene from its beginning; the variables of the others  *)
(* do not change.                                                          *)
(***************************************************************************)
EXTENDS ScriptThread, ScriptAnnotators, JavaBridge, JavaEngine, Driver, Resources, DataStreams, CasLifetime,
        RequestHandling, ServiceStatistics, ServiceController

CONSTANTS a1, a2, j1, j2, i1, i2, e1, e2

MCAnnotators == {a1, a2}
MCScripts == {sMethods, sMethods \ {"typeSystemInit"}, sMethods \ {"process"}}
MCBridgeStrings == <<"null", "empty", "text">>
MCJavaEngines == {j1, j2}
MCInstances == {i1, i2}
MCFiles == {[name |-> "old", whole |-> TRUE, sofas |-> {InitialSofa}],
            [name |-> "multi", whole |-> TRUE, sofas |-> {InitialSofa, "other"}],
            [name |-> "broken", whole |-> FALSE, sofas |-> {"other"}]}
MCEngines == {e1, e2}
MCBadLibraries == [missing |-> {"gone"}, noMaker |-> {"plain"}, noAnnotator |-> {"empty"}]
MCHandlerMaps == {<<>>, <<<<"file", "h1">>, <<"http", "">>>>, <<<<"file", "h1">>, <<"file", "h2">>>>}

(* Good and bad requests of every kind; one listener is for CASes, one for metadata. *)
MCRequest(id, command, text, payload, body, replyTo, from, uri) ==
    [id |-> id, command |-> command, text |-> text, payload |-> payload, body |-> body,
     replyTo |-> replyTo, from |-> from, uri |-> uri]

MCRequests ==
    {MCRequest(1, ProcessCas, TRUE, "XMI", "good", TRUE, TRUE, None),
     MCRequest(2, ProcessCas, TRUE, "XCAS", "good", FALSE, TRUE, "b1"),
     MCRequest(3, ProcessCas, TRUE, "XMI", "bad", FALSE, TRUE, "http"),
     MCRequest(4, ProcessCas, TRUE, "none", "good", TRUE, FALSE, None),
     MCRequest(5, ProcessCas, FALSE, "XMI", "good", TRUE, TRUE, None),
     MCRequest(6, CPC, TRUE, "none", None, FALSE, TRUE, "b1"),
     MCRequest(7, CPC, TRUE, "none", None, FALSE, FALSE, "b1"),
     MCRequest(8, GetMeta, TRUE, "none", None, FALSE, TRUE, "ssl"),
     MCRequest(9, GetMeta, TRUE, "none", None, FALSE, TRUE, "b2")}

MCCommands == [annotator |-> {ProcessCas, CPC}, getMeta |-> {GetMeta}]

\* Command lines from C++ and from the Java controller, with options before, between and after the names.
MCCommandLines ==
    {<<>>, <<"ae.xml", "queue", "-a", "TRUE", "-b">>,
     <<"-jport", "3", "ae.xml", "-n", "2", "queue">>, <<"-n", "2", "ae.xml", "queue", "other", "-jport", "3">>}
MCNumbers == [n \in {"2", "3"} |-> IF n = "2" THEN 2 ELSE 3]
MCCommandLength == [GETSTATS |-> 8, RESET |-> 5, QUIESCEANDSTOP |-> 14, SHUTDOWN |-> 8]

VARIABLE scene

Scenes == {"thread", "scripts", "bridge", "java", "driver", "resources", "streams", "requests", "statistics",
           "controller", "lifetime"}

\* The initial states of one scene; the other modules wait in one state of theirs.
MCInit ==
    /\ scene \in Scenes
    /\ TInit /\ RInit
    /\ SInit /\ (scene # "scripts" => sLanguage = "perl" /\ sDefines = [a \in ScriptAnnotator |-> sMethods])
    /\ BInit /\ JInit
    /\ DInit /\ (scene # "driver" => dAsked = [xml |-> TRUE, directory |-> TRUE, rand |-> FALSE, out |-> FALSE,
                                               runs |-> 1, files |-> {CHOOSE f \in DriverFiles : TRUE}, sofa |-> NoName,
                                               instances |-> {}])
    /\ YInit /\ (scene # "streams" => ySofa = [where |-> "local", kind |-> "string", size |-> 0])
    /\ Init /\ MInit /\ LInit
    /\ KInit /\ (scene # "controller" => kArgs = <<>>)

Thread == scene = "thread" /\ UNCHANGED <<scene, sVars, bVars, jVars, dVars, rVars, yVars, mVars, kVars, lVars, vars>>

MCNext ==
    \/ TNext /\ Thread
    \/ scene = "scripts" /\ SNext /\ UNCHANGED <<scene, tVars, bVars, jVars, dVars, rVars, yVars, mVars, kVars, lVars, vars>>
    \/ scene = "bridge" /\ BNext /\ UNCHANGED <<scene, tVars, sVars, jVars, dVars, rVars, yVars, mVars, kVars, lVars, vars>>
    \/ scene = "java" /\ JNext /\ UNCHANGED <<scene, tVars, sVars, bVars, dVars, rVars, yVars, mVars, kVars, lVars, vars>>
    \/ scene = "driver" /\ DNext /\ UNCHANGED <<scene, tVars, sVars, bVars, jVars, rVars, yVars, mVars, kVars, lVars, vars>>
    \/ scene = "resources" /\ RNext /\ UNCHANGED <<scene, tVars, sVars, bVars, jVars, dVars, yVars, mVars, kVars, lVars, vars>>
    \/ scene = "requests" /\ Next /\ UNCHANGED <<scene, tVars, sVars, bVars, jVars, dVars, rVars, yVars, mVars, kVars, lVars>>
    \/ scene = "statistics" /\ MNext /\ UNCHANGED <<scene, tVars, sVars, bVars, jVars, dVars, rVars, yVars, kVars, lVars, vars>>
    \/ scene = "controller" /\ KNext /\ UNCHANGED <<scene, tVars, sVars, bVars, jVars, dVars, rVars, yVars, mVars, lVars, vars>>
    \/ scene = "lifetime" /\ LNext /\ UNCHANGED <<scene, tVars, sVars, bVars, jVars, dVars, rVars, yVars, mVars, kVars, vars>>
    \/ scene = "streams" /\ YNext /\ UNCHANGED <<scene, tVars, sVars, bVars, jVars, dVars, rVars, mVars, kVars, lVars, vars>>

MCSpec ==
    /\ MCInit /\ [][MCNext]_<<scene, tVars, sVars, bVars, jVars, dVars, rVars, yVars, mVars, kVars, lVars, vars>>
    /\ WF_tVars(CallerSteps /\ Thread) /\ WF_tVars(WorkerSteps /\ Thread)

-----------------------------------------------------------------------------
(* Properties *)

\* Of the annotator thread and its caller one has the baton at a time, and a script annotator leaves
\* the interpreter's lock to the next one (ThreadAnnotator.h, pythonnator_multi.cpp).
OneAtATime == BatonIsPassed /\ ScriptsTakeTurns

\* An interpreter, a Java VM, an annotator library or what the views of a CAS share is there whenever
\* somebody uses it, whoever made it and whoever is destroyed first (the script annotators,
\* internal_jedii_engine.cpp, resmgr.cpp, cas.cpp).
UsedWhileItLives == InterpreterOutlivesItsUsers /\ CallsReachALivingVm /\ UsedWhileTheyLive /\ DeletedOnce

\* A document of Java is processed with the type system that came last, and the segments of the CAS
\* it is sent back in return to their pool (jni.cpp).
JavaGetsItsDocument == ProcessedWithTheTypesGiven /\ SegmentsAreReturned

\* runAECpp gives the engine of a directory one whole file at a time and of a single file what its
\* runs read so far, and a sofa's stream gives its reader the data of the sofa to the end and nothing
\* behind it (runAECpp.cpp, sofastream.cpp).
InputIsReadWhole == EngineSeesItsFile /\ ReadsStayInside

\* No request is answered twice, one that came over the service's own broker is answered there, and no
\* reply has anything left over from an earlier request (ActiveMQAnalysisEngineService.cpp).
RequestsAreAnswered == AnsweredOnce /\ RepliesKeepToTheirRequest

\* The controller is told what the listeners did, as to requests, errors, the time without a request
\* and the connection to the queue, and its commands are carried out (deployCppService.hpp).
ControllerIsServed == CountsAgree /\ IdleIsMeasured /\ StatusIsTold /\ CommandsAreHeard
=============================================================================
