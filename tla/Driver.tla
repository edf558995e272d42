-------------------------------- MODULE Driver --------------------------------
(***************************************************************************)
(* runAECpp, the program that runs an analysis engine over a file or a     *)
(* directory: one engine per instance, each with one CAS it uses for every *)
(* file and every run, in a thread of its own when there are several.      *)
(* A file is what its reader makes of it: whether it is read to its end,   *)
(* and the sofas the CAS then has.  The sofa to process is that of the     *)
(* command line, or none: process() asks isBackwardCompatibleCas() of the  *)
(* initial view, which newCAS() returns and whose own count of sofas is    *)
(* never anything but 0, so it is false and names no sofa.                 *)
(***************************************************************************)
EXTENDS Integers, Sequences, FiniteSets

CONSTANTS DriverInstances,   \* -n: the instances
          DriverFiles,       \* records [name, whole, sofas]
          MaxInput,          \* bound of the files of the directory
          MaxRuns,           \* -r: bound of the runs over the input
          MaxOutputs        \* bound of the CASes an engine gives out per file

InitialSofa == "_InitialView"
NoName == "NULL"
NoFile == [name |-> "none", whole |-> FALSE, sofas |-> {}]

VARIABLES
    dAsked,    \* the options of the command line
    dAt,       \* dAt[i]: where the instance is
    dRuns,     \* dRuns[i]: the runs it has begun
    dLeft,     \* dLeft[i]: the files of the directory left in this run
    dPicks,    \* dPicks[i]: -rand: the picks left in this run
    dFile,     \* dFile[i]: the file it processes
    dCas,      \* dCas[i]: what is in its CAS: the files read, in order
    dOut,      \* dOut[i]: the output CASes taken for the file
    dExit      \* "no", or why the program ended at once

dVars == <<dAsked, dAt, dRuns, dLeft, dPicks, dFile, dCas, dOut, dExit>>
dFiles == <<dLeft, dPicks>>

\* A text file is always read, and has one sofa, the initial one.
AsText(f) == [f EXCEPT !.whole = TRUE, !.sofas = {InitialSofa}]
Input == IF dAsked.xml THEN dAsked.files ELSE {AsText(f) : f \in dAsked.files}

\* main(): the options.  An output directory is refused with several instances; -rand is for a directory.
DInit ==
    /\ dAsked \in [xml : BOOLEAN, directory : BOOLEAN, rand : BOOLEAN, out : BOOLEAN,
                   runs : 1 .. MaxRuns, files : {F \in SUBSET DriverFiles : Cardinality(F) \in 1 .. MaxInput},
                   sofa : {NoName} \cup UNION {f.sofas : f \in DriverFiles}, instances : SUBSET DriverInstances]
    /\ dAsked.out => Cardinality(dAsked.instances) = 1
    /\ dAsked.directory \/ (~dAsked.rand /\ \E f \in DriverFiles : dAsked.files = {f})
    /\ dAt = [i \in DriverInstances |-> IF i \in dAsked.instances THEN "run" ELSE "ended"]
    /\ dRuns = [i \in DriverInstances |-> 0]
    /\ dLeft = [i \in DriverInstances |-> {}]
    /\ dPicks = [i \in DriverInstances |-> 0]
    /\ dFile = [i \in DriverInstances |-> NoFile]
    /\ dCas = [i \in DriverInstances |-> <<>>]
    /\ dOut = [i \in DriverInstances |-> 0]
    /\ dExit = "no"

dGoes(i, from, to) == dExit = "no" /\ dAt[i] = from /\ dAt' = [dAt EXCEPT ![i] = to]

\* exit(): all instances end with the process.
dExits(i, from, why) == /\ dExit = "no" /\ dAt[i] = from /\ dExit' = why
                        /\ UNCHANGED <<dAsked, dAt, dRuns, dFiles, dFile, dCas, dOut>>

----------------------------------------------------------------------------
(* processInputFiles() *)

\* The files of the directory; with -rand as many picks as it has files.
BeginRun(i) ==
    /\ dRuns[i] < dAsked.runs
    /\ dGoes(i, "run", "next")
    /\ dRuns' = [dRuns EXCEPT ![i] = @ + 1]
    /\ dLeft' = [dLeft EXCEPT ![i] = Input]
    /\ dPicks' = [dPicks EXCEPT ![i] = IF dAsked.rand THEN Cardinality(Input) ELSE 0]
    /\ UNCHANGED <<dAsked, dFile, dCas, dOut, dExit>>

TakeFile(i, f) ==
    /\ dGoes(i, "next", "read")
    /\ dFile' = [dFile EXCEPT ![i] = f]
    /\ UNCHANGED <<dAsked, dRuns, dCas, dOut, dExit>>

NextFile(i) ==
    /\ ~dAsked.rand
    /\ \E f \in dLeft[i] : TakeFile(i, f) /\ dLeft' = [dLeft EXCEPT ![i] = @ \ {f}]
    /\ UNCHANGED dPicks

\* The same file may be picked again.
PickFile(i) ==
    /\ dAsked.rand /\ dPicks[i] > 0
    /\ \E f \in dLeft[i] : TakeFile(i, f)
    /\ dPicks' = [dPicks EXCEPT ![i] = @ - 1]
    /\ UNCHANGED dLeft

\* A mutant: no file is followed by a reset.
CasKept(cas) == cas
\* Only the walk over a directory resets the CAS after a file.
CasAfterFile(cas) == IF dAsked.directory THEN <<>> ELSE cas

AfterFile(i) ==
    /\ dGoes(i, "after", "next")
    /\ dCas' = [dCas EXCEPT ![i] = CasAfterFile(@)]
    /\ dOut' = [dOut EXCEPT ![i] = 0]
    /\ UNCHANGED <<dAsked, dRuns, dFiles, dFile, dExit>>

\* collectionProcessComplete() at the end of each run, whatever became of its files.
EndRun(i) ==
    /\ IF dAsked.rand THEN dPicks[i] = 0 ELSE dLeft[i] = {}
    /\ dGoes(i, "next", "run")
    /\ UNCHANGED <<dAsked, dRuns, dFiles, dFile, dCas, dOut, dExit>>

\* destroy(), and the CAS and the engine are deleted.
EndInstance(i) ==
    /\ dRuns[i] = dAsked.runs
    /\ dGoes(i, "run", "ended")
    /\ UNCHANGED <<dAsked, dRuns, dFiles, dFile, dCas, dOut, dExit>>

----------------------------------------------------------------------------
(* process() *)

\* The reader of the format fills the CAS, whatever is in it: a text replaces the text of
\* the run before and leaves its annotations.  A document that is not well formed has filled
\* a part of it.
ReadFile(i) ==
    /\ dCas' = [dCas EXCEPT ![i] = Append(@, dFile[i])]
    /\ dGoes(i, "read", IF dFile[i].whole THEN "route" ELSE "after")
    /\ UNCHANGED <<dAsked, dRuns, dFiles, dFile, dOut, dExit>>

Unreadable(i) == ~dAsked.xml /\ dExits(i, "read", "unreadable")

\* The view of the sofa is processed.
FindsSofa(i) ==
    /\ dAsked.sofa \in dFile[i].sofas
    /\ dGoes(i, "route", "engine")
    /\ UNCHANGED <<dAsked, dRuns, dFiles, dFile, dCas, dOut, dExit>>

SofaNotFound(i) == dAsked.sofa \notin {NoName} \cup dFile[i].sofas /\ dExits(i, "route", "unknown")

\* Without a sofa the CAS of newCAS() is processed, the initial view.
UsesCas(i) ==
    /\ dAsked.sofa = NoName
    /\ dGoes(i, "route", "engine")
    /\ UNCHANGED <<dAsked, dRuns, dFiles, dFile, dCas, dOut, dExit>>

\* processAndOutputNewCASes() and the first hasNext(); an exception ends process().
EngineProcesses(i) ==
    /\ \E to \in {"outputs", "after"} : dGoes(i, "engine", to)
    /\ UNCHANGED <<dAsked, dRuns, dFiles, dFile, dCas, dOut, dExit>>

\* next(): a multiplier gives out a CAS of its pool.
NextOutput(i) ==
    /\ dOut[i] < MaxOutputs
    /\ dGoes(i, "outputs", "writing")
    /\ dOut' = [dOut EXCEPT ![i] = @ + 1]
    /\ UNCHANGED <<dAsked, dRuns, dFiles, dFile, dCas, dExit>>

\* writeXmi() and releaseCAS(); an exception of the writer ends process(): the CAS
\* is not released.
WriteOutput(i) ==
    /\ \E to \in {"outputs"} \cup {x \in {"after"} : dAsked.out} : dGoes(i, "writing", to)
    /\ UNCHANGED <<dAsked, dRuns, dFiles, dFile, dCas, dOut, dExit>>

\* No more outputs: the input CAS is written if there is an output directory.
WriteInput(i) ==
    /\ dGoes(i, "outputs", "after")
    /\ UNCHANGED <<dAsked, dRuns, dFiles, dFile, dCas, dOut, dExit>>

CannotWrite(i) ==
    /\ dAsked.out
    /\ \E from \in {"outputs", "writing"} : dExits(i, from, "unwritable")

----------------------------------------------------------------------------
DNext ==
    \E i \in DriverInstances :
        \/ BeginRun(i) \/ NextFile(i) \/ PickFile(i) \/ AfterFile(i) \/ EndRun(i) \/ EndInstance(i)
        \/ ReadFile(i) \/ Unreadable(i)
        \/ FindsSofa(i) \/ SofaNotFound(i) \/ UsesCas(i)
        \/ EngineProcesses(i) \/ NextOutput(i) \/ WriteOutput(i) \/ WriteInput(i) \/ CannotWrite(i)

DSpec == DInit /\ [][DNext]_dVars

----------------------------------------------------------------------------
\* What an engine is given of a directory is one file, read to its end: nothing of the files before
\* it, of one whose reading failed or of an earlier run is left in the CAS.  A single file is read
\* into the CAS of the runs before, so the engine is given what each of them read (runAECpp.cpp).
EngineSeesItsFile ==
    \A i \in DriverInstances :
        dAt[i] = "engine" =>
            /\ dFile[i].whole
            /\ dCas[i] = [n \in 1 .. (IF dAsked.directory THEN 1 ELSE dRuns[i]) |-> dFile[i]]
=============================================================================
