----------------------------- MODULE CodeCache -----------------------------
(***************************************************************************)
(* cache/code_cache.py and the way Executor.run and run_module use it: the *)
(* modules generated for contracts, in memory and as files, the file a     *)
(* sandbox child loads, and the crashes, restarts and upgrades the files   *)
(* outlive.                                                                *)
(*                                                                         *)
(* Everything between two awaits runs alone in the event loop, but a child *)
(* is another process: it may read a file while the loop is inside         *)
(* write_text, which first truncates and then writes.  So put takes two    *)
(* steps here, and the job between them (writer) holds the loop.           *)
(***************************************************************************)
EXTENDS Naturals

CONSTANTS
    Job,         \* runs, each of which needs one module
    Context,     \* contracts, as far as the template sees them
    Host,        \* what upstream_base_url may resolve to (DEV_OFFLINE on or off)
    Template,    \* texts of the template shipped with an engine
    Nobody,      \* no job holds the event loop
    Nothing,     \* no module: not chosen, or no such file
    Torn,        \* a file opened for writing and not yet written
    MaxProcess   \* bound: restarts of the engine

ASSUME JobAssumption == Nobody \notin Job

ASSUME SourceAssumption ==
    /\ Torn # Nothing
    /\ Torn \notin [context : Context, host : Host, template : Template]
    /\ Nothing \notin [context : Context, host : Host, template : Template]

ASSUME BoundAssumption == MaxProcess \in Nat

VARIABLES
    memory,    \* CodeCache._memory: a source or Nothing, by key
    disk,      \* the files of CODE_CACHE_DIR: a source, Torn or Nothing, by key
    writer,    \* the job inside write_text, or Nobody
    pc,        \* where each job is
    wanted,    \* the contract each job runs
    source,    \* the module each job got or generated
    loaded,    \* what each job's child found in the file
    host,      \* the host this process resolves
    template,  \* the template this engine ships
    process    \* restarts so far

jobVars == <<pc, wanted, source, loaded>>
engineVars == <<host, template, process>>
vars == <<memory, disk, writer, jobVars, engineVars>>

Module == [context : Context, host : Host, template : Template]

\* generation_id digests the context, the host among it, and the template's NAME.
Key == [context : Context, host : Host]

\* Faulty variant of KeyOf: the contract alone, not the host it resolves to.
KeyOfContractAlone(c) == [context |-> c, host |-> CHOOSE h \in Host : TRUE]

KeyOf(c) == [context |-> c, host |-> host]

Generate(c) == [context |-> c, host |-> host, template |-> template]

TypeOK ==
    /\ memory \in [Key -> Module \cup {Torn, Nothing}]
    /\ disk \in [Key -> Module \cup {Torn, Nothing}]
    /\ writer \in Job \cup {Nobody}
    /\ pc \in [Job -> {"idle", "writing", "written", "started", "loaded", "failed"}]
    /\ wanted \in [Job -> Context \cup {Nothing}]
    /\ source \in [Job -> Module \cup {Torn, Nothing}]
    /\ loaded \in [Job -> Module \cup {Torn, Nothing}]
    /\ host \in Host
    /\ template \in Template
    /\ process \in Nat

Init ==
    /\ memory = [k \in Key |-> Nothing]
    /\ disk = [k \in Key |-> Nothing]
    /\ writer = Nobody
    /\ pc = [j \in Job |-> "idle"]
    /\ wanted = [j \in Job |-> Nothing]
    /\ source = [j \in Job |-> Nothing]
    /\ loaded = [j \in Job |-> Nothing]
    /\ host \in Host
    /\ template \in Template
    /\ process = 0

-----------------------------------------------------------------------------
\* get: the memory, then whatever the file holds; else generate.
Get(k) == IF memory[k] # Nothing THEN memory[k] ELSE disk[k]

\* Faulty variant of SourceFor: the cache is filled and never asked.
SourceAlwaysGenerated(c) == Generate(c)

SourceFor(c) == IF Get(KeyOf(c)) # Nothing THEN Get(KeyOf(c)) ELSE Generate(c)

\* Faulty variant of OpenForWrite: the memory is filled after the file.
OpenForWriteFileFirst(j, c) ==
    /\ pc[j] = "idle"
    /\ writer = Nobody
    /\ wanted' = [wanted EXCEPT ![j] = c]
    /\ source' = [source EXCEPT ![j] = SourceFor(c)]
    /\ disk' = [disk EXCEPT ![KeyOf(c)] = Torn]
    /\ writer' = j
    /\ pc' = [pc EXCEPT ![j] = "writing"]
    /\ UNCHANGED <<memory, loaded, engineVars>>

\* get, generate, and put up to the moment the file is open and empty.
OpenForWrite(j, c) ==
    /\ pc[j] = "idle"
    /\ writer = Nobody
    /\ wanted' = [wanted EXCEPT ![j] = c]
    /\ source' = [source EXCEPT ![j] = SourceFor(c)]
    /\ memory' = [memory EXCEPT ![KeyOf(c)] = SourceFor(c)]
    /\ disk' = [disk EXCEPT ![KeyOf(c)] = Torn]
    /\ writer' = j
    /\ pc' = [pc EXCEPT ![j] = "writing"]
    /\ UNCHANGED <<loaded, engineVars>>

\* The file or the generator raises before put, or the directory or the file cannot
\* be opened when put has filled the memory: run() reports it, and the file, if any,
\* is what it was.
OpenFails(j, c) ==
    /\ pc[j] = "idle"
    /\ writer = Nobody
    /\ wanted' = [wanted EXCEPT ![j] = c]
    /\ memory' \in {memory, [memory EXCEPT ![KeyOf(c)] = SourceFor(c)]}
    /\ pc' = [pc EXCEPT ![j] = "failed"]
    /\ UNCHANGED <<disk, writer, source, loaded, engineVars>>

CloseFile(j) ==
    /\ writer = j
    /\ disk' = [disk EXCEPT ![KeyOf(wanted[j])] = source[j]]
    /\ writer' = Nobody
    /\ pc' = [pc EXCEPT ![j] = "written"]
    /\ UNCHANGED <<memory, wanted, source, loaded, engineVars>>

\* Faulty variant of WriteFails: the job is left in a state run() does not have.
WriteFailsUnreported(j) ==
    /\ writer = j
    /\ writer' = Nobody
    /\ pc' = [pc EXCEPT ![j] = "lost"]
    /\ UNCHANGED <<memory, disk, wanted, source, loaded, engineVars>>

\* The disk is full when the file is open and empty: run() reports it, and the file
\* stays as it was left.
WriteFails(j) ==
    /\ writer = j
    /\ writer' = Nobody
    /\ pc' = [pc EXCEPT ![j] = "failed"]
    /\ UNCHANGED <<memory, disk, wanted, source, loaded, engineVars>>

\* After two awaits (code_generated, executing) the child is created ...
StartChild(j) ==
    /\ pc[j] = "written"
    /\ writer = Nobody
    /\ pc' = [pc EXCEPT ![j] = "started"]
    /\ UNCHANGED <<memory, disk, writer, wanted, source, loaded, engineVars>>

\* ... and some time later its interpreter opens the file.
ChildLoads(j) ==
    /\ pc[j] = "started"
    /\ loaded' = [loaded EXCEPT ![j] = disk[KeyOf(wanted[j])]]
    /\ pc' = [pc EXCEPT ![j] = "loaded"]
    /\ UNCHANGED <<memory, disk, writer, wanted, source, engineVars>>

\* The run is over, or was abandoned at an await; the next one may begin.
Forget(j) ==
    /\ pc[j] \in {"written", "started", "loaded", "failed"}
    /\ writer = Nobody
    /\ pc' = [pc EXCEPT ![j] = "idle"]
    /\ wanted' = [wanted EXCEPT ![j] = Nothing]
    /\ source' = [source EXCEPT ![j] = Nothing]
    /\ loaded' = [loaded EXCEPT ![j] = Nothing]
    /\ UNCHANGED <<memory, disk, writer, engineVars>>

\* clear_caches, at any await of any run.
Clear ==
    /\ writer = Nobody
    /\ memory' = [k \in Key |-> Nothing]
    /\ disk' = [k \in Key |-> Nothing]
    /\ UNCHANGED <<writer, jobVars, engineVars>>

\* The process ends, perhaps inside write_text, and another one starts: perhaps
\* a newer engine, perhaps with DEV_OFFLINE changed.  The files are still there.
Restart ==
    /\ process < MaxProcess
    /\ process' = process + 1
    /\ host' \in Host
    /\ template' \in Template
    /\ memory' = [k \in Key |-> Nothing]
    /\ writer' = Nobody
    /\ pc' = [j \in Job |-> "idle"]
    /\ wanted' = [j \in Job |-> Nothing]
    /\ source' = [j \in Job |-> Nothing]
    /\ loaded' = [j \in Job |-> Nothing]
    /\ UNCHANGED disk

Next ==
    \/ \E j \in Job :
          \/ \E c \in Context : OpenForWrite(j, c) \/ OpenFails(j, c)
          \/ CloseFile(j)
          \/ WriteFails(j)
          \/ StartChild(j)
          \/ ChildLoads(j)
          \/ Forget(j)
    \/ Clear
    \/ Restart

Spec == Init /\ [][Next]_vars

-----------------------------------------------------------------------------
(* Properties.                                                             *)

(* A child that loads a whole module loads the one made for the contract   *)
(* its run selected and for the host this process calls: never the code of *)
(* the contract's predecessor, never the offline module after DEV_OFFLINE  *)
(* was turned off, whatever files earlier processes left behind.           *)
RunsItsOwnContract ==
    \A j \in Job : loaded[j] \notin {Torn, Nothing} =>
        loaded[j].context = wanted[j] /\ loaded[j].host = host

(* A first process never takes a half-written file for a module: whatever  *)
(* failed or overlapped, its memory holds whole modules only, and a torn   *)
(* file is being written or will be rewritten from memory by the next run. *)
TornFilesAreHealed ==
    process = 0 => \A k \in Key :
        /\ memory[k] # Torn
        /\ disk[k] = Torn => memory[k] # Nothing

(* A file that holds a whole module holds the one that is in memory, if    *)
(* there is one (the file may also be torn, or never have been written):   *)
(* runs of one process, writes that fail, a clear_caches between them and  *)
(* files of an earlier engine never leave two versions of one module.      *)
WholeFileIsWhatMemoryHolds ==
    \A k \in Key :
        memory[k] # Nothing /\ disk[k] \notin {Torn, Nothing} => disk[k] = memory[k]

(* What get answers, key by key: memory and files together.                *)
Held == [k \in Key |-> Get(k)]

Store == INSTANCE ModuleStore WITH held <- Held

(* Memory and files are one store (ModuleStore): however writes fail and   *)
(* overlap with reads, a module once kept is what every later get of this  *)
(* process returns, until clear_caches; nothing but a restart can find it  *)
(* torn or gone, and no restart, upgrade or change of host puts another    *)
(* in its place.                                                           *)
IsOneStore == Store!Spec

(* "Digest of everything that decides the generated bytes": a child runs   *)
(* the module this engine would generate.                                  *)
RunsThisEnginesCode ==
    \A j \in Job : loaded[j] \notin {Torn, Nothing} => loaded[j] = Generate(wanted[j])

(* What the cache hands out is code that was generated, not the remains of *)
(* an interrupted write.                                                   *)
HandsOutGeneratedCode == \A j \in Job : source[j] # Torn
=============================================================================
