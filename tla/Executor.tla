----------------------------- MODULE Executor -----------------------------
(***************************************************************************)
(* engine/executor.py: Executor.run as concurrent coroutines of one event  *)
(* loop, over the catalog, the result cache, the code cache and the        *)
(* sandbox child of each run.                                              *)
(*                                                                         *)
(* Between two awaits a coroutine runs alone, so one action is the code    *)
(* from one await to the next: it emits the event it then waits on, and    *)
(* pc[r] names that event.  While a run waits, other runs, the operator's  *)
(* refresh_registry and clear_caches, the clock, the upstream and the      *)
(* sandbox children move.                                                  *)
(***************************************************************************)
EXTENDS Contracts, Sequences

CONSTANTS
    Run,            \* calls of Executor.run
    Catalog,        \* the catalogs load_catalog may build: [Tool -> Contract or NoContract]
    NoContract,     \* Catalog.get raises KeyError
    NoToken,        \* the client sent no approval token
    ClientToken,    \* what a client may send besides the tokens it was given
    Nothing,        \* None: no call, entry, module or answer yet
    Forever,        \* expires_at None
    MaxTime,        \* bound: ticks of the wall clock
    MaxVersion,     \* bound: changes of the upstream's data
    MaxProcess      \* bound: restarts of the engine

ASSUME CatalogAssumption == Catalog \subseteq [Tool -> Contract \cup {NoContract}]

ASSUME NullAssumption ==
    /\ NoContract \notin Contract
    /\ Nothing \notin Contract
    /\ Nothing \notin ArgSet
    /\ NoToken \in ClientToken
    /\ Forever \notin Nat

ASSUME BoundAssumption == MaxTime \in Nat /\ MaxVersion \in Nat /\ MaxProcess \in Nat

VARIABLES
    catalog,      \* Registry.catalog
    resultCache,  \* ResultCache._entries, as a set of entries; "ttl" in one is a history of
                  \* the ttlSeconds it was stored with
    codeCache,    \* CodeCache: the modules it holds, as a set of entries
    pc,           \* where each run is suspended
    call,         \* the arguments of each run
    entry,        \* the contract each run took from the catalog
    module,       \* the source of the module each run executes
    answer,       \* the output each run holds, and whether it was cached
    status,       \* the ExecutionOutcome.status each run is about to return
    trace,        \* the events each run has emitted
    child,        \* the sandbox process of each run
    calls,        \* what reached the upstream, one record per call
    upstream,     \* the version of the data behind the upstream
    proposals,    \* the proposals issued: the token, and the arguments shown with it (a history)
    process,      \* which engine process is running: its _APPROVAL_SECRET
    now           \* time.time()

runVars == <<pc, call, entry, module, answer, status, trace>>
cacheVars == <<resultCache, codeCache>>
worldVars == <<calls, upstream, now, process>>
vars == <<catalog, cacheVars, runVars, child, worldVars, proposals>>

-----------------------------------------------------------------------------
Suspended ==
    {"selected", "surfaced", "hit", "proposed", "coded", "executing", "waiting",
     "failed", "result", "data", "stored", "closing"}

\* "raised": an exception of run() itself; "aborted": the sink or the caller ended it.
Ended == {"returned", "raised", "aborted", "killed"}

Status == {"none", "ok", "proposed", "error"}

Value == [source : Source, principal : Principal, args : ArgSet, version : Nat]

Answer == [value : Value, cached : BOOLEAN]

ASSUME NothingAssumption == Nothing \notin Answer

Token == [secret : Nat, key : ResultKey]

\* An HMAC cannot be guessed: a client's token is one it was given, or none of ours.
ASSUME TokenAssumption == \A t \in ClientToken : t \notin Token

Call == [tool : Tool, args : ArgSet, principal : Principal,
         token : Token \cup ClientToken]

Event == {"contract_selected", "surface", "cache_hit", "result", "done", "proposal",
          "error", "code_generated", "executing", "cache_store"}

TypeOK ==
    /\ catalog \in Catalog
    /\ \A e \in resultCache :
          e \in [key : ResultKey, value : Value, storedAt : Nat, ttl : Nat,
                 expiresAt : Nat \cup {Forever}]
    /\ \A e \in codeCache :
          e \in [key : {CodeKey(c) : c \in Contract}, source : Source]
    /\ pc \in [Run -> {"idle"} \cup Suspended \cup Ended]
    /\ call \in [Run -> Call \cup {Nothing}]
    /\ entry \in [Run -> Contract \cup {Nothing}]
    /\ module \in [Run -> Source \cup {Nothing}]
    /\ answer \in [Run -> Answer \cup {Nothing}]
    /\ status \in [Run -> Status]
    /\ trace \in [Run -> Seq(Event)]
    /\ child \in [Run -> {"none", "running", "called"}]
    /\ \A k \in calls : k \in [run : Run, value : Value]
    /\ upstream \in Nat
    /\ \A p \in proposals : p \in [token : Token, shown : ArgSet]
    /\ process \in Nat
    /\ now \in Nat

Init ==
    /\ catalog \in Catalog
    /\ resultCache = {}
    /\ codeCache = {}
    /\ pc = [r \in Run |-> "idle"]
    /\ call = [r \in Run |-> Nothing]
    /\ entry = [r \in Run |-> Nothing]
    /\ module = [r \in Run |-> Nothing]
    /\ answer = [r \in Run |-> Nothing]
    /\ status = [r \in Run |-> "none"]
    /\ trace = [r \in Run |-> << >>]
    /\ child = [r \in Run |-> "none"]
    /\ calls = {}
    /\ upstream = 0
    /\ proposals = {}
    /\ process = 0
    /\ now = 0

-----------------------------------------------------------------------------
(* Emitter.emit and the await that follows it.                             *)

Emit(r, event) == trace' = [trace EXCEPT ![r] = Append(@, event)]

WaitAt(r, label) == pc' = [pc EXCEPT ![r] = label]

\* The last event of a run: after it, only the return is left.
Close(r, event, outcome) ==
    /\ Emit(r, event)
    /\ WaitAt(r, "closing")
    /\ status' = [status EXCEPT ![r] = outcome]

-----------------------------------------------------------------------------
(* The keys of a run and the tests made on them.                           *)

Key(r) == CacheKey(entry[r], call[r].args, call[r].principal)

\* Faulty variant of ApprovalToken: a secret shared by every process.
ApprovalTokenForEver(r) == [secret |-> 0, key |-> Key(r)]

\* _approval_token: an HMAC under this process's own secret.
ApprovalToken(r) == [secret |-> process, key |-> Key(r)]

\* Faulty variant of Expired: one tick too long.
ExpiredTooLate(e) == e.expiresAt # Forever /\ now > e.expiresAt

Expired(e) == e.expiresAt # Forever /\ now >= e.expiresAt

\* ResultCache.get finds an entry and it has not expired.
Fresh(r) == {e \in resultCache : e.key = Key(r) /\ ~ Expired(e)}

\* What ResultCache.get leaves: an expired entry is deleted when it is asked for.
AfterMiss(r) ==
    IF IsCacheable(entry[r]) THEN {e \in resultCache : e.key # Key(r)} ELSE resultCache

ExpiresAt(c) == IF c.ttl = 0 THEN Forever ELSE now + c.ttl

\* ResultCache.put: one entry per key, the last one written.
Stored(r) ==
    {e \in resultCache : e.key # Key(r)} \cup
    {[key |-> Key(r), value |-> answer[r].value, storedAt |-> now, ttl |-> entry[r].ttl,
      expiresAt |-> ExpiresAt(entry[r])]}

\* CodeCache.get, or codemode.generate when it has nothing under the key.
SourceFor(c) ==
    LET held == {e \in codeCache : e.key = CodeKey(c)}
    IN  IF held = {} THEN Generate(c) ELSE (CHOOSE e \in held : TRUE).source

\* CodeCache.put.
WithModule(c) ==
    {e \in codeCache : e.key # CodeKey(c)} \cup {[key |-> CodeKey(c), source |-> SourceFor(c)]}

-----------------------------------------------------------------------------
(* Selecting the contract.                                                 *)

UnknownTool(r, q) ==
    /\ pc[r] = "idle"
    /\ catalog[q.tool] = NoContract
    /\ call' = [call EXCEPT ![r] = q]
    /\ Close(r, "error", "error")
    /\ UNCHANGED <<catalog, cacheVars, entry, module, answer, child, worldVars, proposals>>

SelectContract(r, q) ==
    /\ pc[r] = "idle"
    /\ catalog[q.tool] # NoContract
    /\ call' = [call EXCEPT ![r] = q]
    /\ entry' = [entry EXCEPT ![r] = catalog[q.tool]]
    /\ Emit(r, "contract_selected")
    /\ WaitAt(r, "selected")
    /\ UNCHANGED <<catalog, cacheVars, module, answer, status, child, worldVars, proposals>>

Known == {p.token : p \in proposals}

\* A client sends a token it has been given, none, or something else.
Begin(r) ==
    \E name \in Tool, a \in ArgSet, p \in Principal, t \in Known \cup ClientToken :
       LET q == [tool |-> name, args |-> a, principal |-> p, token |-> t]
       IN  UnknownTool(r, q) \/ SelectContract(r, q)

\* surface_of or _component raises: an interface.response that is no object, a
\* component that is none.
StructureRaises(r) ==
    /\ pc[r] = "selected"
    /\ entry[r].breaks = "structure"
    /\ WaitAt(r, "raised")
    /\ UNCHANGED <<catalog, cacheVars, call, entry, module, answer, status, trace, child,
                   worldVars, proposals>>

EmitStructure(r) ==
    /\ pc[r] = "selected"
    /\ entry[r].breaks # "structure"
    /\ HasSurface(entry[r])
    /\ Emit(r, "surface")
    /\ WaitAt(r, "surfaced")
    /\ UNCHANGED <<catalog, cacheVars, call, entry, module, answer, status, child,
                   worldVars, proposals>>

-----------------------------------------------------------------------------
(* From the keys to the first answer that needs no work.                   *)

AtLookup(r) ==
    \/ pc[r] = "surfaced"
    \/ pc[r] = "selected" /\ ~ HasSurface(entry[r]) /\ entry[r].breaks # "structure"

Identified(r) == ~ ContextRaises(entry[r]) /\ ~ KeyRaises(entry[r])

\* generation_id and cache_key are called outside every try: an exception of theirs
\* leaves run().
IdentityRaises(r) ==
    /\ AtLookup(r)
    /\ ~ Identified(r)
    /\ WaitAt(r, "raised")
    /\ UNCHANGED <<catalog, cacheVars, call, entry, module, answer, status, trace, child,
                   worldVars, proposals>>

\* Faulty variant of CacheHit: the outcome does not say it was cached.
CacheHitUnmarked(r) ==
    /\ AtLookup(r)
    /\ Identified(r)
    /\ IsCacheable(entry[r])
    /\ \E e \in Fresh(r) :
          answer' = [answer EXCEPT ![r] = [value |-> e.value, cached |-> FALSE]]
    /\ Emit(r, "cache_hit")
    /\ WaitAt(r, "hit")
    /\ UNCHANGED <<catalog, cacheVars, call, entry, module, status, child, worldVars, proposals>>

CacheHit(r) ==
    /\ AtLookup(r)
    /\ Identified(r)
    /\ IsCacheable(entry[r])
    /\ \E e \in Fresh(r) :
          answer' = [answer EXCEPT ![r] = [value |-> e.value, cached |-> TRUE]]
    /\ Emit(r, "cache_hit")
    /\ WaitAt(r, "hit")
    /\ UNCHANGED <<catalog, cacheVars, call, entry, module, status, child, worldVars, proposals>>

\* The lookup found nothing it may use, and has deleted what was expired.
Missed(r) ==
    /\ AtLookup(r)
    /\ Identified(r)
    /\ IsCacheable(entry[r]) => Fresh(r) = {}
    /\ resultCache' = AfterMiss(r)

\* Then the gate, if governance can be asked about it.
AtGate(r) == Missed(r) /\ ~ ApprovalRaises(entry[r])

Propose(r) ==
    /\ AtGate(r)
    /\ NeedsApproval(entry[r])
    /\ call[r].token = NoToken
    /\ entry[r].breaks # "preview"
    /\ proposals' = proposals \cup {[token |-> ApprovalToken(r), shown |-> call[r].args]}
    /\ Emit(r, "proposal")
    /\ WaitAt(r, "proposed")
    /\ UNCHANGED <<catalog, codeCache, call, entry, module, answer, status, child, worldVars>>

RefuseToken(r) ==
    /\ AtGate(r)
    /\ NeedsApproval(entry[r])
    /\ call[r].token \notin {NoToken, ApprovalToken(r)}
    /\ Close(r, "error", "error")
    /\ UNCHANGED <<catalog, codeCache, call, entry, module, answer, child, worldVars, proposals>>

\* None of the gate is in a try: needs_approval reads a governance.execution that is
\* no object, _proposal_preview a wire name that is no text, and compare_digest
\* takes ASCII text only.
GateRaises(r) ==
    /\ Missed(r)
    /\ \/ ApprovalRaises(entry[r])
       \/ /\ NeedsApproval(entry[r])
          /\ \/ call[r].token = NoToken /\ entry[r].breaks = "preview"
             \/ call[r].token \in ClientToken \ {NoToken}
    /\ WaitAt(r, "raised")
    /\ UNCHANGED <<catalog, codeCache, call, entry, module, answer, status, trace, child,
                   worldVars, proposals>>

FinishProposal(r) ==
    /\ pc[r] = "proposed"
    /\ Close(r, "done", "proposed")
    /\ UNCHANGED <<catalog, cacheVars, call, entry, module, answer, child, worldVars, proposals>>

-----------------------------------------------------------------------------
(* Generating and executing.                                               *)

\* Faulty variant of Approved: any token from any proposal will do.
ApprovedByAnyProposal(r) == NeedsApproval(entry[r]) => call[r].token \in Known

Approved(r) == NeedsApproval(entry[r]) => call[r].token = ApprovalToken(r)

GenerateCode(r) ==
    /\ AtGate(r)
    /\ Approved(r)
    /\ module' = [module EXCEPT ![r] = SourceFor(entry[r])]
    /\ codeCache' = WithModule(entry[r])
    /\ Emit(r, "code_generated")
    /\ WaitAt(r, "coded")
    /\ UNCHANGED <<catalog, call, entry, answer, status, child, worldVars, proposals>>

\* get, generate or put raises (the disk, an unreadable file); put has filled
\* the memory before it touches the disk.
CodeGenerationFails(r) ==
    /\ AtGate(r)
    /\ Approved(r)
    /\ codeCache' \in {codeCache, WithModule(entry[r])}
    /\ Close(r, "error", "error")
    /\ UNCHANGED <<catalog, call, entry, module, answer, child, worldVars, proposals>>

EmitExecuting(r) ==
    /\ pc[r] = "coded"
    /\ Emit(r, "executing")
    /\ WaitAt(r, "executing")
    /\ UNCHANGED <<catalog, cacheVars, call, entry, module, answer, status, child,
                   worldVars, proposals>>

\* run_module: the child process is created and communicate() awaited.
StartChild(r) ==
    /\ pc[r] = "executing"
    /\ WaitAt(r, "waiting")
    /\ child' = [child EXCEPT ![r] = "running"]
    /\ UNCHANGED <<catalog, cacheVars, call, entry, module, answer, status, trace,
                   worldVars, proposals>>

StartChildFails(r) ==
    /\ pc[r] = "executing"
    /\ Emit(r, "error")
    /\ WaitAt(r, "failed")
    /\ UNCHANGED <<catalog, cacheVars, call, entry, module, answer, status, child,
                   worldVars, proposals>>

\* The child makes its request; for a read, the answer is the data of this moment.
\* A cancelled run leaves its child behind, and so does a process that dies.
ChildCalls(r) ==
    /\ child[r] = "running"
    /\ child' = [child EXCEPT ![r] = "called"]
    /\ calls' = calls \cup
          {[run |-> r,
            value |-> [source |-> module[r], principal |-> call[r].principal,
                       args |-> call[r].args, version |-> upstream]]}
    /\ UNCHANGED <<catalog, cacheVars, runVars, upstream, now, process, proposals>>

\* The child printed its envelope and exited before the timeout.
SandboxSucceeds(r) ==
    /\ pc[r] = "waiting"
    /\ child[r] = "called"
    /\ \E k \in calls :
          /\ k.run = r
          /\ answer' = [answer EXCEPT ![r] = [value |-> k.value, cached |-> FALSE]]
    /\ child' = [child EXCEPT ![r] = "none"]
    /\ Emit(r, "result")
    /\ WaitAt(r, "result")
    /\ UNCHANGED <<catalog, cacheVars, call, entry, module, status, worldVars, proposals>>

\* Faulty variant of SandboxFails: no timeout, a silent child is waited for.
SandboxFailsWithoutTimeout(r) ==
    /\ pc[r] = "waiting"
    /\ child[r] = "called"
    /\ child' = [child EXCEPT ![r] = "none"]
    /\ Emit(r, "error")
    /\ WaitAt(r, "failed")
    /\ UNCHANGED <<catalog, cacheVars, call, entry, module, answer, status, worldVars, proposals>>

\* The child failed, said nothing usable, or was killed at the timeout: in every
\* case it may have made its request before.
SandboxFails(r) ==
    /\ pc[r] = "waiting"
    /\ child' = [child EXCEPT ![r] = "none"]
    /\ Emit(r, "error")
    /\ WaitAt(r, "failed")
    /\ UNCHANGED <<catalog, cacheVars, call, entry, module, answer, status, worldVars, proposals>>

\* What the child printed is JSON and no object, or the child was gone when the
\* timeout came to kill it: run_module itself raises, and run() has no try there.
SandboxRaises(r) ==
    /\ pc[r] = "waiting"
    /\ child' = [child EXCEPT ![r] = "none"]
    /\ WaitAt(r, "raised")
    /\ UNCHANGED <<catalog, cacheVars, call, entry, module, answer, status, trace, worldVars,
                   proposals>>

\* Faulty variant of FinishFailed: the early return is missing.
FinishFailedAsOk(r) ==
    /\ pc[r] = "failed"
    /\ Close(r, "done", "ok")
    /\ UNCHANGED <<catalog, cacheVars, call, entry, module, answer, child, worldVars, proposals>>

FinishFailed(r) ==
    /\ pc[r] = "failed"
    /\ Close(r, "done", "error")
    /\ UNCHANGED <<catalog, cacheVars, call, entry, module, answer, child, worldVars, proposals>>

-----------------------------------------------------------------------------
(* Answering.                                                              *)

EmitCachedResult(r) ==
    /\ pc[r] = "hit"
    /\ Emit(r, "result")
    /\ WaitAt(r, "result")
    /\ UNCHANGED <<catalog, cacheVars, call, entry, module, answer, status, child,
                   worldVars, proposals>>

EmitData(r) ==
    /\ pc[r] = "result"
    /\ HasSurface(entry[r])
    /\ Emit(r, "surface")
    /\ WaitAt(r, "data")
    /\ UNCHANGED <<catalog, cacheVars, call, entry, module, answer, status, child,
                   worldVars, proposals>>

AfterData(r) ==
    \/ pc[r] = "data"
    \/ pc[r] = "result" /\ ~ HasSurface(entry[r])

MustStore(r) == ~ answer[r].cached /\ IsCacheable(entry[r])

\* Faulty variant of StoreResult: the store is announced after the run is done.
StoreResultUnannounced(r) ==
    /\ AfterData(r)
    /\ MustStore(r)
    /\ resultCache' = Stored(r)
    /\ Emit(r, "done")
    /\ WaitAt(r, "stored")
    /\ UNCHANGED <<catalog, codeCache, call, entry, module, answer, status, child,
                   worldVars, proposals>>

StoreResult(r) ==
    /\ AfterData(r)
    /\ MustStore(r)
    /\ entry[r].breaks # "ttl"
    /\ resultCache' = Stored(r)
    /\ Emit(r, "cache_store")
    /\ WaitAt(r, "stored")
    /\ UNCHANGED <<catalog, codeCache, call, entry, module, answer, status, child,
                   worldVars, proposals>>

\* A ttlSeconds that cannot be added to the time.
StoreRaises(r) ==
    /\ AfterData(r)
    /\ MustStore(r)
    /\ entry[r].breaks = "ttl"
    /\ WaitAt(r, "raised")
    /\ UNCHANGED <<catalog, cacheVars, call, entry, module, answer, status, trace, child,
                   worldVars, proposals>>

\* Faulty variant of FinishOk: a status no client knows.
FinishOkAsCached(r) ==
    /\ pc[r] = "stored" \/ (AfterData(r) /\ ~ MustStore(r))
    /\ Close(r, "done", "cached")
    /\ UNCHANGED <<catalog, cacheVars, call, entry, module, answer, child, worldVars, proposals>>

FinishOk(r) ==
    /\ pc[r] = "stored" \/ (AfterData(r) /\ ~ MustStore(r))
    /\ Close(r, "done", "ok")
    /\ UNCHANGED <<catalog, cacheVars, call, entry, module, answer, child, worldVars, proposals>>

Return(r) ==
    /\ pc[r] = "closing"
    /\ WaitAt(r, "returned")
    /\ UNCHANGED <<catalog, cacheVars, call, entry, module, answer, status, trace, child,
                   worldVars, proposals>>

\* At any await the sink may raise or the caller may be gone.
Abort(r) ==
    /\ pc[r] \in Suspended
    /\ WaitAt(r, "aborted")
    /\ UNCHANGED <<catalog, cacheVars, call, entry, module, answer, status, trace, child,
                   worldVars, proposals>>

\* A child whose run has ended finishes with nobody reading it.
OrphanExits(r) ==
    /\ pc[r] \in Ended
    /\ child[r] # "none"
    /\ child' = [child EXCEPT ![r] = "none"]
    /\ UNCHANGED <<catalog, cacheVars, runVars, worldVars, proposals>>

-----------------------------------------------------------------------------
(* What happens around the runs.                                           *)

\* refresh_registry: a run in flight keeps the contract it selected.
RefreshRegistry ==
    /\ catalog' \in Catalog
    /\ UNCHANGED <<cacheVars, runVars, child, worldVars, proposals>>

ClearCaches ==
    /\ resultCache' = {}
    /\ codeCache' = {}
    /\ UNCHANGED <<catalog, runVars, child, worldVars, proposals>>

UpstreamChanges ==
    /\ upstream < MaxVersion
    /\ upstream' = upstream + 1
    /\ UNCHANGED <<catalog, cacheVars, runVars, child, calls, now, process, proposals>>

Tick ==
    /\ now < MaxTime
    /\ now' = now + 1
    /\ UNCHANGED <<catalog, cacheVars, runVars, child, calls, upstream, process, proposals>>

\* The process dies and comes back with a new secret, an empty memory and the
\* registry re-read; the generated modules survive if their directory does.
Restart ==
    /\ process < MaxProcess
    /\ process' = process + 1
    /\ catalog' \in Catalog
    /\ resultCache' = {}
    /\ codeCache' \in {codeCache, {}}
    /\ pc' = [r \in Run |-> IF pc[r] \in Suspended THEN "killed" ELSE pc[r]]
    /\ UNCHANGED <<call, entry, module, answer, status, trace, child, calls, upstream, now,
                   proposals>>

-----------------------------------------------------------------------------
\* What a run that has begun does of its own accord.
Advance(r) ==
    \/ StructureRaises(r)
    \/ EmitStructure(r)
    \/ IdentityRaises(r)
    \/ CacheHit(r)
    \/ Propose(r)
    \/ RefuseToken(r)
    \/ GateRaises(r)
    \/ FinishProposal(r)
    \/ GenerateCode(r)
    \/ CodeGenerationFails(r)
    \/ EmitExecuting(r)
    \/ StartChild(r)
    \/ StartChildFails(r)
    \/ SandboxSucceeds(r)
    \/ SandboxFails(r)
    \/ FinishFailed(r)
    \/ EmitCachedResult(r)
    \/ EmitData(r)
    \/ StoreResult(r)
    \/ StoreRaises(r)
    \/ FinishOk(r)
    \/ Return(r)

Environment ==
    \/ RefreshRegistry
    \/ ClearCaches
    \/ UpstreamChanges
    \/ Tick
    \/ Restart

Next ==
    \/ \E r \in Run :
          \/ Begin(r) \/ Advance(r) \/ SandboxRaises(r) \/ Abort(r)
          \/ ChildCalls(r) \/ OrphanExits(r)
    \/ Environment

Spec == Init /\ [][Next]_vars

(* The event loop resumes a coroutine whose await is over, every event is  *)
(* delivered or its delivery raises, and wait_for ends the wait for a      *)
(* child after 15 seconds whatever the child does; that run_module raises  *)
(* is not relied on for that, nor that a run is cancelled.                 *)
FairSpec == Spec /\ \A r \in Run : WF_vars(Advance(r))

-----------------------------------------------------------------------------
(* Properties.                                                             *)

(* Whatever a run answers with -- from its own child or from the cache --  *)
(* was produced by the code of the contract this run selected, for this    *)
(* run's principal, and for arguments equal to its own in everything that  *)
(* keyBy says matters (cache_key's "each one is a bug if left out").       *)
AnswersItsOwnQuestion ==
    \A r \in Run : answer[r] # Nothing =>
        LET v == answer[r].value
            c == entry[r]
        IN  /\ v.source = Generate(c)
            /\ v.principal = call[r].principal
            /\ Relevant(c.keyBy, v.args) = Relevant(c.keyBy, call[r].args)

(* The result of a request that reached the upstream as a write is never   *)
(* kept and never replayed, whatever the contract says about itself and    *)
(* whatever contract the tool had before ("the verb decides").  It holds   *)
(* where contracts spell their verbs in upper case; of "post" it is false. *)
WritesAreNeverReplayed ==
    /\ \A e \in resultCache : Verb(e.value.source.method) \notin WriteMethod
    /\ \A r \in Run : answer[r] # Nothing /\ answer[r].cached =>
           Verb(entry[r].method) \notin WriteMethod

(* A run never answers from an entry that is older than the ttl of the     *)
(* contract under which it was stored (ttl 0 or absent: never too old).    *)
(* That is the contract of another run, and it need not be the one that    *)
(* this run selected: a ttl corrected at the same version does not reach   *)
(* the entries that are already there.                                     *)
HitsAreFresh ==
    [][\A r \in Run : pc[r] # "hit" /\ pc'[r] = "hit" =>
          \E e \in resultCache :
             /\ answer'[r].value = e.value
             /\ e.ttl # 0 => now < e.storedAt + e.ttl]_vars

(* Every request that needed approval and reached the upstream was applied *)
(* with the token of a proposal for the same code and the same principal,  *)
(* which showed the same arguments in everything that the contract's keyBy *)
(* says matters -- in everything at all, if it has no keyBy -- even when   *)
(* the request is made by a child that outlived its run, and whatever the  *)
(* registry did between proposal and apply.  An argument that keyBy does   *)
(* not name may be applied with a value that was never shown.              *)
AppliedUnderAShownKey ==
    \A k \in calls : NeedsApproval(entry[k.run]) =>
        \E p \in proposals :
           /\ p.token = call[k.run].token
           /\ p.token.key.generation = k.value.source
           /\ p.token.key.principal = k.value.principal
           /\ Relevant(entry[k.run].keyBy, p.shown) = Relevant(entry[k.run].keyBy, k.value.args)

(* "process-local, lost on restart": a run past the approval gate holds a  *)
(* token that this very process issued, for this run's key.                *)
ApprovedInThisProcess ==
    \A r \in Run :
        pc[r] \in {"coded", "executing", "waiting", "failed"} /\ NeedsApproval(entry[r]) =>
            \E p \in proposals :
               p.token = call[r].token /\ p.token.secret = process /\ p.token.key = Key(r)

(* What a run says of itself is what happened: it reports ok only with an  *)
(* answer it has sent; an answer not marked cached is the one the upstream *)
(* gave to this run's single request; a run that answered from the cache   *)
(* or only proposed never reached the upstream.                            *)
CallsOf(r) == {k \in calls : k.run = r}

OutcomeIsHonest ==
    \A r \in Run : pc[r] = "returned" =>
        /\ status[r] = "ok" => answer[r] # Nothing /\ \E i \in DOMAIN trace[r] : trace[r][i] = "result"
        /\ status[r] = "ok" /\ ~ answer[r].cached => CallsOf(r) = {[run |-> r, value |-> answer[r].value]}
        /\ status[r] = "ok" /\ answer[r].cached => CallsOf(r) = {}
        /\ status[r] = "proposed" => CallsOf(r) = {} /\ child[r] = "none"

(* Each run, seen through its events and its outcome, is a run of RunTrace. *)
Outcome ==
    [r \in Run |->
        CASE pc[r] = "returned" -> status[r]
          [] pc[r] \in {"raised", "aborted", "killed"} -> "aborted"
          [] OTHER -> "none"]

Observed == INSTANCE RunTrace WITH outcome <- Outcome

(* The observer's view: every run emits one of the sequences of RunTrace,  *)
(* in order, and returns the outcome that sequence stands for.             *)
TellsOneStory == Observed!Spec

(* "Either it produced a result or it said why not -- never silence."      *)
NeverSilent ==
    \A r \in Run : pc[r] \in {"returned", "raised"} =>
        \E i \in DOMAIN trace[r] : trace[r][i] \in {"result", "proposal", "error"}

(* No run is for ever at one of its awaits: it comes to an end, whatever   *)
(* its child, the operator and the other runs do.                          *)
EveryRunEnds == \A r \in Run : []<>(pc[r] \notin Suspended)
=============================================================================
