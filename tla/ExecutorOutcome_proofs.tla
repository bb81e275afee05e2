----------------------- MODULE ExecutorOutcome_proofs -----------------------
(***************************************************************************)
(* More theorems about Executor: that a hit is not stale, and that what a  *)
(* run reports of itself is what happened at the upstream.  Both build on  *)
(* the invariant of Executor_proofs.                                       *)
(***************************************************************************)
EXTENDS Executor_proofs

\* Each entry lives as long as the contract that it was stored under lets it.
LifetimesFit ==
    \A e \in resultCache :
        e.expiresAt = IF e.ttl = 0 THEN Forever ELSE e.storedAt + e.ttl

HasResult(r) == \E i \in DOMAIN trace[r] : trace[r][i] = "result"

\* A run makes one request at most, and none before its child runs; its answer
\* and its status are set by the steps that end it, and only by those.
RunIsHonest(r) ==
    /\ pc[r] \in {"idle", "selected", "surfaced", "hit", "proposed", "coded", "executing"} =>
          CallsOf(r) = {} /\ child[r] = "none"
    /\ child[r] = "running" => CallsOf(r) = {}
    /\ child[r] = "called" => \E v \in Value : CallsOf(r) = {[run |-> r, value |-> v]}
    /\ answer[r] # Nothing =>
          /\ pc[r] \in {"hit", "result", "data", "stored", "closing"} \cup Ended
          /\ child[r] = "none"
          /\ answer[r].cached => CallsOf(r) = {}
          /\ ~ answer[r].cached => CallsOf(r) = {[run |-> r, value |-> answer[r].value]}
    /\ pc[r] \in {"result", "data", "stored"} => HasResult(r)
    /\ status[r] # "none" => pc[r] \in {"closing"} \cup Ended
    /\ status[r] = "ok" => answer[r] # Nothing /\ HasResult(r)
    /\ status[r] = "proposed" => CallsOf(r) = {} /\ child[r] = "none"

Honest == \A r \in Run : RunIsHonest(r)

-----------------------------------------------------------------------------
(* The age of entries.                                                     *)

\* Only StoreResult puts something into the result cache.
LEMMA OnlyStoresAdd ==
  ASSUME [Next]_vars
  PROVE  resultCache' \subseteq resultCache \/ \E r \in Run : StoreResult(r)
  <1>1. ASSUME NEW r \in Run, Begin(r) PROVE resultCache' \subseteq resultCache
    BY <1>1 DEF Begin, UnknownTool, SelectContract, cacheVars
  <1>2. ASSUME NEW r \in Run, Advance(r) \/ SandboxRaises(r), ~ StoreResult(r)
        PROVE  resultCache' \subseteq resultCache
    BY <1>2 DEF Advance, StructureRaises, EmitStructure, IdentityRaises, CacheHit, Propose,
       RefuseToken, GateRaises, FinishProposal, GenerateCode, CodeGenerationFails, EmitExecuting,
       StartChild, StartChildFails, SandboxSucceeds, SandboxFails, SandboxRaises, FinishFailed,
       EmitCachedResult, EmitData, StoreRaises, FinishOk, Return, AtGate, Missed, AfterMiss,
       cacheVars
  <1>3. ASSUME NEW r \in Run, ChildCalls(r) \/ Abort(r) \/ OrphanExits(r)
        PROVE  resultCache' \subseteq resultCache
    BY <1>3 DEF ChildCalls, Abort, OrphanExits, cacheVars
  <1>4. ASSUME Environment \/ UNCHANGED vars PROVE resultCache' \subseteq resultCache
    BY <1>4 DEF Environment, RefreshRegistry, ClearCaches, UpstreamChanges, Tick, Restart,
                vars, cacheVars
  <1> QED
    BY <1>1, <1>2, <1>3, <1>4 DEF Next

\* Only CacheHit lets a run begin to answer from the cache.
LEMMA OnlyHitsHit ==
  ASSUME IInv, [Next]_vars, NEW r \in Run, pc[r] # "hit", pc'[r] = "hit"
  PROVE  CacheHit(r)
  <1>1. pc \in [Run -> {"idle"} \cup Suspended \cup Ended]
    BY DEF IInv, TypeOK
  <1>2. ASSUME NEW i \in Run, Begin(i) PROVE FALSE
    BY <1>1, <1>2 DEF Begin, UnknownTool, SelectContract, Close, WaitAt
  <1>3. ASSUME NEW i \in Run, Advance(i) \/ SandboxRaises(i), ~ CacheHit(i) PROVE FALSE
    BY <1>1, <1>3 DEF Advance, StructureRaises, EmitStructure, IdentityRaises, Propose,
       RefuseToken, GateRaises, FinishProposal, GenerateCode, CodeGenerationFails, EmitExecuting,
       StartChild, StartChildFails, SandboxSucceeds, SandboxFails, SandboxRaises, FinishFailed,
       EmitCachedResult, EmitData, StoreResult, StoreRaises, FinishOk, Return, Close, WaitAt
  <1>4. ASSUME NEW i \in Run, CacheHit(i), i # r PROVE FALSE
    BY <1>1, <1>4 DEF CacheHit, WaitAt
  <1>5. ASSUME NEW i \in Run, ChildCalls(i) \/ Abort(i) \/ OrphanExits(i) PROVE FALSE
    BY <1>1, <1>5 DEF ChildCalls, Abort, OrphanExits, WaitAt, runVars
  <1>6. ASSUME Environment \/ UNCHANGED vars PROVE FALSE
    BY <1>1, <1>6 DEF Environment, RefreshRegistry, ClearCaches, UpstreamChanges, Tick, Restart,
                      vars, runVars
  <1> QED
    BY <1>2, <1>3, <1>4, <1>5, <1>6 DEF Next

LEMMA StoredFits ==
  ASSUME LifetimesFit, NEW r \in Run, StoreResult(r)
  PROVE  LifetimesFit'
  <1> SUFFICES ASSUME NEW e \in Stored(r)
               PROVE  e.expiresAt = IF e.ttl = 0 THEN Forever ELSE e.storedAt + e.ttl
    BY DEF StoreResult, LifetimesFit
  <1>1. CASE e \in resultCache
    BY <1>1 DEF LifetimesFit
  <1>2. CASE e \notin resultCache
    BY <1>2 DEF Stored, ExpiresAt
  <1> QED
    BY <1>1, <1>2

LEMMA LifetimesHold == Spec => []LifetimesFit
  <1>1. Init => LifetimesFit
    BY DEF Init, LifetimesFit
  <1>2. LifetimesFit /\ [Next]_vars => LifetimesFit'
    <2> SUFFICES ASSUME LifetimesFit, [Next]_vars PROVE LifetimesFit'
      OBVIOUS
    <2>1. CASE resultCache' \subseteq resultCache
      BY <2>1 DEF LifetimesFit
    <2>2. ASSUME NEW r \in Run, StoreResult(r) PROVE LifetimesFit'
      BY <2>2, StoredFits
    <2> QED
      BY <2>1, <2>2, OnlyStoresAdd
  <1> QED
    BY <1>1, <1>2, PTL DEF Spec

(* No run is ever answered from an entry that is older than the contract   *)
(* it was stored under allows: what a refresh, a clear, the clock or       *)
(* another run did between the store and the lookup makes no difference.   *)
(* Of the ttl of the contract that is answered it says nothing.            *)
THEOREM HitsAreNeverStale == Spec => HitsAreFresh
  <1> DEFINE Fits(r) ==
        \E e \in resultCache :
           /\ answer'[r].value = e.value
           /\ e.ttl # 0 => now < e.storedAt + e.ttl
  <1>1. ASSUME IInv, LifetimesFit, [Next]_vars, NEW r \in Run, pc[r] # "hit", pc'[r] = "hit"
        PROVE  Fits(r)
    <2>1. CacheHit(r)
      BY <1>1, OnlyHitsHit
    <2>2. PICK e \in Fresh(r) : answer' = [answer EXCEPT ![r] = [value |-> e.value, cached |-> TRUE]]
      BY <2>1 DEF CacheHit
    <2>3. e \in resultCache /\ ~ Expired(e)
      BY <2>2 DEF Fresh
    <2>4. answer'[r].value = e.value
      BY <1>1, <2>2 DEF IInv, TypeOK
    <2>5. e.ttl \in Nat /\ e.storedAt \in Nat /\ now \in Nat
      BY <1>1, <2>3 DEF IInv, TypeOK
    <2>6. e.ttl # 0 => now < e.storedAt + e.ttl
      BY <1>1, <2>3, <2>5, NullAssumption DEF Expired, LifetimesFit
    <2> QED
      BY <2>3, <2>4, <2>6
  <1>2. IInv /\ LifetimesFit /\ [Next]_vars =>
           [\A r \in Run : pc[r] # "hit" /\ pc'[r] = "hit" => Fits(r)]_vars
    BY <1>1
  <1> QED
    BY <1>2, IInvHolds, LifetimesHold, PTL DEF Spec, HitsAreFresh

-----------------------------------------------------------------------------
(* What a run reports.                                                     *)

Early == {"idle", "selected", "surfaced", "hit", "proposed", "coded", "executing"}

LEMMA EmitAdds ==
  ASSUME TypeOK, NEW r \in Run, NEW event, Emit(r, event)
  PROVE  /\ \A i \in Run \ {r} : trace'[i] = trace[i]
         /\ HasResult(r) => HasResult(r)'
         /\ event = "result" => HasResult(r)'
  <1>1. trace[r] \in Seq(Event) /\ trace'[r] = Append(trace[r], event)
    BY DEF TypeOK, Emit
  <1>2. \A i \in DOMAIN trace[r] : i \in DOMAIN trace'[r] /\ trace'[r][i] = trace[r][i]
    BY <1>1
  <1>3. Len(trace[r]) + 1 \in DOMAIN trace'[r] /\ trace'[r][Len(trace[r]) + 1] = event
    BY <1>1
  <1>4. \A i \in Run \ {r} : trace'[i] = trace[i]
    BY DEF TypeOK, Emit
  <1> QED
    BY <1>2, <1>3, <1>4 DEF HasResult

\* A step of one run leaves the others as honest as they were.
LEMMA OthersStayHonest ==
  ASSUME Honest, NEW r \in Run, RunIsHonest(r)',
         \A i \in Run \ {r} :
            /\ pc'[i] = pc[i] /\ child'[i] = child[i] /\ answer'[i] = answer[i]
            /\ status'[i] = status[i] /\ trace'[i] = trace[i] /\ CallsOf(i)' = CallsOf(i)
  PROVE  Honest'
  <1>1. ASSUME NEW i \in Run \ {r} PROVE RunIsHonest(i)'
    BY <1>1 DEF Honest, RunIsHonest, HasResult
  <1> QED
    BY <1>1 DEF Honest

\* A run moves on without an answer, a request or a child of its own.
LEMMA MoveStep ==
  ASSUME TypeOK, Honest, NEW r \in Run, NEW label \in Suspended \cup Ended, NEW s \in Status,
         WaitAt(r, label),
         status' = [status EXCEPT ![r] = s],
         \A i \in Run \ {r} : trace'[i] = trace[i],
         HasResult(r) => HasResult(r)',
         child' = child \/ child' = [child EXCEPT ![r] = "none"],
         UNCHANGED <<calls, answer>>,
         label \in Early => pc[r] \in Early,
         label \in {"result", "data", "stored"} => HasResult(r)',
         answer[r] # Nothing => label \in {"hit", "result", "data", "stored", "closing"} \cup Ended,
         s # "none" => label \in {"closing"} \cup Ended,
         s = "ok" => s = status[r] \/ (answer[r] # Nothing /\ HasResult(r)'),
         s = "proposed" => s = status[r] \/ pc[r] \in Early
  PROVE  Honest'
  <1>1. /\ pc'[r] = label /\ status'[r] = s /\ answer'[r] = answer[r]
        /\ child'[r] \in {child[r], "none"} /\ CallsOf(r)' = CallsOf(r)
    BY DEF TypeOK, WaitAt, CallsOf
  <1>2. \A i \in Run \ {r} :
           /\ pc'[i] = pc[i] /\ child'[i] = child[i] /\ answer'[i] = answer[i]
           /\ status'[i] = status[i] /\ CallsOf(i)' = CallsOf(i)
    BY DEF TypeOK, WaitAt, CallsOf
  <1>3. RunIsHonest(r)
    BY DEF Honest
  <1>4. RunIsHonest(r)'
    BY <1>1, <1>3 DEF RunIsHonest, Early
  <1> QED
    BY <1>2, <1>4, OthersStayHonest

\* The run goes on to its next event.
LEMMA EmitMoves ==
  ASSUME TypeOK, Honest, NEW r \in Run, NEW label \in Suspended \ {"closing"}, NEW event,
         Emit(r, event), WaitAt(r, label),
         child' = child \/ child' = [child EXCEPT ![r] = "none"],
         UNCHANGED <<calls, answer, status>>,
         pc[r] \in Suspended \ {"closing"},
         label \in Early => pc[r] \in Early,
         label \in {"result", "data", "stored"} => HasResult(r) \/ event = "result",
         answer[r] # Nothing => label \in {"hit", "result", "data", "stored"}
  PROVE  Honest'
  <1>1. /\ \A i \in Run \ {r} : trace'[i] = trace[i]
        /\ HasResult(r) => HasResult(r)'
        /\ event = "result" => HasResult(r)'
    BY EmitAdds
  <1>2. status[r] = "none"
    BY DEF Honest, RunIsHonest, Suspended, Ended
  <1>3. status' = [status EXCEPT ![r] = "none"] /\ "none" \in Status
    BY <1>2 DEF TypeOK, Status
  <1> QED
    BY <1>1, <1>3, MoveStep

\* The run sends its last event, and with it decides its status.
LEMMA CloseMoves ==
  ASSUME TypeOK, Honest, NEW r \in Run, NEW event, NEW s \in Status, Close(r, event, s),
         UNCHANGED <<calls, answer, child>>,
         s = "ok" => answer[r] # Nothing /\ HasResult(r),
         s = "proposed" => pc[r] \in Early
  PROVE  Honest'
  <1>1. Emit(r, event) /\ WaitAt(r, "closing") /\ status' = [status EXCEPT ![r] = s]
    BY DEF Close
  <1>2. (\A i \in Run \ {r} : trace'[i] = trace[i]) /\ (HasResult(r) => HasResult(r)')
    BY <1>1, EmitAdds
  <1>3. "closing" \in Suspended \cup Ended /\ "closing" \notin Early
    BY DEF Suspended, Early
  <1> QED
    BY <1>1, <1>2, <1>3, MoveStep

\* The run ends, having decided nothing more.
LEMMA EndMoves ==
  ASSUME TypeOK, Honest, NEW r \in Run, NEW label \in Ended, WaitAt(r, label),
         child' = child \/ child' = [child EXCEPT ![r] = "none"],
         UNCHANGED <<calls, answer, status, trace>>
  PROVE  Honest'
  <1>1. status' = [status EXCEPT ![r] = status[r]] /\ status[r] \in Status
    BY DEF TypeOK
  <1>2. label \notin Early /\ label \notin {"result", "data", "stored"}
    BY DEF Ended, Early
  <1>3. HasResult(r) => HasResult(r)'
    BY DEF HasResult
  <1>4. status[r] = "ok" => answer[r] # Nothing /\ HasResult(r)'
    BY <1>3 DEF Honest, RunIsHonest
  <1> QED
    BY <1>1, <1>2, <1>3, <1>4, MoveStep

LEMMA CacheHitHonest ==
  ASSUME IInv, Honest, NEW r \in Run, CacheHit(r)
  PROVE  Honest'
  <1>1. PICK e \in resultCache : answer' = [answer EXCEPT ![r] = [value |-> e.value, cached |-> TRUE]]
    BY DEF CacheHit, Fresh
  <1>2. /\ pc' = [pc EXCEPT ![r] = "hit"]
        /\ pc[r] \in {"selected", "surfaced"}
        /\ Emit(r, "cache_hit")
        /\ UNCHANGED <<child, status, calls>>
    BY DEF CacheHit, AtLookup, WaitAt, worldVars
  <1>3. /\ pc'[r] = "hit" /\ answer'[r].cached = TRUE
        /\ child'[r] = child[r] /\ status'[r] = status[r] /\ CallsOf(r)' = CallsOf(r)
    BY <1>1, <1>2 DEF IInv, TypeOK, CallsOf
  <1>4. \A i \in Run \ {r} :
           /\ pc'[i] = pc[i] /\ child'[i] = child[i] /\ answer'[i] = answer[i]
           /\ status'[i] = status[i] /\ trace'[i] = trace[i] /\ CallsOf(i)' = CallsOf(i)
    BY <1>1, <1>2, EmitAdds DEF IInv, TypeOK, CallsOf
  <1>5. CallsOf(r) = {} /\ child[r] = "none" /\ status[r] = "none"
    BY <1>2 DEF Honest, RunIsHonest, Ended
  <1>6. RunIsHonest(r)'
    BY <1>3, <1>5 DEF RunIsHonest
  <1> QED
    BY <1>4, <1>6, OthersStayHonest

LEMMA StartChildHonest ==
  ASSUME IInv, Honest, NEW r \in Run, StartChild(r)
  PROVE  Honest'
  <1>1. /\ pc' = [pc EXCEPT ![r] = "waiting"] /\ pc[r] = "executing"
        /\ child' = [child EXCEPT ![r] = "running"]
        /\ UNCHANGED <<status, calls, answer, trace>>
    BY DEF StartChild, WaitAt, worldVars
  <1>2. /\ pc'[r] = "waiting" /\ child'[r] = "running" /\ answer'[r] = answer[r]
        /\ status'[r] = status[r] /\ CallsOf(r)' = CallsOf(r)
        /\ \A i \in Run \ {r} :
              /\ pc'[i] = pc[i] /\ child'[i] = child[i] /\ answer'[i] = answer[i]
              /\ status'[i] = status[i] /\ trace'[i] = trace[i] /\ CallsOf(i)' = CallsOf(i)
    BY <1>1 DEF IInv, TypeOK, CallsOf
  <1>3. CallsOf(r) = {} /\ status[r] = "none" /\ answer[r] = Nothing
    BY <1>1 DEF Honest, RunIsHonest, Ended
  <1>4. RunIsHonest(r)'
    BY <1>2, <1>3 DEF RunIsHonest
  <1> QED
    BY <1>2, <1>4, OthersStayHonest

LEMMA ChildCallsHonest ==
  ASSUME IInv, Honest, NEW r \in Run, ChildCalls(r)
  PROVE  Honest'
  <1> DEFINE v0 == [source |-> module[r], principal |-> call[r].principal,
                    args |-> call[r].args, version |-> upstream]
  <1>1. /\ child[r] = "running"
        /\ child' = [child EXCEPT ![r] = "called"]
        /\ calls' = calls \cup {[run |-> r, value |-> v0]}
        /\ UNCHANGED <<pc, answer, status, trace>>
    BY DEF ChildCalls, runVars
  <1>2. v0 \in Value
    <2>1. /\ call[r] \in Call /\ module[r] \in Source
      BY <1>1, GenerateType DEF IInv, RunFits
    <2> QED
      BY <2>1 DEF Call, Value, IInv, TypeOK
  <1> HIDE DEF v0
  <1>3. CallsOf(r) = {} /\ status[r] # "proposed" /\ answer[r] = Nothing /\ pc[r] \notin Early
    BY <1>1 DEF Honest, RunIsHonest, Early
  <1>4. CallsOf(r)' = {[run |-> r, value |-> v0]}
    BY <1>1, <1>3 DEF CallsOf
  <1>5. /\ pc'[r] = pc[r] /\ child'[r] = "called" /\ answer'[r] = answer[r]
        /\ status'[r] = status[r] /\ trace'[r] = trace[r]
        /\ \A i \in Run \ {r} :
              /\ pc'[i] = pc[i] /\ child'[i] = child[i] /\ answer'[i] = answer[i]
              /\ status'[i] = status[i] /\ trace'[i] = trace[i] /\ CallsOf(i)' = CallsOf(i)
    BY <1>1 DEF IInv, TypeOK, CallsOf
  <1>6. RunIsHonest(r)'
    <2>1. RunIsHonest(r)
      BY DEF Honest
    <2> QED
      BY <1>2, <1>3, <1>4, <1>5, <2>1 DEF RunIsHonest, HasResult, Early
  <1> QED
    BY <1>5, <1>6, OthersStayHonest

LEMMA SandboxSucceedsHonest ==
  ASSUME IInv, Honest, NEW r \in Run, SandboxSucceeds(r)
  PROVE  Honest'
  <1>1. PICK k \in calls :
           k.run = r /\ answer' = [answer EXCEPT ![r] = [value |-> k.value, cached |-> FALSE]]
    BY DEF SandboxSucceeds
  <1>2. /\ pc[r] = "waiting" /\ child[r] = "called"
        /\ pc' = [pc EXCEPT ![r] = "result"]
        /\ child' = [child EXCEPT ![r] = "none"]
        /\ Emit(r, "result")
        /\ UNCHANGED <<status, calls>>
    BY DEF SandboxSucceeds, WaitAt, worldVars
  <1>3. HasResult(r)' /\ \A i \in Run \ {r} : trace'[i] = trace[i]
    BY <1>2, EmitAdds DEF IInv
  <1>4. CallsOf(r) = {[run |-> r, value |-> k.value]}
    <2>1. PICK v \in Value : CallsOf(r) = {[run |-> r, value |-> v]}
      BY <1>2 DEF Honest, RunIsHonest
    <2>2. k \in CallsOf(r)
      BY <1>1 DEF CallsOf
    <2> QED
      BY <2>1, <2>2
  <1>5. /\ pc'[r] = "result" /\ child'[r] = "none" /\ status'[r] = status[r]
        /\ answer'[r] = [value |-> k.value, cached |-> FALSE]
        /\ CallsOf(r)' = CallsOf(r)
        /\ \A i \in Run \ {r} :
              /\ pc'[i] = pc[i] /\ child'[i] = child[i] /\ answer'[i] = answer[i]
              /\ status'[i] = status[i] /\ CallsOf(i)' = CallsOf(i)
    BY <1>1, <1>2 DEF IInv, TypeOK, CallsOf
  <1>6. status[r] = "none"
    BY <1>2 DEF Honest, RunIsHonest, Ended
  <1>7. RunIsHonest(r)'
    BY <1>3, <1>4, <1>5, <1>6 DEF RunIsHonest
  <1> QED
    BY <1>3, <1>5, <1>7, OthersStayHonest

LEMMA AdvanceHonest ==
  ASSUME IInv, Honest, NEW r \in Run, Advance(r) \/ SandboxRaises(r)
  PROVE  Honest'
  <1> USE DEF IInv
  <1>0. RunIsHonest(r) /\ RunFits(r)
    BY DEF Honest
  <1>1. CASE EmitStructure(r)
    BY <1>0, <1>1, EmitMoves DEF EmitStructure, worldVars, Suspended, Ended, RunIsHonest, Early
  <1>2. CASE StructureRaises(r)
    BY <1>2, EndMoves DEF StructureRaises, worldVars, Ended
  <1>3. CASE CacheHit(r)
    BY <1>3, CacheHitHonest
  <1>4. CASE Propose(r)
    BY <1>0, <1>4, EmitMoves
       DEF Propose, AtGate, Missed, AtLookup, worldVars, Suspended, Ended, RunIsHonest, Early
  <1>5. CASE RefuseToken(r)
    BY <1>5, CloseMoves DEF RefuseToken, worldVars, Status
  <1>6. CASE GateRaises(r)
    BY <1>6, EndMoves DEF GateRaises, worldVars, Ended
  <1>7. CASE FinishProposal(r)
    BY <1>7, CloseMoves DEF FinishProposal, worldVars, Status, Early
  <1>8. CASE GenerateCode(r)
    BY <1>0, <1>8, EmitMoves
       DEF GenerateCode, AtGate, Missed, AtLookup, worldVars, Suspended, Ended, RunIsHonest, Early
  <1>9. CASE CodeGenerationFails(r)
    BY <1>9, CloseMoves DEF CodeGenerationFails, worldVars, Status
  <1>10. CASE EmitExecuting(r)
    BY <1>0, <1>10, EmitMoves DEF EmitExecuting, worldVars, Suspended, Ended, RunIsHonest, Early
  <1>11. CASE StartChild(r)
    BY <1>11, StartChildHonest
  <1>12. CASE StartChildFails(r)
    BY <1>0, <1>12, EmitMoves DEF StartChildFails, worldVars, Suspended, Ended, RunIsHonest, Early
  <1>13. CASE SandboxSucceeds(r)
    BY <1>13, SandboxSucceedsHonest
  <1>14. CASE SandboxFails(r)
    BY <1>0, <1>14, EmitMoves DEF SandboxFails, worldVars, Suspended, Ended, RunIsHonest, Early
  <1>15. CASE FinishFailed(r)
    BY <1>15, CloseMoves DEF FinishFailed, worldVars, Status
  <1>16. CASE EmitCachedResult(r)
    BY <1>0, <1>16, EmitMoves DEF EmitCachedResult, worldVars, Suspended, RunIsHonest, Early
  <1>17. CASE EmitData(r)
    BY <1>0, <1>17, EmitMoves DEF EmitData, worldVars, Suspended, RunIsHonest, Early
  <1>18. CASE StoreResult(r)
    BY <1>0, <1>18, EmitMoves DEF StoreResult, AfterData, worldVars, Suspended, RunIsHonest, Early
  <1>19. CASE FinishOk(r)
    BY <1>0, <1>19, CloseMoves DEF FinishOk, AfterData, worldVars, Status, RunIsHonest, RunFits
  <1>20. CASE Return(r)
    BY <1>20, EndMoves DEF Return, worldVars, Ended
  <1>21. CASE IdentityRaises(r)
    BY <1>21, EndMoves DEF IdentityRaises, worldVars, Ended
  <1>22. CASE SandboxRaises(r)
    BY <1>22, EndMoves DEF SandboxRaises, worldVars, Ended
  <1>23. CASE StoreRaises(r)
    BY <1>23, EndMoves DEF StoreRaises, worldVars, Ended
  <1> QED
    BY <1>1, <1>2, <1>3, <1>4, <1>5, <1>6, <1>7, <1>8, <1>9, <1>10, <1>11, <1>12, <1>13,
       <1>14, <1>15, <1>16, <1>17, <1>18, <1>19, <1>20, <1>21, <1>22, <1>23 DEF Advance

LEMMA BeginHonest ==
  ASSUME IInv, Honest, NEW r \in Run, Begin(r)
  PROVE  Honest'
  <1>1. PICK event : Emit(r, event)
    BY DEF Begin, UnknownTool, SelectContract, Close
  <1>2. /\ pc[r] = "idle" /\ UNCHANGED <<answer, child, calls>>
        /\ \/ pc' = [pc EXCEPT ![r] = "selected"] /\ status' = status
           \/ pc' = [pc EXCEPT ![r] = "closing"] /\ status' = [status EXCEPT ![r] = "error"]
    BY DEF Begin, UnknownTool, SelectContract, Close, WaitAt, worldVars
  <1>3. RunIsHonest(r) /\ answer[r] = Nothing
    BY <1>2 DEF IInv, RunFits, Honest
  <1>4. /\ \/ pc'[r] = "selected" /\ status'[r] = status[r]
           \/ pc'[r] = "closing" /\ status'[r] = "error"
        /\ child'[r] = child[r] /\ answer'[r] = Nothing
    BY <1>2, <1>3 DEF IInv, TypeOK
  <1>5. \A i \in Run \ {r} :
           /\ pc'[i] = pc[i] /\ child'[i] = child[i] /\ answer'[i] = answer[i]
           /\ status'[i] = status[i] /\ trace'[i] = trace[i] /\ CallsOf(i)' = CallsOf(i)
    BY <1>1, <1>2, EmitAdds DEF IInv, TypeOK, CallsOf
  <1>6. RunIsHonest(r)'
    <2>1. CallsOf(r)' = CallsOf(r)
      BY <1>2 DEF CallsOf
    <2> QED
      BY <1>2, <1>3, <1>4, <2>1 DEF RunIsHonest, Ended
  <1> QED
    BY <1>5, <1>6, OthersStayHonest

LEMMA OrphanExitsHonest ==
  ASSUME IInv, Honest, NEW r \in Run, OrphanExits(r)
  PROVE  Honest'
  <1>1. child' = [child EXCEPT ![r] = "none"] /\ UNCHANGED <<pc, answer, status, trace, calls>>
    BY DEF OrphanExits, runVars, worldVars
  <1>2. /\ child'[r] = "none" /\ CallsOf(r)' = CallsOf(r)
        /\ \A i \in Run \ {r} : child'[i] = child[i] /\ CallsOf(i)' = CallsOf(i)
    BY <1>1 DEF IInv, TypeOK, CallsOf
  <1>3. RunIsHonest(r)'
    BY <1>1, <1>2 DEF Honest, RunIsHonest, HasResult
  <1> QED
    BY <1>1, <1>2, <1>3, OthersStayHonest

LEMMA RestartHonest ==
  ASSUME IInv, Honest, Restart
  PROVE  Honest'
  <1> SUFFICES ASSUME NEW i \in Run PROVE RunIsHonest(i)'
    BY DEF Honest
  <1>1. UNCHANGED <<child, answer, status, trace, calls>>
    BY DEF Restart
  <1>2. pc'[i] = pc[i] \/ pc'[i] = "killed"
    BY DEF Restart
  <1>3. RunIsHonest(i) /\ CallsOf(i)' = CallsOf(i)
    BY <1>1 DEF Honest, CallsOf
  <1> QED
    BY <1>1, <1>2, <1>3 DEF RunIsHonest, HasResult, Ended

LEMMA HonestHolds == Spec => []Honest
  <1>1. Init => Honest
    BY DEF Init, Honest, RunIsHonest, CallsOf
  <1>2. IInv /\ Honest /\ [Next]_vars => Honest'
    <2> SUFFICES ASSUME IInv, Honest, [Next]_vars PROVE Honest'
      OBVIOUS
    <2>1. ASSUME NEW r \in Run, Begin(r) PROVE Honest'
      BY <2>1, BeginHonest
    <2>2. ASSUME NEW r \in Run, Advance(r) \/ SandboxRaises(r) PROVE Honest'
      BY <2>2, AdvanceHonest
    <2>3. ASSUME NEW r \in Run, ChildCalls(r) PROVE Honest'
      BY <2>3, ChildCallsHonest
    <2>4. ASSUME NEW r \in Run, Abort(r) PROVE Honest'
      BY <2>4, EndMoves DEF Abort, worldVars, Ended, IInv
    <2>5. ASSUME NEW r \in Run, OrphanExits(r) PROVE Honest'
      BY <2>5, OrphanExitsHonest
    <2>6. CASE Restart
      BY <2>6, RestartHonest
    <2>7. CASE RefreshRegistry \/ ClearCaches \/ UpstreamChanges \/ Tick \/ UNCHANGED vars
      <3>1. UNCHANGED <<pc, child, answer, status, trace, calls>>
        BY <2>7 DEF RefreshRegistry, ClearCaches, UpstreamChanges, Tick, vars, runVars, worldVars
      <3> QED
        BY <3>1 DEF Honest, RunIsHonest, HasResult, CallsOf
    <2> QED
      BY <2>1, <2>2, <2>3, <2>4, <2>5, <2>6, <2>7 DEF Next, Environment
  <1> QED
    BY <1>1, <1>2, IInvHolds, PTL DEF Spec

(* What a run reports is what happened: ok only with an answer it has sent *)
(* and, unless it says cached, that of its one request; a run that was     *)
(* answered from the cache, or only proposed, never reached the upstream.  *)
THEOREM OutcomesAreHonest == Spec => []OutcomeIsHonest
  <1>1. Honest => OutcomeIsHonest
    BY DEF Honest, RunIsHonest, OutcomeIsHonest, HasResult
  <1> QED
    BY <1>1, HonestHolds, PTL
=============================================================================
