-------------------------- MODULE Executor_proofs --------------------------
(***************************************************************************)
(* Theorems about Executor, for every set of runs, contracts, arguments,   *)
(* principals and catalogs, and every number of ticks and restarts.        *)
(*                                                                         *)
(* The properties are not inductive.  What a run answers with depends on   *)
(* what other runs left in the caches (CachesFit); what reached the        *)
(* upstream depends on the gate the run passed some awaits ago (RunFits,   *)
(* CallsFit), and the gate on how tokens are made (ProposalsFit).          *)
(***************************************************************************)
EXTENDS Executor, TLAPS

\* Run r holds the token of a proposal that was issued for r's own key.
Permitted(r) == \E p \in proposals : p.token = call[r].token /\ p.token.key = Key(r)

PermittedHere(r) ==
    \E p \in proposals :
       p.token = call[r].token /\ p.token.secret = process /\ p.token.key = Key(r)

\* An answer was made by the code of r's contract, and asks nothing else than r
\* does: exactly r's arguments, or those of a read with the same key.
AnswerFits(r) ==
    answer[r] # Nothing =>
        /\ entry[r] \in Contract
        /\ answer[r].value.source = Generate(entry[r])
        /\ answer[r].value.principal = call[r].principal
        /\ answer[r].cached =>
              /\ IsCacheable(entry[r])
              /\ \E c \in Contract : CacheKey(c, answer[r].value.args, call[r].principal) = Key(r)
        /\ ~ answer[r].cached => answer[r].value.args = call[r].args

RunFits(r) ==
    /\ pc[r] = "idle" => child[r] = "none" /\ answer[r] = Nothing
    /\ pc[r] # "idle" => call[r] \in Call /\ call[r].token \in Known \cup ClientToken
    /\ pc[r] \in Suspended \ {"closing"} => entry[r] \in Contract
    /\ pc[r] \in {"coded", "executing", "waiting"} \/ child[r] # "none" =>
          /\ entry[r] \in Contract
          /\ module[r] = Generate(entry[r])
          /\ NeedsApproval(entry[r]) => Permitted(r)
    /\ pc[r] \in {"coded", "executing", "waiting", "failed"} /\ NeedsApproval(entry[r]) =>
          PermittedHere(r)
    /\ pc[r] \in {"hit", "result", "data", "stored"} => answer[r] # Nothing
    /\ AnswerFits(r)

CachesFit ==
    /\ \A e \in codeCache : e.source = e.key.generation
    /\ \A e \in resultCache : \E c \in Contract :
          /\ IsCacheable(c)
          /\ e.value.source = Generate(c)
          /\ e.key = CacheKey(c, e.value.args, e.value.principal)

ProposalsFit ==
    \A p \in proposals : \E c \in Contract, m \in Principal :
        p.token.key = CacheKey(c, p.shown, m)

CallsFit ==
    \A k \in calls :
        /\ pc[k.run] # "idle"
        /\ entry[k.run] \in Contract
        /\ k.value.source = Generate(entry[k.run])
        /\ k.value.principal = call[k.run].principal
        /\ k.value.args = call[k.run].args
        /\ NeedsApproval(entry[k.run]) => Permitted(k.run)

\* The inductive invariant.
IInv ==
    /\ TypeOK
    /\ \A r \in Run : RunFits(r)
    /\ CachesFit
    /\ ProposalsFit
    /\ CallsFit

-----------------------------------------------------------------------------
(* Lemmas about keys, tokens and caches.                                   *)

LEMMA CacheKeyType ==
  ASSUME NEW c \in Contract, NEW a \in ArgSet, NEW p \in Principal
  PROVE  CacheKey(c, a, p) \in ResultKey
  BY DEF ResultKey

LEMMA GenerateType == ASSUME NEW c \in Contract PROVE Generate(c) \in Source
  BY DEF Source

\* What equal keys agree on.
LEMMA CacheKeyInjective ==
  ASSUME NEW c, NEW a, NEW p, NEW d, NEW b, NEW q, CacheKey(c, a, p) = CacheKey(d, b, q)
  PROVE  /\ Generate(c) = Generate(d)
         /\ p = q
         /\ Relevant(c.keyBy, a) = Relevant(d.keyBy, b)
  BY DEF CacheKey, Generate, GenerationId

LEMMA CacheKeyParts ==
  ASSUME NEW c, NEW a, NEW p
  PROVE  /\ CacheKey(c, a, p).generation = Generate(c)
         /\ CacheKey(c, a, p).principal = p
  BY DEF CacheKey, Generate, GenerationId

LEMMA CacheableIsNoWrite ==
  ASSUME NEW c \in Contract, IsCacheable(c)
  PROVE  c.method \notin WriteMethod /\ Generate(c).method = c.method
  BY DEF IsCacheable, ReadOnly, Generate, Context

\* CodeCache.get or generate: either way, the code of this very contract.
LEMMA SourceForGenerates ==
  ASSUME CachesFit, NEW c \in Contract
  PROVE  SourceFor(c) = Generate(c)
  <1> DEFINE held == {e \in codeCache : e.key = CodeKey(c)}
  <1>1. CASE held = {}
    BY <1>1 DEF SourceFor
  <1>2. CASE held # {}
    <2>1. (CHOOSE e \in held : TRUE) \in held
      BY <1>2
    <2>2. (CHOOSE e \in held : TRUE).source = CodeKey(c).generation
      BY <2>1 DEF CachesFit
    <2> QED
      BY <1>2, <2>2 DEF SourceFor, CodeKey, Generate, GenerationId
  <1> QED
    BY <1>1, <1>2

LEMMA WithModuleFits ==
  ASSUME CachesFit, NEW c \in Contract,
         \A e \in codeCache : e \in [key : {CodeKey(d) : d \in Contract}, source : Source]
  PROVE  \A e \in WithModule(c) :
            /\ e \in [key : {CodeKey(d) : d \in Contract}, source : Source]
            /\ e.source = e.key.generation
  BY SourceForGenerates, GenerateType
     DEF WithModule, CachesFit, CodeKey, Generate, GenerationId

LEMMA KeyType ==
  ASSUME NEW r \in Run, entry[r] \in Contract, call[r] \in Call
  PROVE  Key(r) \in ResultKey
  BY CacheKeyType DEF Key, Call

LEMMA ApprovalTokenType ==
  ASSUME TypeOK, NEW r \in Run, entry[r] \in Contract, call[r] \in Call
  PROVE  ApprovalToken(r) \in Token
  BY KeyType DEF ApprovalToken, Token, TypeOK

\* The token that is accepted can only have come from a proposal of this process.
LEMMA ApprovedIsPermitted ==
  ASSUME TypeOK, NEW r \in Run, entry[r] \in Contract, call[r] \in Call,
         call[r].token \in Known \cup ClientToken, Approved(r), NeedsApproval(entry[r])
  PROVE  PermittedHere(r)
  <1>1. call[r].token = ApprovalToken(r)
    BY DEF Approved
  <1>2. call[r].token \in Known
    BY <1>1, ApprovalTokenType, TokenAssumption
  <1>3. PICK p \in proposals : p.token = call[r].token
    BY <1>2 DEF Known
  <1> QED
    BY <1>1, <1>3 DEF PermittedHere, ApprovalToken

LEMMA SomeAnswer ==
  ASSUME NEW v \in Value, NEW b \in BOOLEAN
  PROVE  [value |-> v, cached |-> b] \in Answer /\ [value |-> v, cached |-> b] # Nothing
  BY NothingAssumption DEF Answer

LEMMA EmitType ==
  ASSUME TypeOK, NEW r \in Run, NEW event \in Event, Emit(r, event)
  PROVE  trace' \in [Run -> Seq(Event)]
  <1>1. trace[r] \in Seq(Event)
    BY DEF TypeOK
  <1>2. Append(trace[r], event) \in Seq(Event)
    BY <1>1
  <1> QED
    BY <1>2 DEF TypeOK, Emit

-----------------------------------------------------------------------------
LEMMA InitIInv == Init => IInv
  <1> SUFFICES ASSUME Init PROVE IInv
    OBVIOUS
  <1> USE DEF Init
  <1>1. TypeOK
    BY DEF TypeOK, Status, Suspended
  <1>2. \A r \in Run : RunFits(r)
    BY DEF RunFits, AnswerFits, Suspended
  <1>3. CachesFit /\ ProposalsFit /\ CallsFit
    BY DEF CachesFit, ProposalsFit, CallsFit
  <1> QED
    BY <1>1, <1>2, <1>3 DEF IInv

-----------------------------------------------------------------------------
(* Steps that disturb little.                                              *)

LEMMA OthersStayFit ==
  ASSUME NEW r \in Run, IInv,
         process' = process, proposals \subseteq proposals',
         \A i \in Run \ {r} :
            /\ pc'[i] = pc[i] /\ call'[i] = call[i] /\ entry'[i] = entry[i]
            /\ module'[i] = module[i] /\ answer'[i] = answer[i] /\ child'[i] = child[i]
  PROVE  \A i \in Run \ {r} : RunFits(i)'
  <1> TAKE i \in Run \ {r}
  <1>1. RunFits(i)
    BY DEF IInv
  <1>2. Known \subseteq Known'
    BY DEF Known
  <1>3. Key(i)' = Key(i)
    BY DEF Key
  <1>4. Permitted(i) => Permitted(i)'
    BY <1>3 DEF Permitted
  <1>5. PermittedHere(i) => PermittedHere(i)'
    BY <1>3 DEF PermittedHere
  <1>6. AnswerFits(i)'
    BY <1>1, <1>3 DEF RunFits, AnswerFits
  <1> QED
    BY <1>1, <1>2, <1>4, <1>5, <1>6 DEF RunFits

LEMMA CallsStayFit ==
  ASSUME IInv, calls' = calls, proposals \subseteq proposals',
         \A i \in Run : pc[i] # "idle" =>
            pc'[i] # "idle" /\ call'[i] = call[i] /\ entry'[i] = entry[i]
  PROVE  CallsFit'
  <1> SUFFICES ASSUME NEW k \in calls
               PROVE  /\ pc'[k.run] # "idle"
                      /\ entry'[k.run] \in Contract
                      /\ k.value.source = Generate(entry'[k.run])
                      /\ k.value.principal = call'[k.run].principal
                      /\ k.value.args = call'[k.run].args
                      /\ NeedsApproval(entry'[k.run]) => Permitted(k.run)'
    BY DEF CallsFit
  <1>1. k.run \in Run
    BY DEF IInv, TypeOK
  <1>2. call'[k.run] = call[k.run] /\ entry'[k.run] = entry[k.run] /\ pc'[k.run] # "idle"
    BY <1>1 DEF IInv, CallsFit
  <1>3. Permitted(k.run) => Permitted(k.run)'
    BY <1>2 DEF Permitted, Key
  <1> QED
    BY <1>2, <1>3 DEF IInv, CallsFit

LEMMA CachesStayFit ==
  ASSUME IInv, resultCache' \subseteq resultCache, codeCache' \subseteq codeCache
  PROVE  CachesFit'
  BY DEF IInv, CachesFit

\* A run moves on or stops, and changes nothing but what it is about to say.
LEMMA QuietStep ==
  ASSUME IInv, NEW r \in Run, NEW label \in Suspended \cup Ended,
         pc[r] # "idle",
         label \in Suspended \ {"closing"} => pc[r] \in Suspended \ {"closing"},
         label \in {"coded", "executing", "waiting"} => pc[r] \in {"coded", "executing", "waiting"},
         label = "failed" => pc[r] \in {"executing", "waiting"},
         label \in {"hit", "result", "data", "stored"} =>
            pc[r] \in {"hit", "result", "data", "stored"},
         WaitAt(r, label),
         trace' \in [Run -> Seq(Event)],
         status' \in [Run -> Status],
         child' = child \/ child' = [child EXCEPT ![r] = "none"],
         resultCache' \subseteq resultCache,
         UNCHANGED <<catalog, codeCache, call, entry, module, answer, calls, upstream, now,
                     process, proposals>>
  PROVE  IInv'
  <1>1. pc' = [pc EXCEPT ![r] = label] /\ pc \in [Run -> {"idle"} \cup Suspended \cup Ended]
    BY DEF WaitAt, IInv, TypeOK
  <1>2. TypeOK'
    BY <1>1 DEF IInv, TypeOK
  <1>3. CachesFit' /\ ProposalsFit'
    BY CachesStayFit DEF IInv, ProposalsFit
  <1>4. CallsFit'
    <2>1. label # "idle"
      BY DEF Suspended, Ended
    <2> QED
      BY CallsStayFit, <1>1, <2>1
  <1>5. \A i \in Run \ {r} : RunFits(i)'
    BY OthersStayFit, <1>1 DEF IInv, TypeOK
  <1>6. RunFits(r)'
    <2>1. RunFits(r) /\ child'[r] \in {child[r], "none"} /\ pc'[r] = label /\ label # "idle"
      BY <1>1 DEF IInv, TypeOK, Suspended, Ended
    <2>2. Known' = Known /\ Key(r)' = Key(r)
      BY DEF Known, Key
    <2>3. Permitted(r)' = Permitted(r) /\ PermittedHere(r)' = PermittedHere(r)
      BY <2>2 DEF Permitted, PermittedHere
    <2>4. AnswerFits(r)'
      BY <2>1, <2>2 DEF RunFits, AnswerFits
    <2> QED
      BY <2>1, <2>2, <2>3, <2>4 DEF RunFits, Suspended
  <1> QED
    BY <1>2, <1>3, <1>4, <1>5, <1>6 DEF IInv

\* The last event of a run, or one of its early returns.
LEMMA CloseStep ==
  ASSUME IInv, NEW r \in Run, NEW event \in Event, NEW outcome \in Status,
         Close(r, event, outcome), pc[r] \in Suspended,
         resultCache' \subseteq resultCache,
         UNCHANGED <<catalog, codeCache, call, entry, module, answer, child,
                     calls, upstream, now, process, proposals>>
  PROVE  IInv'
  <1>1. trace' \in [Run -> Seq(Event)]
    BY EmitType DEF Close, IInv
  <1>2. status' \in [Run -> Status]
    BY DEF Close, IInv, TypeOK
  <1>3. WaitAt(r, "closing") /\ "closing" \in Suspended \cup Ended /\ pc[r] # "idle"
    BY DEF Close, Suspended
  <1> QED
    BY QuietStep, <1>1, <1>2, <1>3 DEF Suspended

\* One more event, with nothing else to report.
LEMMA EmitStep ==
  ASSUME IInv, NEW r \in Run, NEW event \in Event, NEW label \in Suspended \ {"closing"},
         pc[r] \in Suspended \ {"closing"},
         label \in {"coded", "executing", "waiting"} => pc[r] \in {"coded", "executing", "waiting"},
         label = "failed" => pc[r] \in {"executing", "waiting"},
         label \in {"hit", "result", "data", "stored"} =>
            pc[r] \in {"hit", "result", "data", "stored"},
         Emit(r, event), WaitAt(r, label),
         child' = child \/ child' = [child EXCEPT ![r] = "none"],
         UNCHANGED <<catalog, resultCache, codeCache, call, entry, module, answer, status,
                     calls, upstream, now, process, proposals>>
  PROVE  IInv'
  <1>1. trace' \in [Run -> Seq(Event)]
    BY EmitType DEF IInv
  <1>2. status' \in [Run -> Status]
    BY DEF IInv, TypeOK
  <1>3. pc[r] # "idle" /\ label \in Suspended \cup Ended
    BY DEF Suspended
  <1> QED
    BY QuietStep, <1>1, <1>2, <1>3

\* A run ends without another event.
LEMMA EndStep ==
  ASSUME IInv, NEW r \in Run, NEW label \in Ended, WaitAt(r, label), pc[r] \in Suspended,
         resultCache' \subseteq resultCache,
         child' = child \/ child' = [child EXCEPT ![r] = "none"],
         UNCHANGED <<catalog, codeCache, call, entry, module, answer, status, trace,
                     calls, upstream, now, process, proposals>>
  PROVE  IInv'
  <1>1. trace' \in [Run -> Seq(Event)] /\ status' \in [Run -> Status]
    BY DEF IInv, TypeOK
  <1>2. pc[r] # "idle" /\ label \in Suspended \cup Ended
    BY DEF Suspended
  <1>3. label \notin Suspended /\ label \notin {"coded", "executing", "waiting", "failed",
                                                "hit", "result", "data", "stored"}
    BY DEF Suspended, Ended
  <1> QED
    BY QuietStep, <1>1, <1>2, <1>3

-----------------------------------------------------------------------------
(* The steps of a run that leave something behind.                         *)

LEMMA CacheHitIInv ==
  ASSUME IInv, NEW r \in Run, CacheHit(r)
  PROVE  IInv'
  <1>1. PICK e \in Fresh(r) : answer' = [answer EXCEPT ![r] = [value |-> e.value, cached |-> TRUE]]
    BY DEF CacheHit
  <1>2. /\ IsCacheable(entry[r])
        /\ pc[r] \in {"selected", "surfaced"}
        /\ pc' = [pc EXCEPT ![r] = "hit"]
        /\ UNCHANGED <<catalog, resultCache, codeCache, call, entry, module, status, child,
                       calls, upstream, now, process, proposals>>
    BY DEF CacheHit, AtLookup, WaitAt, cacheVars, worldVars
  <1>3. RunFits(r) /\ entry[r] \in Contract /\ call[r] \in Call
    BY <1>2 DEF IInv, RunFits, Suspended
  <1>4. e \in resultCache /\ e.key = Key(r) /\ e.value \in Value
    BY DEF Fresh, IInv, TypeOK
  <1>5. PICK c \in Contract : /\ e.value.source = Generate(c)
                              /\ e.key = CacheKey(c, e.value.args, e.value.principal)
    BY <1>4 DEF IInv, CachesFit
  <1>6. Generate(c) = Generate(entry[r]) /\ e.value.principal = call[r].principal
    <2>1. CacheKey(c, e.value.args, e.value.principal)
             = CacheKey(entry[r], call[r].args, call[r].principal)
      BY <1>4, <1>5 DEF Key
    <2> QED
      BY <2>1, CacheKeyInjective
  <1>7. TypeOK'
    <2>1. trace' \in [Run -> Seq(Event)]
      BY EmitType DEF IInv, CacheHit, Event
    <2>2. answer' \in [Run -> Answer \cup {Nothing}]
      BY <1>1, <1>4, SomeAnswer DEF IInv, TypeOK
    <2> QED
      BY <1>2, <2>1, <2>2 DEF IInv, TypeOK, Suspended
  <1>8. CachesFit' /\ ProposalsFit' /\ CallsFit'
    BY <1>2, CachesStayFit, CallsStayFit DEF IInv, TypeOK, ProposalsFit
  <1>9. \A i \in Run \ {r} : RunFits(i)'
    BY <1>1, <1>2, OthersStayFit DEF IInv, TypeOK
  <1>10. RunFits(r)'
    <2>1. /\ pc'[r] = "hit" /\ child'[r] = child[r]
          /\ answer'[r] = [value |-> e.value, cached |-> TRUE] /\ answer'[r] # Nothing
      BY <1>1, <1>2, <1>4, SomeAnswer DEF IInv, TypeOK
    <2>2. Key(r)' = Key(r) /\ Known' = Known /\ Permitted(r)' = Permitted(r)
      BY <1>2 DEF Key, Known, Permitted
    <2>3. AnswerFits(r)'
      <3>1. CacheKey(c, e.value.args, call[r].principal) = Key(r)
        BY <1>4, <1>5, <1>6
      <3>2. e.value.source = Generate(entry[r]) /\ e.value.principal = call[r].principal
        BY <1>5, <1>6
      <3>3. answer'[r].value = e.value /\ answer'[r].cached = TRUE
        BY <2>1
      <3>4. entry'[r] = entry[r] /\ call'[r] = call[r]
        BY <1>2
      <3> QED
        BY <1>2, <1>3, <2>2, <3>1, <3>2, <3>3, <3>4 DEF AnswerFits
    <2> QED
      BY <1>2, <1>3, <2>1, <2>2, <2>3 DEF RunFits
  <1> QED
    BY <1>7, <1>8, <1>9, <1>10 DEF IInv

LEMMA ProposeIInv ==
  ASSUME IInv, NEW r \in Run, Propose(r)
  PROVE  IInv'
  <1>1. /\ pc[r] \in {"selected", "surfaced"}
        /\ pc' = [pc EXCEPT ![r] = "proposed"]
        /\ resultCache' \subseteq resultCache
        /\ UNCHANGED <<catalog, codeCache, call, entry, module, answer, status, child,
                       calls, upstream, now, process>>
    BY DEF Propose, AtGate, Missed, AtLookup, AfterMiss, WaitAt, worldVars
  <1>2. RunFits(r) /\ entry[r] \in Contract /\ call[r] \in Call
    BY <1>1 DEF IInv, RunFits, Suspended
  <1> DEFINE p0 == [token |-> ApprovalToken(r), shown |-> call[r].args]
  <1>3. p0 \in [token : Token, shown : ArgSet]
    BY <1>2, ApprovalTokenType DEF IInv, Call
  <1>4. proposals' = proposals \cup {p0} /\ proposals \subseteq proposals'
    BY DEF Propose
  <1>5. TypeOK'
    <2>1. trace' \in [Run -> Seq(Event)]
      BY EmitType DEF IInv, Propose, Event
    <2> HIDE DEF p0
    <2> QED
      BY <1>1, <1>3, <1>4, <2>1 DEF IInv, TypeOK, Suspended
  <1>6. ProposalsFit'
    BY <1>2, <1>4 DEF IInv, ProposalsFit, ApprovalToken, Key, Call
  <1>7. CachesFit' /\ CallsFit'
    BY <1>1, <1>4, CachesStayFit, CallsStayFit DEF IInv, TypeOK
  <1>8. \A i \in Run \ {r} : RunFits(i)'
    BY <1>1, <1>4, OthersStayFit DEF IInv, TypeOK
  <1>9. RunFits(r)'
    <2>1. pc'[r] = "proposed" /\ Known \subseteq Known' /\ Key(r)' = Key(r)
      BY <1>1, <1>4 DEF IInv, TypeOK, Known, Key
    <2>2. AnswerFits(r)'
      BY <1>1, <1>2, <2>1 DEF RunFits, AnswerFits
    <2>3. Permitted(r) => Permitted(r)'
      BY <1>1, <1>4, <2>1 DEF Permitted
    <2> QED
      BY <1>1, <1>2, <2>1, <2>2, <2>3 DEF RunFits
  <1> QED
    BY <1>5, <1>6, <1>7, <1>8, <1>9 DEF IInv

LEMMA CodeCacheStaysFit ==
  ASSUME IInv, NEW c \in Contract, codeCache' \in {codeCache, WithModule(c)},
         resultCache' \subseteq resultCache
  PROVE  /\ CachesFit'
         /\ \A e \in codeCache' : e \in [key : {CodeKey(d) : d \in Contract}, source : Source]
  <1>1. CachesFit /\ \A e \in codeCache : e \in [key : {CodeKey(d) : d \in Contract}, source : Source]
    BY DEF IInv, TypeOK
  <1>2. \A e \in codeCache' :
           /\ e \in [key : {CodeKey(d) : d \in Contract}, source : Source]
           /\ e.source = e.key.generation
    <2>1. CASE codeCache' = codeCache
      BY <1>1, <2>1 DEF CachesFit
    <2>2. CASE codeCache' = WithModule(c)
      BY <1>1, <2>2, WithModuleFits
    <2> QED
      BY <2>1, <2>2
  <1> QED
    BY <1>1, <1>2 DEF CachesFit

LEMMA GenerateCodeIInv ==
  ASSUME IInv, NEW r \in Run, GenerateCode(r)
  PROVE  IInv'
  <1>1. /\ pc[r] \in {"selected", "surfaced"}
        /\ pc' = [pc EXCEPT ![r] = "coded"]
        /\ module' = [module EXCEPT ![r] = SourceFor(entry[r])]
        /\ codeCache' = WithModule(entry[r])
        /\ resultCache' \subseteq resultCache
        /\ UNCHANGED <<catalog, call, entry, answer, status, child,
                       calls, upstream, now, process, proposals>>
    BY DEF GenerateCode, AtGate, Missed, AtLookup, AfterMiss, WaitAt, worldVars
  <1>2. RunFits(r) /\ entry[r] \in Contract /\ call[r] \in Call
    BY <1>1 DEF IInv, RunFits, Suspended
  <1>3. SourceFor(entry[r]) = Generate(entry[r]) /\ Generate(entry[r]) \in Source
    BY <1>2, SourceForGenerates, GenerateType DEF IInv
  <1>4. NeedsApproval(entry[r]) => PermittedHere(r)
    BY <1>1, <1>2, ApprovedIsPermitted DEF IInv, GenerateCode, RunFits
  <1>5. CachesFit' /\ \A e \in codeCache' : e \in [key : {CodeKey(d) : d \in Contract}, source : Source]
    BY <1>1, <1>2, CodeCacheStaysFit
  <1>6. TypeOK'
    <2>1. trace' \in [Run -> Seq(Event)]
      BY EmitType DEF IInv, GenerateCode, Event
    <2>2. module' \in [Run -> Source \cup {Nothing}]
      BY <1>1, <1>3 DEF IInv, TypeOK
    <2> QED
      BY <1>1, <1>5, <2>1, <2>2 DEF IInv, TypeOK, Suspended
  <1>7. ProposalsFit' /\ CallsFit'
    BY <1>1, CallsStayFit DEF IInv, TypeOK, ProposalsFit
  <1>8. \A i \in Run \ {r} : RunFits(i)'
    BY <1>1, OthersStayFit DEF IInv, TypeOK
  <1>9. RunFits(r)'
    <2>1. pc'[r] = "coded" /\ child'[r] = child[r] /\ module'[r] = Generate(entry[r])
      BY <1>1, <1>3 DEF IInv, TypeOK
    <2>2. Key(r)' = Key(r) /\ Known' = Known
      BY <1>1 DEF Key, Known
    <2>3. NeedsApproval(entry[r]) => Permitted(r)' /\ PermittedHere(r)'
      BY <1>1, <1>4, <2>2 DEF Permitted, PermittedHere
    <2>4. AnswerFits(r)'
      BY <1>1, <1>2, <2>2 DEF RunFits, AnswerFits
    <2> QED
      BY <1>1, <1>2, <2>1, <2>2, <2>3, <2>4 DEF RunFits
  <1> QED
    BY <1>5, <1>6, <1>7, <1>8, <1>9 DEF IInv

LEMMA CodeGenerationFailsIInv ==
  ASSUME IInv, NEW r \in Run, CodeGenerationFails(r)
  PROVE  IInv'
  <1>1. /\ pc[r] \in {"selected", "surfaced"}
        /\ pc' = [pc EXCEPT ![r] = "closing"]
        /\ status' = [status EXCEPT ![r] = "error"]
        /\ codeCache' \in {codeCache, WithModule(entry[r])}
        /\ resultCache' \subseteq resultCache
        /\ UNCHANGED <<catalog, call, entry, module, answer, child,
                       calls, upstream, now, process, proposals>>
    BY DEF CodeGenerationFails, AtGate, Missed, AtLookup, AfterMiss, Close, WaitAt, worldVars
  <1>2. RunFits(r) /\ entry[r] \in Contract
    BY <1>1 DEF IInv, RunFits, Suspended
  <1>3. CachesFit' /\ \A e \in codeCache' : e \in [key : {CodeKey(d) : d \in Contract}, source : Source]
    BY <1>1, <1>2, CodeCacheStaysFit
  <1>4. TypeOK'
    <2>1. trace' \in [Run -> Seq(Event)]
      BY EmitType DEF IInv, CodeGenerationFails, Close, Event
    <2> QED
      BY <1>1, <1>3, <2>1 DEF IInv, TypeOK, Suspended, Status
  <1>5. ProposalsFit' /\ CallsFit'
    BY <1>1, CallsStayFit DEF IInv, TypeOK, ProposalsFit
  <1>6. \A i \in Run \ {r} : RunFits(i)'
    BY <1>1, OthersStayFit DEF IInv, TypeOK
  <1>7. RunFits(r)'
    <2>1. pc'[r] = "closing"
      BY <1>1 DEF IInv, TypeOK
    <2>2. Key(r)' = Key(r) /\ Known' = Known
      BY <1>1 DEF Key, Known
    <2>3. Permitted(r) => Permitted(r)'
      BY <1>1, <2>2 DEF Permitted
    <2>4. AnswerFits(r)'
      BY <1>1, <1>2, <2>2 DEF RunFits, AnswerFits
    <2> QED
      BY <1>1, <1>2, <2>1, <2>2, <2>3, <2>4 DEF RunFits
  <1> QED
    BY <1>3, <1>4, <1>5, <1>6, <1>7 DEF IInv

LEMMA StartChildIInv ==
  ASSUME IInv, NEW r \in Run, StartChild(r)
  PROVE  IInv'
  <1>1. /\ pc[r] = "executing"
        /\ pc' = [pc EXCEPT ![r] = "waiting"]
        /\ child' = [child EXCEPT ![r] = "running"]
        /\ UNCHANGED <<catalog, resultCache, codeCache, call, entry, module, answer, status, trace,
                       calls, upstream, now, process, proposals>>
    BY DEF StartChild, WaitAt, cacheVars, worldVars
  <1>2. TypeOK'
    BY <1>1 DEF IInv, TypeOK, Suspended
  <1>3. CachesFit' /\ ProposalsFit' /\ CallsFit'
    BY <1>1, CachesStayFit, CallsStayFit DEF IInv, TypeOK, ProposalsFit
  <1>4. \A i \in Run \ {r} : RunFits(i)'
    BY <1>1, OthersStayFit DEF IInv, TypeOK
  <1>5. RunFits(r)'
    <2>1. RunFits(r) /\ pc'[r] = "waiting"
      BY <1>1 DEF IInv, TypeOK
    <2>2. Key(r)' = Key(r) /\ Known' = Known
      BY <1>1 DEF Key, Known
    <2>3. Permitted(r)' = Permitted(r) /\ PermittedHere(r)' = PermittedHere(r)
      BY <1>1, <2>2 DEF Permitted, PermittedHere
    <2>4. AnswerFits(r)'
      BY <1>1, <2>1, <2>2 DEF RunFits, AnswerFits
    <2> QED
      BY <1>1, <2>1, <2>2, <2>3, <2>4 DEF RunFits, Suspended
  <1> QED
    BY <1>2, <1>3, <1>4, <1>5 DEF IInv

LEMMA SandboxSucceedsIInv ==
  ASSUME IInv, NEW r \in Run, SandboxSucceeds(r)
  PROVE  IInv'
  <1>1. PICK k \in calls :
           k.run = r /\ answer' = [answer EXCEPT ![r] = [value |-> k.value, cached |-> FALSE]]
    BY DEF SandboxSucceeds
  <1>2. /\ pc[r] = "waiting"
        /\ pc' = [pc EXCEPT ![r] = "result"]
        /\ child' = [child EXCEPT ![r] = "none"]
        /\ UNCHANGED <<catalog, resultCache, codeCache, call, entry, module, status,
                       calls, upstream, now, process, proposals>>
    BY DEF SandboxSucceeds, WaitAt, cacheVars, worldVars
  <1>3. /\ k.value \in Value
        /\ k.value.source = Generate(entry[r])
        /\ k.value.principal = call[r].principal
        /\ k.value.args = call[r].args
    BY <1>1 DEF IInv, TypeOK, CallsFit
  <1>4. TypeOK'
    <2>1. trace' \in [Run -> Seq(Event)]
      BY EmitType DEF IInv, SandboxSucceeds, Event
    <2>2. answer' \in [Run -> Answer \cup {Nothing}]
      BY <1>1, <1>3, SomeAnswer DEF IInv, TypeOK
    <2> QED
      BY <1>2, <2>1, <2>2 DEF IInv, TypeOK, Suspended
  <1>5. CachesFit' /\ ProposalsFit' /\ CallsFit'
    BY <1>2, CachesStayFit, CallsStayFit DEF IInv, TypeOK, ProposalsFit
  <1>6. \A i \in Run \ {r} : RunFits(i)'
    BY <1>1, <1>2, OthersStayFit DEF IInv, TypeOK
  <1>7. RunFits(r)'
    <2>1. /\ RunFits(r) /\ pc'[r] = "result" /\ child'[r] = "none"
          /\ answer'[r] = [value |-> k.value, cached |-> FALSE] /\ answer'[r] # Nothing
      BY <1>1, <1>2, <1>3, SomeAnswer DEF IInv, TypeOK
    <2>2. Known' = Known /\ entry[r] \in Contract
      BY <1>2, <2>1 DEF Known, RunFits
    <2>3. answer'[r].value = k.value /\ answer'[r].cached = FALSE
      BY <2>1
    <2>4. AnswerFits(r)'
      BY <1>2, <1>3, <2>2, <2>3 DEF AnswerFits
    <2> QED
      BY <1>2, <2>1, <2>2, <2>4 DEF RunFits
  <1> QED
    BY <1>4, <1>5, <1>6, <1>7 DEF IInv

LEMMA StoreResultIInv ==
  ASSUME IInv, NEW r \in Run, StoreResult(r)
  PROVE  IInv'
  <1>1. /\ pc[r] \in {"result", "data"}
        /\ ~ answer[r].cached /\ IsCacheable(entry[r])
        /\ pc' = [pc EXCEPT ![r] = "stored"]
        /\ resultCache' = Stored(r)
        /\ UNCHANGED <<catalog, codeCache, call, entry, module, answer, status, child,
                       calls, upstream, now, process, proposals>>
    BY DEF StoreResult, AfterData, MustStore, WaitAt, worldVars
  <1>2. RunFits(r) /\ entry[r] \in Contract /\ call[r] \in Call /\ answer[r] # Nothing
    BY <1>1 DEF IInv, RunFits, Suspended
  <1>3. /\ answer[r].value \in Value
        /\ answer[r].value.source = Generate(entry[r])
        /\ Key(r) = CacheKey(entry[r], answer[r].value.args, answer[r].value.principal)
    BY <1>1, <1>2 DEF IInv, TypeOK, Answer, RunFits, AnswerFits, Key
  <1> DEFINE new == [key |-> Key(r), value |-> answer[r].value, storedAt |-> now,
                     ttl |-> entry[r].ttl, expiresAt |-> ExpiresAt(entry[r])]
  <1>4. new \in [key : ResultKey, value : Value, storedAt : Nat, ttl : Nat,
                 expiresAt : Nat \cup {Forever}]
    <2>1. entry[r].ttl \in Nat /\ ExpiresAt(entry[r]) \in Nat \cup {Forever}
      BY <1>2, ContractAssumption DEF ExpiresAt, IInv, TypeOK, ContractType
    <2> QED
      BY <1>2, <1>3, <2>1, KeyType DEF IInv, TypeOK
  <1>5. resultCache' \subseteq resultCache \cup {new}
    BY <1>1 DEF Stored
  <1>6. TypeOK'
    <2>1. trace' \in [Run -> Seq(Event)]
      BY EmitType DEF IInv, StoreResult, Event
    <2> HIDE DEF new
    <2> QED
      BY <1>1, <1>4, <1>5, <2>1 DEF IInv, TypeOK, Suspended
  <1>7. CachesFit'
    <2>1. /\ IsCacheable(entry[r])
          /\ new.value.source = Generate(entry[r])
          /\ new.key = CacheKey(entry[r], new.value.args, new.value.principal)
      BY <1>1, <1>3
    <2> HIDE DEF new
    <2> QED
      BY <1>1, <1>2, <1>5, <2>1 DEF IInv, CachesFit
  <1>8. ProposalsFit' /\ CallsFit'
    BY <1>1, CallsStayFit DEF IInv, TypeOK, ProposalsFit
  <1>9. \A i \in Run \ {r} : RunFits(i)'
    BY <1>1, OthersStayFit DEF IInv, TypeOK
  <1>10. RunFits(r)'
    <2>1. pc'[r] = "stored"
      BY <1>1 DEF IInv, TypeOK
    <2>2. Key(r)' = Key(r) /\ Known' = Known
      BY <1>1 DEF Key, Known
    <2>3. Permitted(r) => Permitted(r)'
      BY <1>1, <2>2 DEF Permitted
    <2>4. AnswerFits(r)'
      BY <1>1, <1>2, <2>2 DEF RunFits, AnswerFits
    <2> QED
      BY <1>1, <1>2, <2>1, <2>2, <2>3, <2>4 DEF RunFits
  <1> QED
    BY <1>6, <1>7, <1>8, <1>9, <1>10 DEF IInv

-----------------------------------------------------------------------------
(* Every step of a run that has begun.                                     *)

LEMMA AdvanceIInv ==
  ASSUME IInv, NEW r \in Run, Advance(r) \/ SandboxRaises(r)
  PROVE  IInv'
  <1>1. CASE EmitStructure(r)
    BY <1>1, EmitStep DEF EmitStructure, cacheVars, worldVars, Event, Suspended
  <1>2. CASE StructureRaises(r)
    BY <1>2, EndStep DEF StructureRaises, cacheVars, worldVars, Suspended, Ended
  <1>3. CASE CacheHit(r)
    BY <1>3, CacheHitIInv
  <1>4. CASE Propose(r)
    BY <1>4, ProposeIInv
  <1>5. CASE RefuseToken(r)
    BY <1>5, CloseStep
       DEF RefuseToken, AtGate, Missed, AtLookup, AfterMiss, worldVars, Event, Status, Suspended
  <1>6. CASE FinishProposal(r)
    BY <1>6, CloseStep DEF FinishProposal, cacheVars, worldVars, Event, Status, Suspended
  <1>7. CASE GenerateCode(r)
    BY <1>7, GenerateCodeIInv
  <1>8. CASE CodeGenerationFails(r)
    BY <1>8, CodeGenerationFailsIInv
  <1>9. CASE EmitExecuting(r)
    BY <1>9, EmitStep DEF EmitExecuting, cacheVars, worldVars, Event, Suspended
  <1>10. CASE StartChild(r)
    BY <1>10, StartChildIInv
  <1>11. CASE StartChildFails(r)
    BY <1>11, EmitStep DEF StartChildFails, cacheVars, worldVars, Event, Suspended
  <1>12. CASE SandboxSucceeds(r)
    BY <1>12, SandboxSucceedsIInv
  <1>13. CASE SandboxFails(r)
    BY <1>13, EmitStep DEF SandboxFails, cacheVars, worldVars, Event, Suspended
  <1>14. CASE FinishFailed(r)
    BY <1>14, CloseStep DEF FinishFailed, cacheVars, worldVars, Event, Status, Suspended
  <1>15. CASE EmitCachedResult(r)
    BY <1>15, EmitStep DEF EmitCachedResult, cacheVars, worldVars, Event, Suspended
  <1>16. CASE EmitData(r)
    BY <1>16, EmitStep DEF EmitData, cacheVars, worldVars, Event, Suspended
  <1>17. CASE StoreResult(r)
    BY <1>17, StoreResultIInv
  <1>18. CASE FinishOk(r)
    BY <1>18, CloseStep DEF FinishOk, AfterData, cacheVars, worldVars, Event, Status, Suspended
  <1>19. CASE Return(r)
    BY <1>19, EndStep DEF Return, cacheVars, worldVars, Suspended, Ended
  <1>20. CASE IdentityRaises(r)
    BY <1>20, EndStep DEF IdentityRaises, AtLookup, cacheVars, worldVars, Suspended, Ended
  <1>21. CASE GateRaises(r)
    BY <1>21, EndStep
       DEF GateRaises, Missed, AtLookup, AfterMiss, worldVars, Suspended, Ended
  <1>22. CASE SandboxRaises(r)
    BY <1>22, EndStep DEF SandboxRaises, cacheVars, worldVars, Suspended, Ended
  <1>23. CASE StoreRaises(r)
    BY <1>23, EndStep DEF StoreRaises, AfterData, cacheVars, worldVars, Suspended, Ended
  <1> QED
    BY <1>1, <1>2, <1>3, <1>4, <1>5, <1>6, <1>7, <1>8, <1>9, <1>10, <1>11, <1>12, <1>13,
       <1>14, <1>15, <1>16, <1>17, <1>18, <1>19, <1>20, <1>21, <1>22, <1>23 DEF Advance

-----------------------------------------------------------------------------
(* The other steps.                                                        *)

LEMMA BeginIInv ==
  ASSUME IInv, NEW r \in Run, Begin(r)
  PROVE  IInv'
  <1>1. PICK q \in Call :
           q.token \in Known \cup ClientToken /\ (UnknownTool(r, q) \/ SelectContract(r, q))
    <2>1. Known \subseteq Token
      BY DEF Known, IInv, TypeOK
    <2> QED
      BY <2>1 DEF Begin, Call
  <1>2. /\ pc[r] = "idle"
        /\ call' = [call EXCEPT ![r] = q]
        /\ UNCHANGED <<catalog, resultCache, codeCache, module, answer, child,
                       calls, upstream, now, process, proposals>>
        /\ \/ /\ pc' = [pc EXCEPT ![r] = "closing"]
              /\ status' = [status EXCEPT ![r] = "error"]
              /\ UNCHANGED entry
           \/ /\ pc' = [pc EXCEPT ![r] = "selected"]
              /\ entry' = [entry EXCEPT ![r] = catalog[q.tool]]
              /\ catalog[q.tool] \in Contract
              /\ UNCHANGED status
    BY <1>1, CatalogAssumption
       DEF UnknownTool, SelectContract, Close, WaitAt, cacheVars, worldVars, Call, IInv, TypeOK
  <1>3. RunFits(r)
    BY DEF IInv
  <1>4. TypeOK'
    <2>1. trace' \in [Run -> Seq(Event)]
      BY <1>1, EmitType DEF IInv, UnknownTool, SelectContract, Close, Event
    <2> QED
      BY <1>2, <2>1 DEF IInv, TypeOK, Suspended, Status
  <1>5. CachesFit' /\ ProposalsFit'
    BY <1>2, CachesStayFit DEF IInv, ProposalsFit
  <1>6. CallsFit'
    BY <1>2, CallsStayFit DEF IInv, TypeOK
  <1>7. \A i \in Run \ {r} : RunFits(i)'
    BY <1>2, OthersStayFit DEF IInv, TypeOK
  <1>8. RunFits(r)'
    <2>1. /\ pc'[r] \in {"closing", "selected"} /\ call'[r] = q
          /\ child'[r] = "none" /\ answer'[r] = Nothing /\ Known' = Known
      BY <1>2, <1>3 DEF IInv, TypeOK, RunFits, Known
    <2>2. pc'[r] = "selected" => entry'[r] \in Contract
      BY <1>2 DEF IInv, TypeOK
    <2> QED
      BY <1>1, <2>1, <2>2 DEF RunFits, AnswerFits
  <1> QED
    BY <1>4, <1>5, <1>6, <1>7, <1>8 DEF IInv

LEMMA ChildCallsIInv ==
  ASSUME IInv, NEW r \in Run, ChildCalls(r)
  PROVE  IInv'
  <1> DEFINE k0 == [run |-> r,
                    value |-> [source |-> module[r], principal |-> call[r].principal,
                               args |-> call[r].args, version |-> upstream]]
  <1>1. /\ child[r] = "running"
        /\ child' = [child EXCEPT ![r] = "called"]
        /\ calls' = calls \cup {k0}
        /\ UNCHANGED <<catalog, resultCache, codeCache, pc, call, entry, module, answer, status,
                       trace, upstream, now, process, proposals>>
    BY DEF ChildCalls, cacheVars, runVars
  <1>2. /\ RunFits(r) /\ pc[r] # "idle" /\ call[r] \in Call /\ entry[r] \in Contract
        /\ module[r] = Generate(entry[r])
        /\ NeedsApproval(entry[r]) => Permitted(r)
    BY <1>1 DEF IInv, RunFits
  <1>3. k0 \in [run : Run, value : Value]
    BY <1>2, GenerateType DEF Call, Value, IInv, TypeOK
  <1>4. /\ k0.run = r /\ k0.value.source = Generate(entry[r])
        /\ k0.value.principal = call[r].principal /\ k0.value.args = call[r].args
    BY <1>2
  <1> HIDE DEF k0
  <1>5. TypeOK'
    BY <1>1, <1>3 DEF IInv, TypeOK
  <1>6. CachesFit' /\ ProposalsFit'
    BY <1>1, CachesStayFit DEF IInv, ProposalsFit
  <1>7. \A i \in Run \ {r} : RunFits(i)'
    BY <1>1, OthersStayFit DEF IInv, TypeOK
  <1>8. Known' = Known /\ \A i : Key(i)' = Key(i) /\ Permitted(i)' = Permitted(i)
                                  /\ PermittedHere(i)' = PermittedHere(i)
    BY <1>1 DEF Known, Key, Permitted, PermittedHere
  <1>9. CallsFit'
    BY <1>1, <1>2, <1>4, <1>8 DEF IInv, CallsFit
  <1>10. RunFits(r)'
    <2>1. AnswerFits(r)'
      BY <1>1, <1>2, <1>8 DEF RunFits, AnswerFits
    <2> QED
      BY <1>1, <1>2, <1>8, <2>1 DEF RunFits
  <1> QED
    BY <1>5, <1>6, <1>7, <1>9, <1>10 DEF IInv

LEMMA OrphanExitsIInv ==
  ASSUME IInv, NEW r \in Run, OrphanExits(r)
  PROVE  IInv'
  <1>1. /\ child' = [child EXCEPT ![r] = "none"]
        /\ UNCHANGED <<catalog, resultCache, codeCache, pc, call, entry, module, answer, status,
                       trace, calls, upstream, now, process, proposals>>
    BY DEF OrphanExits, cacheVars, runVars, worldVars
  <1>2. TypeOK'
    BY <1>1 DEF IInv, TypeOK
  <1>3. CachesFit' /\ ProposalsFit' /\ CallsFit'
    BY <1>1, CachesStayFit, CallsStayFit DEF IInv, TypeOK, ProposalsFit
  <1>4. \A i \in Run \ {r} : RunFits(i)'
    BY <1>1, OthersStayFit DEF IInv, TypeOK
  <1>5. RunFits(r)'
    <2>1. RunFits(r) /\ child'[r] = "none"
      BY <1>1 DEF IInv, TypeOK
    <2>2. Known' = Known /\ Key(r)' = Key(r)
      BY <1>1 DEF Known, Key
    <2>3. Permitted(r)' = Permitted(r) /\ PermittedHere(r)' = PermittedHere(r)
      BY <1>1, <2>2 DEF Permitted, PermittedHere
    <2>4. AnswerFits(r)'
      BY <1>1, <2>1, <2>2 DEF RunFits, AnswerFits
    <2> QED
      BY <1>1, <2>1, <2>2, <2>3, <2>4 DEF RunFits
  <1> QED
    BY <1>2, <1>3, <1>4, <1>5 DEF IInv

\* What happens around the runs leaves each of them as it was.
LEMMA AroundIInv ==
  ASSUME IInv, catalog' \in Catalog, resultCache' \subseteq resultCache,
         codeCache' \subseteq codeCache, upstream' \in Nat, now' \in Nat,
         UNCHANGED <<pc, call, entry, module, answer, status, trace, child, calls, process,
                     proposals>>
  PROVE  IInv'
  <1>1. TypeOK'
    BY DEF IInv, TypeOK
  <1>2. CachesFit' /\ ProposalsFit' /\ CallsFit'
    BY CachesStayFit, CallsStayFit DEF IInv, ProposalsFit
  <1>3. ASSUME NEW i \in Run PROVE RunFits(i)'
    <2>1. RunFits(i)
      BY DEF IInv
    <2>2. Known' = Known /\ Key(i)' = Key(i)
      BY DEF Known, Key
    <2>3. Permitted(i)' = Permitted(i) /\ PermittedHere(i)' = PermittedHere(i)
      BY <2>2 DEF Permitted, PermittedHere
    <2>4. AnswerFits(i)'
      BY <2>1, <2>2 DEF RunFits, AnswerFits
    <2> QED
      BY <2>1, <2>2, <2>3, <2>4 DEF RunFits
  <1> QED
    BY <1>1, <1>2, <1>3 DEF IInv

\* A restart: no run is past the gate of the new process.
LEMMA RestartIInv ==
  ASSUME IInv, Restart
  PROVE  IInv'
  <1>1. /\ process' = process + 1 /\ catalog' \in Catalog
        /\ resultCache' = {} /\ codeCache' \subseteq codeCache
        /\ pc' = [i \in Run |-> IF pc[i] \in Suspended THEN "killed" ELSE pc[i]]
        /\ UNCHANGED <<call, entry, module, answer, status, trace, child, calls, upstream, now,
                       proposals>>
    BY DEF Restart
  <1>2. TypeOK'
    BY <1>1 DEF IInv, TypeOK, Ended
  <1>3. CachesFit' /\ ProposalsFit'
    BY <1>1, CachesStayFit DEF IInv, ProposalsFit
  <1>4. CallsFit'
    BY <1>1, CallsStayFit DEF Suspended
  <1>5. ASSUME NEW i \in Run PROVE RunFits(i)'
    <2>1. RunFits(i)
      BY DEF IInv
    <2>2. Known' = Known /\ Key(i)' = Key(i)
      BY <1>1 DEF Known, Key
    <2>3. Permitted(i)' = Permitted(i)
      BY <1>1, <2>2 DEF Permitted
    <2>4. AnswerFits(i)'
      BY <1>1, <2>1, <2>2 DEF RunFits, AnswerFits
    <2>5. \/ pc'[i] = pc[i] /\ pc[i] \in {"idle"} \cup Ended
          \/ pc'[i] = "killed" /\ pc[i] # "idle"
      BY <1>1 DEF IInv, TypeOK, Suspended
    <2> QED
      BY <1>1, <2>1, <2>2, <2>3, <2>4, <2>5 DEF RunFits, Suspended, Ended
  <1> QED
    BY <1>2, <1>3, <1>4, <1>5 DEF IInv

LEMMA NextIInv == IInv /\ [Next]_vars => IInv'
  <1> SUFFICES ASSUME IInv, [Next]_vars PROVE IInv'
    OBVIOUS
  <1>1. ASSUME NEW r \in Run, Begin(r) PROVE IInv'
    BY <1>1, BeginIInv
  <1>2. ASSUME NEW r \in Run, Advance(r) \/ SandboxRaises(r) PROVE IInv'
    BY <1>2, AdvanceIInv
  <1>3. ASSUME NEW r \in Run, ChildCalls(r) PROVE IInv'
    BY <1>3, ChildCallsIInv
  <1>4. ASSUME NEW r \in Run, Abort(r) PROVE IInv'
    BY <1>4, EndStep DEF Abort, cacheVars, worldVars, Ended
  <1>5. ASSUME NEW r \in Run, OrphanExits(r) PROVE IInv'
    BY <1>5, OrphanExitsIInv
  <1>6. CASE RefreshRegistry
    BY <1>6, AroundIInv DEF RefreshRegistry, cacheVars, runVars, worldVars, IInv, TypeOK
  <1>7. CASE ClearCaches
    BY <1>7, AroundIInv DEF ClearCaches, runVars, worldVars, IInv, TypeOK
  <1>8. CASE UpstreamChanges
    BY <1>8, AroundIInv DEF UpstreamChanges, cacheVars, runVars, IInv, TypeOK
  <1>9. CASE Tick
    BY <1>9, AroundIInv DEF Tick, cacheVars, runVars, IInv, TypeOK
  <1>10. CASE Restart
    BY <1>10, RestartIInv
  <1>11. CASE UNCHANGED vars
    BY <1>11, AroundIInv DEF vars, cacheVars, runVars, worldVars, IInv, TypeOK
  <1> QED
    BY <1>1, <1>2, <1>3, <1>4, <1>5, <1>6, <1>7, <1>8, <1>9, <1>10, <1>11 DEF Next, Environment

LEMMA IInvHolds == Spec => []IInv
  BY InitIInv, NextIInv, PTL DEF Spec

-----------------------------------------------------------------------------
(* Through any interleaving of runs, refreshes, clears and restarts, every *)
(* variable keeps its type: a run is always at one of run()'s awaits, with *)
(* an answer, an entry and a status of the kinds the code gives them.      *)
THEOREM ExecutorTypeCorrect == Spec => []TypeOK
  <1>1. IInv => TypeOK
    BY DEF IInv
  <1> QED
    BY <1>1, IInvHolds, PTL

(* is_cacheable is the single gate.  If contracts spell their verbs as they *)
(* are sent, in upper case, no result of a write is ever in the result     *)
(* cache, and no run of a write is ever answered from it.  The loader does *)
(* not see to the hypothesis, and without it the property is false.        *)
THEOREM NoWriteIsReplayed ==
  ASSUME \A c \in Contract : Verb(c.method) = c.method
  PROVE  Spec => []WritesAreNeverReplayed
  <1>1. IInv => WritesAreNeverReplayed
    <2> SUFFICES ASSUME IInv PROVE WritesAreNeverReplayed
      OBVIOUS
    <2>1. ASSUME NEW c \in Contract, IsCacheable(c)
          PROVE  Verb(c.method) \notin WriteMethod /\ Verb(Generate(c).method) \notin WriteMethod
      BY <2>1, CacheableIsNoWrite
    <2>2. ASSUME NEW e \in resultCache PROVE Verb(e.value.source.method) \notin WriteMethod
      BY <2>1 DEF IInv, CachesFit
    <2>3. ASSUME NEW r \in Run, answer[r] # Nothing, answer[r].cached
          PROVE  Verb(entry[r].method) \notin WriteMethod
      BY <2>1, <2>3 DEF IInv, RunFits, AnswerFits
    <2> QED
      BY <2>2, <2>3 DEF WritesAreNeverReplayed
  <1> QED
    BY <1>1, IInvHolds, PTL

(* A run past the approval gate holds a token this very process issued for *)
(* its key: no restart and no other contract's proposal opens the gate.    *)
THEOREM GateOpensToThisProcessOnly == Spec => []ApprovedInThisProcess
  <1>1. IInv => ApprovedInThisProcess
    BY DEF IInv, RunFits, PermittedHere, ApprovedInThisProcess
  <1> QED
    BY <1>1, IInvHolds, PTL

(* If contracts that generate the same code also agree on keyBy, a run is  *)
(* only ever answered with its own question's answer.  The hypothesis is   *)
(* what cache_key's docstring promises and generation_id does not cover.   *)
THEOREM AnswersAreOnesOwn ==
  ASSUME \A c, d \in Contract : Generate(c) = Generate(d) => c.keyBy = d.keyBy
  PROVE  Spec => []AnswersItsOwnQuestion
  <1>1. IInv => AnswersItsOwnQuestion
    <2> SUFFICES ASSUME IInv, NEW r \in Run, answer[r] # Nothing
                 PROVE  /\ answer[r].value.source = Generate(entry[r])
                        /\ answer[r].value.principal = call[r].principal
                        /\ Relevant(entry[r].keyBy, answer[r].value.args)
                              = Relevant(entry[r].keyBy, call[r].args)
      BY DEF AnswersItsOwnQuestion
    <2>1. AnswerFits(r) /\ answer[r].cached \in BOOLEAN
      BY DEF IInv, RunFits, TypeOK, Answer
    <2>2. CASE answer[r].cached
      <3>1. PICK c \in Contract : CacheKey(c, answer[r].value.args, call[r].principal) = Key(r)
        BY <2>1, <2>2 DEF AnswerFits
      <3>2. Generate(c) = Generate(entry[r])
            /\ Relevant(c.keyBy, answer[r].value.args) = Relevant(entry[r].keyBy, call[r].args)
        <4>1. CacheKey(c, answer[r].value.args, call[r].principal)
                 = CacheKey(entry[r], call[r].args, call[r].principal)
          BY <3>1 DEF Key
        <4> QED
          BY <4>1, CacheKeyInjective
      <3>3. entry[r] \in Contract /\ c.keyBy = entry[r].keyBy
        BY <2>1, <3>2 DEF AnswerFits
      <3> QED
        BY <2>1, <3>2, <3>3 DEF AnswerFits
    <2>3. CASE ~ answer[r].cached
      BY <2>1, <2>3 DEF AnswerFits
    <2> QED
      BY <2>1, <2>2, <2>3
  <1> QED
    BY <1>1, IInvHolds, PTL

(* What an approval covers, under the same hypothesis: the request that    *)
(* was applied had the key of one that was shown -- its code, its          *)
(* principal and the arguments that keyBy names -- whoever's child it was  *)
(* and whenever that child made it.                                        *)
THEOREM AppliedOnlyUnderAShownKey ==
  ASSUME \A c, d \in Contract : Generate(c) = Generate(d) => c.keyBy = d.keyBy
  PROVE  Spec => []AppliedUnderAShownKey
  <1>1. IInv => AppliedUnderAShownKey
    <2> SUFFICES ASSUME IInv, NEW k \in calls, NeedsApproval(entry[k.run])
                 PROVE  \E p \in proposals :
                           /\ p.token = call[k.run].token
                           /\ p.token.key.generation = k.value.source
                           /\ p.token.key.principal = k.value.principal
                           /\ Relevant(entry[k.run].keyBy, p.shown)
                                 = Relevant(entry[k.run].keyBy, k.value.args)
      BY DEF AppliedUnderAShownKey
    <2> DEFINE r == k.run
    <2>1. /\ entry[r] \in Contract
          /\ k.value.source = Generate(entry[r])
          /\ k.value.principal = call[r].principal
          /\ k.value.args = call[r].args
          /\ Permitted(r)
      BY DEF IInv, CallsFit
    <2>2. PICK p \in proposals : p.token = call[r].token /\ p.token.key = Key(r)
      BY <2>1 DEF Permitted
    <2>3. PICK c \in Contract, m \in Principal : p.token.key = CacheKey(c, p.shown, m)
      BY DEF IInv, ProposalsFit
    <2>4. CacheKey(c, p.shown, m) = CacheKey(entry[r], call[r].args, call[r].principal)
      BY <2>2, <2>3 DEF Key
    <2>5. Generate(c) = Generate(entry[r])
          /\ Relevant(c.keyBy, p.shown) = Relevant(entry[r].keyBy, call[r].args)
      BY <2>4, CacheKeyInjective
    <2>6. c.keyBy = entry[r].keyBy
      BY <2>1, <2>5
    <2>7. p.token.key.generation = Generate(entry[r]) /\ p.token.key.principal = call[r].principal
      BY <2>2, CacheKeyParts DEF Key
    <2> QED
      BY <2>1, <2>2, <2>5, <2>6, <2>7
  <1> QED
    BY <1>1, IInvHolds, PTL

\* Every request that needed approval was shown with exactly its arguments.
AppliedWhatWasShown ==
    \A k \in calls : NeedsApproval(entry[k.run]) =>
        \E p \in proposals : p.token = call[k.run].token /\ p.shown = k.value.args

(* "The approver should read the real request": that is so, argument for   *)
(* argument, where no contract that needs approval has a keyBy (and a      *)
(* contract with the same code has none either).  The engine requires      *)
(* neither of a registry.                                                  *)
THEOREM WithoutKeyByTheShownIsApplied ==
  ASSUME \A c \in Contract : NeedsApproval(c) => c.keyBy = {},
         \A c, d \in Contract : Generate(c) = Generate(d) => c.keyBy = d.keyBy
  PROVE  Spec => []AppliedWhatWasShown
  <1>1. IInv /\ AppliedUnderAShownKey => AppliedWhatWasShown
    <2> SUFFICES ASSUME IInv, AppliedUnderAShownKey, NEW k \in calls, NeedsApproval(entry[k.run])
                 PROVE  \E p \in proposals : p.token = call[k.run].token /\ p.shown = k.value.args
      BY DEF AppliedWhatWasShown
    <2>1. entry[k.run].keyBy = {}
      BY DEF IInv, CallsFit
    <2>2. PICK p \in proposals : /\ p.token = call[k.run].token
                                 /\ Relevant(entry[k.run].keyBy, p.shown)
                                       = Relevant(entry[k.run].keyBy, k.value.args)
      BY DEF AppliedUnderAShownKey
    <2> QED
      BY <2>1, <2>2 DEF Relevant
  <1>2. Spec => []AppliedUnderAShownKey
    BY AppliedOnlyUnderAShownKey
  <1> QED
    BY <1>1, <1>2, IInvHolds, PTL
=============================================================================
