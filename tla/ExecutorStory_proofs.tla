------------------------ MODULE ExecutorStory_proofs ------------------------
(***************************************************************************)
(* Executor implements RunTrace: whatever the runs, contracts and caches,  *)
(* an observer of the events sees one of its stories, told to the end or   *)
(* cut short, and the outcome that it stands for.                          *)
(***************************************************************************)
EXTENDS Executor_proofs

Told(outcome, events) == Observed!Story(outcome, events) \in Observed!Stories

\* A run that has emitted s and now emits e may yet tell t.
OnItsWay(s, e, t) == Len(s) < Len(t) /\ Observed!IsPrefix(s, t) /\ t[Len(s) + 1] = e

\* What comes before the answer: a hit, or an execution.
Before(surface, cached) ==
    IF cached THEN Observed!Opening(surface) \o <<"cache_hit">> ELSE Observed!Ran(surface)

\* The events that a run has emitted, wherever it is suspended.
Emitted(at, surface, cached, outcome, events) ==
    /\ at = "idle" => events = << >>
    /\ at = "selected" => events = <<"contract_selected">>
    /\ at = "surfaced" => events = Observed!Opening(surface)
    /\ at = "hit" => events = Observed!Opening(surface) \o <<"cache_hit">> /\ cached
    /\ at = "proposed" => events = Observed!Opening(surface) \o <<"proposal">>
    /\ at = "coded" => events = Observed!Opening(surface) \o <<"code_generated">>
    /\ at \in {"executing", "waiting"} => events = Observed!Ran(surface)
    /\ at = "failed" => events = Observed!Ran(surface) \o <<"error">>
    /\ at = "result" => events = Before(surface, cached) \o <<"result">>
    /\ at = "data" => events = Before(surface, cached) \o Observed!Answer(surface)
    /\ at = "stored" =>
          events = (Observed!Ran(surface) \o Observed!Answer(surface)) \o <<"cache_store">>
    /\ at = "closing" => Told(outcome, events)

TraceFits(r) == Emitted(pc[r], HasSurface(entry[r]), answer[r].cached, status[r], trace[r])

TracesFit == \A r \in Run : TraceFits(r)

-----------------------------------------------------------------------------
(* Sequences of events, and how they grow.                                 *)

LEMMA AppendIsConcat ==
  ASSUME NEW s \in Seq(Event), NEW a \in Event
  PROVE  Append(s, a) = s \o <<a>>
  OBVIOUS

LEMMA ConcatEmpty == ASSUME NEW s \in Seq(Event) PROVE s \o << >> = s
  OBVIOUS

LEMMA WayToTheOnly ==
  ASSUME NEW a \in Event
  PROVE  OnItsWay(<< >>, a, <<a>>) /\ Append(<< >>, a) = <<a>>
  BY DEF OnItsWay, Observed!IsPrefix

LEMMA WayToTheFirst ==
  ASSUME NEW a \in Event, NEW h \in Seq(Event), NEW t \in Seq(Event)
  PROVE  OnItsWay(<< >>, a, (<<a>> \o h) \o t)
  BY DEF OnItsWay, Observed!IsPrefix

LEMMA WayToTheLast ==
  ASSUME NEW s \in Seq(Event), NEW a \in Event
  PROVE  OnItsWay(s, a, s \o <<a>>)
  BY DEF OnItsWay, Observed!IsPrefix

LEMMA WayToTheLastTwo ==
  ASSUME NEW s \in Seq(Event), NEW a \in Event, NEW b \in Event
  PROVE  /\ OnItsWay(s, a, s \o <<a, b>>)
         /\ OnItsWay(s \o <<a>>, b, s \o <<a, b>>)
         /\ Append(s \o <<a>>, b) = s \o <<a, b>>
  BY DEF OnItsWay, Observed!IsPrefix

LEMMA WayToAnOpening ==
  ASSUME NEW s \in Seq(Event), NEW a \in Event, NEW t \in Seq(Event)
  PROVE  OnItsWay(s, a, (s \o <<a>>) \o t)
  BY DEF OnItsWay, Observed!IsPrefix

LEMMA WayToAHit ==
  ASSUME NEW s \in Seq(Event), NEW a \in Event, NEW t \in Seq(Event), NEW u \in Seq(Event)
  PROVE  OnItsWay(s, a, ((s \o <<a>>) \o t) \o u)
  BY DEF OnItsWay, Observed!IsPrefix

LEMMA WayToAnExecution ==
  ASSUME NEW s \in Seq(Event), NEW a \in Event, NEW b \in Event, NEW t \in Seq(Event)
  PROVE  /\ OnItsWay(s, a, (s \o <<a, b>>) \o t)
         /\ OnItsWay(s \o <<a>>, b, (s \o <<a, b>>) \o t)
  BY DEF OnItsWay, Observed!IsPrefix

LEMMA WayToAnAnswer ==
  ASSUME NEW s \in Seq(Event), NEW a \in Event, NEW h \in Seq(Event), NEW t \in Seq(Event)
  PROVE  OnItsWay(s, a, (s \o (<<a>> \o h)) \o t)
  BY DEF OnItsWay, Observed!IsPrefix

LEMMA WayToTheData ==
  ASSUME NEW s \in Seq(Event), NEW a \in Event, NEW b \in Event, NEW t \in Seq(Event)
  PROVE  /\ OnItsWay(s \o <<a>>, b, (s \o (<<a>> \o <<b>>)) \o t)
         /\ Append(s \o <<a>>, b) = s \o (<<a>> \o <<b>>)
  BY DEF OnItsWay, Observed!IsPrefix

LEMMA EventNames ==
  /\ "contract_selected" \in Event /\ "surface" \in Event /\ "cache_hit" \in Event
  /\ "result" \in Event /\ "done" \in Event /\ "proposal" \in Event /\ "error" \in Event
  /\ "code_generated" \in Event /\ "executing" \in Event /\ "cache_store" \in Event
  BY DEF Event

LEMMA PartsAreSequences ==
  ASSUME NEW s \in BOOLEAN
  PROVE  /\ Observed!Shown(s) \in Seq(Event)
         /\ Observed!Opening(s) \in Seq(Event)
         /\ Observed!Answer(s) \in Seq(Event)
         /\ Observed!Ran(s) \in Seq(Event)
  <1>1. Observed!Shown(s) \in Seq(Event)
    BY EventNames DEF Observed!Shown
  <1>2. Observed!Opening(s) \in Seq(Event) /\ Observed!Answer(s) \in Seq(Event)
    BY <1>1, EventNames DEF Observed!Opening, Observed!Answer
  <1>3. Observed!Ran(s) \in Seq(Event)
    BY <1>2, EventNames DEF Observed!Ran
  <1> QED
    BY <1>1, <1>2, <1>3

LEMMA StoryOfAnUnknownTool == Told("error", <<"error">>)
  BY DEF Told, Observed!Stories

\* The other stories, the way their events are emitted.
LEMMA Stories ==
  ASSUME NEW s \in BOOLEAN
  PROVE  /\ Told("ok", ((Observed!Opening(s) \o <<"cache_hit">>) \o Observed!Answer(s)) \o <<"done">>)
         /\ Told("proposed", Observed!Opening(s) \o <<"proposal", "done">>)
         /\ Told("error", Observed!Opening(s) \o <<"error">>)
         /\ Told("error", Observed!Ran(s) \o <<"error", "done">>)
         /\ Told("ok", (Observed!Ran(s) \o Observed!Answer(s)) \o <<"done">>)
         /\ Told("ok", (Observed!Ran(s) \o Observed!Answer(s)) \o <<"cache_store", "done">>)
  BY DEF Told, Observed!Stories

-----------------------------------------------------------------------------
(* One step of one run.                                                    *)

LEMMA SurfaceType == ASSUME NEW c \in Contract PROVE HasSurface(c) \in BOOLEAN
  BY ContractAssumption DEF HasSurface, ContractType

LEMMA EmitIsObserved ==
  ASSUME TypeOK, NEW r \in Run, NEW e, NEW p, NEW outcome, NEW t,
         Told(outcome, t), OnItsWay(trace[r], e, t), Emit(r, e), WaitAt(r, p),
         pc[r] \notin Ended, p \notin Ended,
         \A q \in Run \ {r} : status'[q] = status[q]
  PROVE  Observed!Emit(r)
  <1>1. Outcome[r] = "none"
    BY DEF Outcome, Ended
  <1>2. Outcome' = Outcome
    <2>1. ASSUME NEW q \in Run PROVE Outcome'[q] = Outcome[q]
      BY DEF Outcome, Ended, WaitAt, TypeOK
    <2> QED
      BY <2>1 DEF Outcome
  <1>3. trace' = [trace EXCEPT ![r] = Append(trace[r], t[Len(trace[r]) + 1])]
    BY DEF Emit, OnItsWay
  <1>4. /\ Observed!Story(outcome, t) \in Observed!Stories
        /\ Observed!Story(outcome, t).events = t
    BY DEF Told, Observed!Story
  <1> QED
    BY <1>1, <1>2, <1>3, <1>4 DEF Observed!Emit, OnItsWay

\* What one run does leaves the traces of the others.
LEMMA OthersKeepTheirTraces ==
  ASSUME TypeOK, TracesFit, NEW r \in Run, TraceFits(r)',
         \A q \in Run \ {r} :
            /\ pc'[q] = pc[q] /\ trace'[q] = trace[q] /\ entry'[q] = entry[q]
            /\ answer'[q] = answer[q] /\ status'[q] = status[q]
  PROVE  TracesFit'
  <1>1. ASSUME NEW q \in Run \ {r} PROVE TraceFits(q)'
    BY <1>1 DEF TracesFit, TraceFits
  <1> QED
    BY <1>1 DEF TracesFit

LEMMA TraceAtLookup ==
  ASSUME NEW r \in Run, TraceFits(r), AtLookup(r), HasSurface(entry[r]) \in BOOLEAN
  PROVE  trace[r] = Observed!Opening(HasSurface(entry[r]))
  <1>1. CASE pc[r] = "surfaced"
    BY <1>1 DEF TraceFits, Emitted
  <1>2. CASE pc[r] = "selected" /\ ~ HasSurface(entry[r])
    <2>1. <<"contract_selected">> \in Seq(Event)
      BY EventNames
    <2> QED
      BY <1>2, <2>1, ConcatEmpty DEF TraceFits, Emitted, Observed!Opening, Observed!Shown
  <1> QED
    BY <1>1, <1>2 DEF AtLookup

LEMMA TraceAfterData ==
  ASSUME NEW r \in Run, TraceFits(r), AfterData(r), HasSurface(entry[r]) \in BOOLEAN
  PROVE  trace[r] = Before(HasSurface(entry[r]), answer[r].cached)
                        \o Observed!Answer(HasSurface(entry[r]))
  <1>1. CASE pc[r] = "data"
    BY <1>1 DEF TraceFits, Emitted
  <1>2. CASE pc[r] = "result" /\ ~ HasSurface(entry[r])
    <2>1. <<"result">> \in Seq(Event)
      BY EventNames
    <2> QED
      BY <1>2, <2>1, ConcatEmpty DEF TraceFits, Emitted, Observed!Answer, Observed!Shown
  <1> QED
    BY <1>1, <1>2 DEF AfterData

\* A step that emits an event, and leaves a run where it is known what it has emitted.
LEMMA EmitFits ==
  ASSUME TypeOK, TracesFit, NEW r \in Run, NEW e, NEW p, NEW outcome, NEW t,
         Told(outcome, t), OnItsWay(trace[r], e, t), Emit(r, e), WaitAt(r, p),
         pc[r] \notin Ended, p \notin Ended,
         \A q \in Run \ {r} :
            entry'[q] = entry[q] /\ answer'[q] = answer[q] /\ status'[q] = status[q],
         Emitted(p, HasSurface(entry'[r]), answer'[r].cached, status'[r], Append(trace[r], e))
  PROVE  Observed!Emit(r) /\ TracesFit'
  <1>1. Observed!Emit(r)
    BY EmitIsObserved
  <1>2. pc'[r] = p /\ trace'[r] = Append(trace[r], e)
    BY DEF TypeOK, WaitAt, Emit
  <1>3. TraceFits(r)'
    BY <1>2 DEF TraceFits
  <1>4. \A q \in Run \ {r} : pc'[q] = pc[q] /\ trace'[q] = trace[q]
    BY DEF TypeOK, WaitAt, Emit
  <1> QED
    BY <1>1, <1>3, <1>4, OthersKeepTheirTraces

\* What is known of a run that is at one of the awaits of run().
LEMMA AtAnAwait ==
  ASSUME IInv, TracesFit, NEW r \in Run, pc[r] \in Suspended \ {"closing"}
  PROVE  /\ TypeOK
         /\ TraceFits(r)
         /\ HasSurface(entry[r]) \in BOOLEAN
         /\ pc[r] \notin Ended
         /\ Observed!Opening(HasSurface(entry[r])) \in Seq(Event)
         /\ Observed!Ran(HasSurface(entry[r])) \in Seq(Event)
         /\ Observed!Answer(HasSurface(entry[r])) \in Seq(Event)
  <1>1. entry[r] \in Contract
    BY DEF IInv, RunFits
  <1> QED
    BY <1>1, SurfaceType, PartsAreSequences DEF IInv, TracesFit, Suspended, Ended

LEMMA BeginTells ==
  ASSUME IInv, TracesFit, NEW r \in Run, Begin(r)
  PROVE  Observed!Emit(r) /\ TracesFit'
  <1> USE EventNames
  <1>0. TypeOK /\ trace[r] = << >> /\ pc[r] = "idle" /\ pc[r] \notin Ended
    BY DEF IInv, TracesFit, TraceFits, Emitted, Begin, UnknownTool, SelectContract, Ended
  <1>1. ASSUME NEW q, UnknownTool(r, q) PROVE Observed!Emit(r) /\ TracesFit'
    <2>1. /\ OnItsWay(trace[r], "error", <<"error">>)
          /\ Append(trace[r], "error") = <<"error">>
      BY <1>0, WayToTheOnly
    <2>2. Told("error", <<"error">>)
      BY StoryOfAnUnknownTool
    <2>3. /\ Emit(r, "error") /\ WaitAt(r, "closing")
          /\ status' = [status EXCEPT ![r] = "error"]
          /\ UNCHANGED <<entry, answer>>
      BY <1>1 DEF UnknownTool, Close
    <2>4. status'[r] = "error" /\ \A i \in Run \ {r} : status'[i] = status[i]
      BY <1>0, <2>3 DEF TypeOK
    <2>5. Emitted("closing", HasSurface(entry'[r]), answer'[r].cached, status'[r],
                  Append(trace[r], "error"))
      BY <2>1, <2>2, <2>4 DEF Emitted
    <2> QED
      BY <1>0, <2>1, <2>2, <2>3, <2>4, <2>5, EmitFits DEF Ended
  <1>2. ASSUME NEW q, SelectContract(r, q), q.tool \in Tool PROVE Observed!Emit(r) /\ TracesFit'
    <2>1. catalog[q.tool] \in Contract
      BY <1>0, <1>2, CatalogAssumption DEF TypeOK, SelectContract
    <2> DEFINE s == HasSurface(catalog[q.tool])
    <2>2. s \in BOOLEAN
      BY <2>1, SurfaceType
    <2>3. Told("error", (<<"contract_selected">> \o Observed!Shown(s)) \o <<"error">>)
      BY <2>2, Stories DEF Observed!Opening
    <2>4. Observed!Shown(s) \in Seq(Event) /\ <<"error">> \in Seq(Event)
      BY <2>2, PartsAreSequences
    <2> HIDE DEF s
    <2>5. /\ OnItsWay(trace[r], "contract_selected",
                      (<<"contract_selected">> \o Observed!Shown(s)) \o <<"error">>)
          /\ Append(trace[r], "contract_selected") = <<"contract_selected">>
      BY <1>0, <2>4, WayToTheFirst, WayToTheOnly
    <2>6. /\ Emit(r, "contract_selected") /\ WaitAt(r, "selected")
          /\ \A i \in Run \ {r} : entry'[i] = entry[i]
          /\ UNCHANGED <<answer, status>>
      BY <1>0, <1>2 DEF SelectContract, TypeOK
    <2>7. Emitted("selected", HasSurface(entry'[r]), answer'[r].cached, status'[r],
                  Append(trace[r], "contract_selected"))
      BY <2>5 DEF Emitted
    <2> QED
      BY <1>0, <2>3, <2>5, <2>6, <2>7, EmitFits DEF Ended
  <1> QED
    BY <1>1, <1>2 DEF Begin

LEMMA EmitStructureTells ==
  ASSUME IInv, TracesFit, NEW r \in Run, EmitStructure(r)
  PROVE  Observed!Emit(r) /\ TracesFit'
  <1> USE EventNames
  <1>1. pc[r] = "selected" /\ HasSurface(entry[r])
    BY DEF EmitStructure
  <1>2. /\ TypeOK /\ HasSurface(entry[r]) = TRUE /\ pc[r] \notin Ended
        /\ trace[r] = <<"contract_selected">>
    BY <1>1, AtAnAwait DEF TraceFits, Emitted, Suspended
  <1>3. Observed!Opening(TRUE) = <<"contract_selected">> \o <<"surface">>
    BY DEF Observed!Opening, Observed!Shown
  <1>4. Told("error", (<<"contract_selected">> \o <<"surface">>) \o <<"error">>)
    BY <1>3, Stories
  <1>5. << >> \in Seq(Event) /\ <<"error">> \in Seq(Event) /\ <<"contract_selected">> \in Seq(Event)
    OBVIOUS
  <1>6. /\ OnItsWay(trace[r], "surface", (<<"contract_selected">> \o <<"surface">>) \o <<"error">>)
        /\ Append(trace[r], "surface") = <<"contract_selected">> \o <<"surface">>
    BY <1>2, <1>5, WayToAnOpening, AppendIsConcat
  <1>7. /\ Emit(r, "surface") /\ WaitAt(r, "surfaced")
        /\ UNCHANGED <<entry, answer, status>>
    BY DEF EmitStructure
  <1>8. Emitted("surfaced", HasSurface(entry'[r]), answer'[r].cached, status'[r],
                Append(trace[r], "surface"))
    BY <1>2, <1>3, <1>6, <1>7 DEF Emitted
  <1> QED
    BY <1>2, <1>4, <1>6, <1>7, <1>8, EmitFits DEF Ended

LEMMA CacheHitTells ==
  ASSUME IInv, TracesFit, NEW r \in Run, CacheHit(r)
  PROVE  Observed!Emit(r) /\ TracesFit'
  <1> USE EventNames
  <1> DEFINE s == HasSurface(entry[r])
             O == Observed!Opening(s)
             t == ((O \o <<"cache_hit">>) \o Observed!Answer(s)) \o <<"done">>
  <1>1. /\ AtLookup(r) /\ Emit(r, "cache_hit") /\ WaitAt(r, "hit")
        /\ UNCHANGED <<entry, status>>
        /\ \E e \in Fresh(r) : answer' = [answer EXCEPT ![r] = [value |-> e.value, cached |-> TRUE]]
    BY DEF CacheHit
  <1>2. pc[r] \in Suspended \ {"closing"}
    BY <1>1 DEF AtLookup, Suspended
  <1>3. /\ TypeOK /\ s \in BOOLEAN /\ pc[r] \notin Ended
        /\ O \in Seq(Event) /\ Observed!Answer(s) \in Seq(Event) /\ <<"done">> \in Seq(Event)
    BY <1>2, AtAnAwait
  <1>4. trace[r] = O
    BY <1>1, <1>2, <1>3, AtAnAwait, TraceAtLookup
  <1>5. Told("ok", t)
    BY <1>3, Stories
  <1>6. /\ OnItsWay(O, "cache_hit", t)
        /\ Append(O, "cache_hit") = O \o <<"cache_hit">>
    BY <1>3, WayToAHit, AppendIsConcat
  <1>7. answer'[r].cached /\ \A q \in Run \ {r} : answer'[q] = answer[q]
    BY <1>1, <1>3 DEF TypeOK
  <1>8. Emitted("hit", HasSurface(entry'[r]), answer'[r].cached, status'[r],
                Append(trace[r], "cache_hit"))
    BY <1>1, <1>4, <1>6, <1>7 DEF Emitted
  <1> HIDE DEF t, O
  <1> QED
    BY <1>1, <1>3, <1>4, <1>5, <1>6, <1>7, <1>8, EmitFits DEF Ended

\* The last event of a run.
LEMMA CloseFits ==
  ASSUME IInv, TracesFit, NEW r \in Run, NEW e \in Event, NEW outcome,
         Close(r, e, outcome), UNCHANGED <<entry, answer>>, pc[r] \notin Ended,
         Told(outcome, Append(trace[r], e))
  PROVE  Observed!Emit(r) /\ TracesFit'
  <1>1. TypeOK /\ trace[r] \in Seq(Event)
    BY DEF IInv, TypeOK
  <1>2. OnItsWay(trace[r], e, Append(trace[r], e))
    BY <1>1, WayToTheLast, AppendIsConcat
  <1>3. /\ Emit(r, e) /\ WaitAt(r, "closing")
        /\ status'[r] = outcome /\ \A q \in Run \ {r} : status'[q] = status[q]
    BY <1>1 DEF Close, TypeOK
  <1>4. Emitted("closing", HasSurface(entry'[r]), answer'[r].cached, status'[r], Append(trace[r], e))
    BY <1>3 DEF Emitted
  <1> QED
    BY <1>1, <1>2, <1>3, <1>4, EmitFits DEF Ended

LEMMA GateTells ==
  ASSUME IInv, TracesFit, NEW r \in Run,
         Propose(r) \/ FinishProposal(r) \/ RefuseToken(r) \/ CodeGenerationFails(r)
  PROVE  Observed!Emit(r) /\ TracesFit'
  <1> USE EventNames
  <1> DEFINE s == HasSurface(entry[r])
             O == Observed!Opening(s)
  <1>1. pc[r] \in Suspended \ {"closing"}
    BY DEF Propose, FinishProposal, RefuseToken, CodeGenerationFails, AtGate, Missed, AtLookup,
           Suspended
  <1>2. TypeOK /\ TraceFits(r) /\ s \in BOOLEAN /\ pc[r] \notin Ended /\ O \in Seq(Event)
    BY <1>1, AtAnAwait
  <1>3. Told("proposed", O \o <<"proposal", "done">>) /\ Told("error", O \o <<"error">>)
    BY <1>2, Stories
  <1>4. AtLookup(r) => trace[r] = O
    BY <1>2, TraceAtLookup
  <1>5. /\ OnItsWay(O, "proposal", O \o <<"proposal", "done">>)
        /\ Append(O \o <<"proposal">>, "done") = O \o <<"proposal", "done">>
        /\ Append(O, "proposal") = O \o <<"proposal">>
        /\ Append(O, "error") = O \o <<"error">>
    BY <1>2, WayToTheLastTwo, AppendIsConcat
  <1>6. pc[r] = "proposed" => trace[r] = O \o <<"proposal">>
    BY <1>2 DEF TraceFits, Emitted
  <1>7. CASE Propose(r)
    <2>1. /\ trace[r] = O /\ Emit(r, "proposal") /\ WaitAt(r, "proposed")
          /\ UNCHANGED <<entry, answer, status>>
      BY <1>4, <1>7 DEF Propose, AtGate, Missed
    <2>2. Emitted("proposed", HasSurface(entry'[r]), answer'[r].cached, status'[r],
                  Append(trace[r], "proposal"))
      BY <1>5, <2>1 DEF Emitted
    <2> HIDE DEF O
    <2> QED
      BY <1>2, <1>3, <1>5, <2>1, <2>2, EmitFits DEF Ended
  <1>8. CASE FinishProposal(r)
    <2>1. /\ pc[r] = "proposed" /\ Close(r, "done", "proposed") /\ UNCHANGED <<entry, answer>>
      BY <1>8 DEF FinishProposal
    <2>2. Told("proposed", Append(trace[r], "done"))
      BY <1>3, <1>5, <1>6, <2>1
    <2> QED
      BY <1>2, <2>1, <2>2, CloseFits
  <1>9. CASE RefuseToken(r) \/ CodeGenerationFails(r)
    <2>1. /\ trace[r] = O /\ Close(r, "error", "error") /\ UNCHANGED <<entry, answer>>
      BY <1>4, <1>9 DEF RefuseToken, CodeGenerationFails, AtGate, Missed
    <2>2. Told("error", Append(trace[r], "error"))
      BY <1>3, <1>5, <2>1
    <2> QED
      BY <1>2, <2>1, <2>2, CloseFits
  <1> QED
    BY <1>7, <1>8, <1>9

LEMMA ExecutionTells ==
  ASSUME IInv, TracesFit, NEW r \in Run,
         GenerateCode(r) \/ EmitExecuting(r) \/ StartChildFails(r) \/ SandboxFails(r) \/ FinishFailed(r)
  PROVE  Observed!Emit(r) /\ TracesFit'
  <1> USE EventNames
  <1> DEFINE s == HasSurface(entry[r])
             O == Observed!Opening(s)
             R == Observed!Ran(s)
  <1>1. pc[r] \in Suspended \ {"closing"}
    BY DEF GenerateCode, EmitExecuting, StartChildFails, SandboxFails, FinishFailed, AtGate, Missed,
           AtLookup, Suspended
  <1>2. /\ TypeOK /\ TraceFits(r) /\ s \in BOOLEAN /\ pc[r] \notin Ended
        /\ O \in Seq(Event) /\ R \in Seq(Event) /\ <<"error", "done">> \in Seq(Event)
    BY <1>1, AtAnAwait
  <1>3. Told("error", R \o <<"error", "done">>)
    BY <1>2, Stories
  <1>4. R = O \o <<"code_generated", "executing">>
    BY DEF Observed!Ran
  <1>5. /\ OnItsWay(O, "code_generated", R \o <<"error", "done">>)
        /\ OnItsWay(O \o <<"code_generated">>, "executing", R \o <<"error", "done">>)
        /\ Append(O, "code_generated") = O \o <<"code_generated">>
        /\ Append(O \o <<"code_generated">>, "executing") = R
    <2>1. /\ OnItsWay(O, "code_generated", (O \o <<"code_generated", "executing">>) \o <<"error", "done">>)
          /\ OnItsWay(O \o <<"code_generated">>, "executing",
                      (O \o <<"code_generated", "executing">>) \o <<"error", "done">>)
      BY <1>2, WayToAnExecution
    <2>2. /\ Append(O, "code_generated") = O \o <<"code_generated">>
          /\ Append(O \o <<"code_generated">>, "executing") = O \o <<"code_generated", "executing">>
      BY <1>2, AppendIsConcat, WayToTheLastTwo
    <2> QED
      BY <1>4, <2>1, <2>2
  <1>6. /\ OnItsWay(R, "error", R \o <<"error", "done">>)
        /\ Append(R, "error") = R \o <<"error">>
        /\ Append(R \o <<"error">>, "done") = R \o <<"error", "done">>
    BY <1>2, AppendIsConcat, WayToTheLastTwo
  <1>7. CASE GenerateCode(r)
    <2>1. /\ trace[r] = O /\ Emit(r, "code_generated") /\ WaitAt(r, "coded")
          /\ UNCHANGED <<entry, answer, status>>
      BY <1>2, <1>7, TraceAtLookup DEF GenerateCode, AtGate, Missed
    <2>2. Emitted("coded", HasSurface(entry'[r]), answer'[r].cached, status'[r],
                  Append(trace[r], "code_generated"))
      BY <1>5, <2>1 DEF Emitted
    <2> HIDE DEF O, R
    <2> QED
      BY <1>2, <1>3, <1>5, <2>1, <2>2, EmitFits DEF Ended
  <1>8. CASE EmitExecuting(r)
    <2>1. /\ trace[r] = O \o <<"code_generated">> /\ Emit(r, "executing") /\ WaitAt(r, "executing")
          /\ UNCHANGED <<entry, answer, status>>
      BY <1>2, <1>8 DEF EmitExecuting, TraceFits, Emitted
    <2>2. Emitted("executing", HasSurface(entry'[r]), answer'[r].cached, status'[r],
                  Append(trace[r], "executing"))
      BY <1>5, <2>1 DEF Emitted
    <2> HIDE DEF O, R
    <2> QED
      BY <1>2, <1>3, <1>5, <2>1, <2>2, EmitFits DEF Ended
  <1>9. CASE StartChildFails(r) \/ SandboxFails(r)
    <2>1. /\ trace[r] = R /\ Emit(r, "error") /\ WaitAt(r, "failed")
          /\ UNCHANGED <<entry, answer, status>>
      BY <1>2, <1>9 DEF StartChildFails, SandboxFails, TraceFits, Emitted
    <2>2. Emitted("failed", HasSurface(entry'[r]), answer'[r].cached, status'[r],
                  Append(trace[r], "error"))
      BY <1>6, <2>1 DEF Emitted
    <2> HIDE DEF O, R
    <2> QED
      BY <1>2, <1>3, <1>6, <2>1, <2>2, EmitFits DEF Ended
  <1>10. CASE FinishFailed(r)
    <2>1. /\ trace[r] = R \o <<"error">> /\ Close(r, "done", "error") /\ UNCHANGED <<entry, answer>>
      BY <1>2, <1>10 DEF FinishFailed, TraceFits, Emitted
    <2>2. Told("error", Append(trace[r], "done"))
      BY <1>3, <1>6, <2>1
    <2> QED
      BY <1>2, <2>1, <2>2, CloseFits
  <1> QED
    BY <1>7, <1>8, <1>9, <1>10

LEMMA AnswerTells ==
  ASSUME IInv, TracesFit, NEW r \in Run,
         SandboxSucceeds(r) \/ EmitCachedResult(r) \/ EmitData(r)
  PROVE  Observed!Emit(r) /\ TracesFit'
  <1> USE EventNames
  <1> DEFINE s == HasSurface(entry[r])
             B == Before(s, answer'[r].cached)
             A == Observed!Answer(s)
             h == Observed!Shown(s)
  <1>1. pc[r] \in Suspended \ {"closing"}
    BY DEF SandboxSucceeds, EmitCachedResult, EmitData, Suspended
  <1>2. /\ TypeOK /\ TraceFits(r) /\ s \in BOOLEAN /\ pc[r] \notin Ended
        /\ <<"done">> \in Seq(Event)
    BY <1>1, AtAnAwait
  <1>3. B \in Seq(Event) /\ h \in Seq(Event)
    BY <1>1, <1>2, AtAnAwait, PartsAreSequences DEF Before
  <1>4. Told("ok", (B \o A) \o <<"done">>)
    BY <1>2, Stories DEF Before
  <1>5. A = <<"result">> \o h
    BY DEF Observed!Answer
  <1>6. /\ OnItsWay(B, "result", (B \o A) \o <<"done">>)
        /\ Append(B, "result") = B \o <<"result">>
    BY <1>2, <1>3, <1>5, WayToAnAnswer, AppendIsConcat
  <1>7. CASE SandboxSucceeds(r) \/ EmitCachedResult(r)
    <2>1. /\ Emit(r, "result") /\ WaitAt(r, "result") /\ UNCHANGED <<entry, status>>
          /\ \A q \in Run \ {r} : answer'[q] = answer[q]
      BY <1>2, <1>7 DEF SandboxSucceeds, EmitCachedResult, TypeOK
    <2>2. trace[r] = B
      <3>1. CASE SandboxSucceeds(r)
        <4>1. ~ answer'[r].cached
          BY <1>2, <3>1 DEF SandboxSucceeds, TypeOK
        <4> QED
          BY <1>2, <3>1, <4>1 DEF SandboxSucceeds, TraceFits, Emitted, Before
      <3>2. CASE EmitCachedResult(r)
        BY <1>2, <3>2 DEF EmitCachedResult, TraceFits, Emitted, Before
      <3> QED
        BY <1>7, <3>1, <3>2
    <2>3. Emitted("result", HasSurface(entry'[r]), answer'[r].cached, status'[r],
                  Append(trace[r], "result"))
      BY <1>6, <2>1, <2>2 DEF Emitted
    <2> HIDE DEF A, B
    <2> QED
      BY <1>2, <1>4, <1>6, <2>1, <2>2, <2>3, EmitFits DEF Ended
  <1>8. CASE EmitData(r)
    <2>1. /\ Emit(r, "surface") /\ WaitAt(r, "data") /\ UNCHANGED <<entry, status, answer>>
          /\ s = TRUE /\ pc[r] = "result"
      BY <1>2, <1>8 DEF EmitData
    <2>2. trace[r] = B \o <<"result">>
      BY <1>2, <2>1 DEF TraceFits, Emitted
    <2>3. A = <<"result">> \o <<"surface">>
      BY <2>1 DEF Observed!Answer, Observed!Shown
    <2>4. /\ OnItsWay(B \o <<"result">>, "surface", (B \o A) \o <<"done">>)
          /\ Append(B \o <<"result">>, "surface") = B \o A
      BY <1>2, <1>3, <2>3, WayToTheData
    <2>5. Emitted("data", HasSurface(entry'[r]), answer'[r].cached, status'[r],
                  Append(trace[r], "surface"))
      BY <2>1, <2>2, <2>4 DEF Emitted
    <2> HIDE DEF A, B
    <2> QED
      BY <1>2, <1>4, <2>1, <2>2, <2>4, <2>5, EmitFits DEF Ended
  <1> QED
    BY <1>7, <1>8

LEMMA EndingTells ==
  ASSUME IInv, TracesFit, NEW r \in Run, StoreResult(r) \/ FinishOk(r)
  PROVE  Observed!Emit(r) /\ TracesFit'
  <1> USE EventNames
  <1> DEFINE s == HasSurface(entry[r])
             R == Observed!Ran(s)
             A == Observed!Answer(s)
             B == Before(s, answer[r].cached)
             E == R \o A
  <1>1. pc[r] \in Suspended \ {"closing"}
    BY DEF StoreResult, FinishOk, AfterData, Suspended
  <1>2. /\ TypeOK /\ TraceFits(r) /\ s \in BOOLEAN /\ pc[r] \notin Ended
        /\ R \in Seq(Event) /\ A \in Seq(Event)
    BY <1>1, AtAnAwait
  <1>3. /\ Told("ok", E \o <<"cache_store", "done">>)
        /\ Told("ok", (B \o A) \o <<"done">>)
    BY <1>2, Stories DEF Before
  <1>4. B \in Seq(Event) /\ B \o A \in Seq(Event) /\ E \in Seq(Event)
    <2>1. B \in Seq(Event)
      BY <1>1, <1>2, AtAnAwait DEF Before
    <2> QED
      BY <1>2, <2>1
  <1>5. AfterData(r) => trace[r] = B \o A
    BY <1>2, TraceAfterData
  <1>6. /\ OnItsWay(E, "cache_store", E \o <<"cache_store", "done">>)
        /\ Append(E, "cache_store") = E \o <<"cache_store">>
        /\ Append(E \o <<"cache_store">>, "done") = E \o <<"cache_store", "done">>
    BY <1>4, AppendIsConcat, WayToTheLastTwo
  <1>7. CASE StoreResult(r)
    <2>1. /\ AfterData(r) /\ MustStore(r) /\ Emit(r, "cache_store") /\ WaitAt(r, "stored")
          /\ UNCHANGED <<entry, answer, status>>
      BY <1>7 DEF StoreResult
    <2>2. trace[r] = E
      BY <1>5, <2>1 DEF MustStore, Before
    <2>3. Emitted("stored", HasSurface(entry'[r]), answer'[r].cached, status'[r],
                  Append(trace[r], "cache_store"))
      BY <1>6, <2>1, <2>2 DEF Emitted
    <2> HIDE DEF A, B, E, R
    <2> QED
      BY <1>2, <1>3, <1>6, <2>1, <2>2, <2>3, EmitFits DEF Ended
  <1>8. CASE FinishOk(r)
    <2>1. Close(r, "done", "ok") /\ UNCHANGED <<entry, answer>>
      BY <1>8 DEF FinishOk
    <2>2. Told("ok", Append(trace[r], "done"))
      <3>1. CASE pc[r] = "stored"
        BY <1>2, <1>3, <1>6, <3>1 DEF TraceFits, Emitted
      <3>2. CASE AfterData(r)
        BY <1>3, <1>4, <1>5, <3>2, AppendIsConcat
      <3> QED
        BY <1>8, <3>1, <3>2 DEF FinishOk
    <2> QED
      BY <1>2, <2>1, <2>2, CloseFits
  <1> QED
    BY <1>7, <1>8

-----------------------------------------------------------------------------
(* Steps that emit nothing.                                                *)

\* Runs that go where no trace is promised, or nowhere, keep the traces.
LEMMA QuietFits ==
  ASSUME TracesFit, UNCHANGED <<entry, answer, status, trace>>,
         \A q \in Run : pc'[q] = pc[q] \/ pc'[q] \in Ended
                        \/ (pc[q] = "executing" /\ pc'[q] = "waiting")
  PROVE  TracesFit'
  <1> SUFFICES ASSUME NEW q \in Run PROVE TraceFits(q)'
    BY DEF TracesFit
  <1>1. TraceFits(q)
    BY DEF TracesFit
  <1>2. CASE pc'[q] = pc[q]
    BY <1>1, <1>2 DEF TraceFits
  <1>3. CASE pc'[q] \in Ended
    BY <1>3 DEF TraceFits, Emitted, Ended
  <1>4. CASE pc[q] = "executing" /\ pc'[q] = "waiting"
    BY <1>1, <1>4 DEF TraceFits, Emitted
  <1> QED
    BY <1>2, <1>3, <1>4

LEMMA QuietTells ==
  ASSUME IInv, TracesFit, NEW r \in Run,
         StartChild(r) \/ ChildCalls(r) \/ OrphanExits(r)
  PROVE  UNCHANGED <<trace, Outcome>> /\ TracesFit'
  <1>1. TypeOK
    BY DEF IInv
  <1>2. /\ UNCHANGED <<entry, answer, status, trace>>
        /\ \A q \in Run : pc'[q] = pc[q] \/ (pc[q] = "executing" /\ pc'[q] = "waiting")
    BY <1>1 DEF StartChild, ChildCalls, OrphanExits, runVars, WaitAt, TypeOK
  <1>3. TracesFit'
    BY <1>2, QuietFits
  <1>4. \A q \in Run : Outcome'[q] = Outcome[q]
    BY <1>2 DEF Outcome
  <1>5. Outcome' = Outcome
    BY <1>4 DEF Outcome
  <1> QED
    BY <1>2, <1>3, <1>5

LEMMA CutShort ==
  ASSUME IInv, TracesFit, NEW R \in SUBSET Run, UNCHANGED <<entry, answer, status, trace>>,
         \A q \in R : pc[q] \in Suspended /\ pc'[q] \in {"raised", "aborted", "killed"},
         \A q \in Run \ R : pc'[q] = pc[q]
  PROVE  Observed!Abort(R) /\ TracesFit'
  <1>1. TracesFit'
    BY QuietFits DEF Ended
  <1>2. \A q \in R : Outcome[q] = "none"
    BY DEF Outcome, Suspended
  <1>3. Outcome' = [q \in Run |-> IF q \in R THEN "aborted" ELSE Outcome[q]]
    <2>1. ASSUME NEW q \in Run PROVE Outcome'[q] = IF q \in R THEN "aborted" ELSE Outcome[q]
      BY DEF Outcome
    <2> QED
      BY <2>1 DEF Outcome
  <1> QED
    BY <1>1, <1>2, <1>3 DEF Observed!Abort

\* An exception that no try of run() catches.
Raises(r) ==
    StructureRaises(r) \/ IdentityRaises(r) \/ GateRaises(r) \/ SandboxRaises(r) \/ StoreRaises(r)

LEMMA AbortTells ==
  ASSUME IInv, TracesFit, NEW r \in Run, Abort(r) \/ Raises(r)
  PROVE  Observed!Abort({r}) /\ TracesFit'
  <1>1. /\ UNCHANGED <<entry, answer, status, trace>>
        /\ pc[r] \in Suspended
        /\ WaitAt(r, "aborted") \/ WaitAt(r, "raised")
    BY DEF Abort, Raises, StructureRaises, IdentityRaises, GateRaises, SandboxRaises, StoreRaises,
           Missed, AtLookup, AfterData, Suspended
  <1>2. /\ pc'[r] \in {"raised", "aborted", "killed"}
        /\ \A q \in Run \ {r} : pc'[q] = pc[q]
    BY <1>1 DEF WaitAt, IInv, TypeOK
  <1> QED
    BY <1>1, <1>2, CutShort

LEMMA ReturnTells ==
  ASSUME IInv, TracesFit, NEW r \in Run, Return(r)
  PROVE  Observed!Return(r) /\ TracesFit'
  <1>1. /\ pc[r] = "closing" /\ WaitAt(r, "returned")
        /\ UNCHANGED <<entry, answer, status, trace>>
    BY DEF Return
  <1>2. pc'[r] = "returned" /\ \A q \in Run \ {r} : pc'[q] = pc[q]
    BY <1>1 DEF WaitAt, IInv, TypeOK
  <1>3. TracesFit'
    BY <1>1, <1>2, QuietFits DEF Ended
  <1>4. Told(status[r], trace[r])
    BY <1>1 DEF TracesFit, TraceFits, Emitted
  <1>5. Outcome[r] = "none"
    BY <1>1 DEF Outcome
  <1>6. Outcome' = [Outcome EXCEPT ![r] = status[r]]
    <2>1. ASSUME NEW q \in Run PROVE Outcome'[q] = IF q = r THEN status[r] ELSE Outcome[q]
      BY <1>1, <1>2 DEF Outcome
    <2> QED
      BY <2>1 DEF Outcome
  <1>7. /\ Observed!Story(status[r], trace[r]).events = trace[r]
        /\ Observed!Story(status[r], trace[r]).status = status[r]
    BY DEF Observed!Story
  <1> QED
    BY <1>1, <1>3, <1>4, <1>5, <1>6, <1>7 DEF Observed!Return, Told

LEMMA EnvironmentTells ==
  ASSUME IInv, TracesFit, Environment
  PROVE  /\ UNCHANGED <<trace, Outcome>> \/ \E R \in SUBSET Run : Observed!Abort(R)
         /\ TracesFit'
  <1>1. CASE Restart
    <2> DEFINE R == {q \in Run : pc[q] \in Suspended}
    <2>1. /\ UNCHANGED <<entry, answer, status, trace>>
          /\ \A q \in R : pc[q] \in Suspended /\ pc'[q] \in {"raised", "aborted", "killed"}
          /\ \A q \in Run \ R : pc'[q] = pc[q]
      BY <1>1 DEF Restart
    <2> HIDE DEF R
    <2>2. R \in SUBSET Run
      BY DEF R
    <2> QED
      BY <2>1, <2>2, CutShort
  <1>2. CASE RefreshRegistry \/ ClearCaches \/ UpstreamChanges \/ Tick
    <2>1. UNCHANGED runVars
      BY <1>2 DEF RefreshRegistry, ClearCaches, UpstreamChanges, Tick
    <2> QED
      BY <2>1, QuietFits DEF runVars, Outcome
  <1> QED
    BY <1>1, <1>2 DEF Environment

-----------------------------------------------------------------------------
LEMMA AdvanceTells ==
  ASSUME IInv, TracesFit, NEW r \in Run, Advance(r) \/ SandboxRaises(r)
  PROVE  /\ Observed!Next \/ UNCHANGED <<trace, Outcome>>
         /\ TracesFit'
  <1>1. CASE \/ EmitStructure(r) \/ CacheHit(r) \/ Propose(r) \/ RefuseToken(r) \/ FinishProposal(r)
             \/ GenerateCode(r) \/ CodeGenerationFails(r) \/ EmitExecuting(r) \/ StartChildFails(r)
             \/ SandboxSucceeds(r) \/ SandboxFails(r) \/ FinishFailed(r) \/ EmitCachedResult(r)
             \/ EmitData(r) \/ StoreResult(r) \/ FinishOk(r)
    <2>1. Observed!Emit(r) /\ TracesFit'
      BY <1>1, EmitStructureTells, CacheHitTells, GateTells, ExecutionTells, AnswerTells, EndingTells
    <2> QED
      BY <2>1 DEF Observed!Next
  <1>2. CASE Raises(r)
    <2>1. Observed!Abort({r}) /\ TracesFit'
      BY <1>2, AbortTells
    <2> QED
      BY <2>1 DEF Observed!Next
  <1>3. CASE StartChild(r)
    BY <1>3, QuietTells
  <1>4. CASE Return(r)
    <2>1. Observed!Return(r) /\ TracesFit'
      BY <1>4, ReturnTells
    <2> QED
      BY <2>1 DEF Observed!Next
  <1> QED
    BY <1>1, <1>2, <1>3, <1>4 DEF Advance, Raises

LEMMA NextTells ==
  ASSUME IInv, TracesFit, [Next]_vars
  PROVE  [Observed!Next]_<<trace, Outcome>> /\ TracesFit'
  <1>1. ASSUME NEW r \in Run, Begin(r) PROVE Observed!Next /\ TracesFit'
    BY <1>1, BeginTells DEF Observed!Next
  <1>2. ASSUME NEW r \in Run, ChildCalls(r) \/ OrphanExits(r)
        PROVE  UNCHANGED <<trace, Outcome>> /\ TracesFit'
    BY <1>2, QuietTells
  <1>3. ASSUME NEW r \in Run, Abort(r) PROVE Observed!Next /\ TracesFit'
    <2>1. Observed!Abort({r}) /\ TracesFit'
      BY <1>3, AbortTells
    <2> QED
      BY <2>1 DEF Observed!Next
  <1>4. CASE Environment
    BY <1>4, EnvironmentTells DEF Observed!Next
  <1>5. CASE UNCHANGED vars
    BY <1>5, QuietFits DEF vars, runVars, Outcome
  <1> QED
    BY <1>1, <1>2, <1>3, <1>4, <1>5, AdvanceTells DEF Next

(* For any runs, contracts, catalogs and caches, any interleaving with     *)
(* refreshes, clears, aborts and restarts, and whatever the children do:   *)
(* every run emits one of the sequences of RunTrace, in order, and returns *)
(* the outcome that sequence stands for, or is cut short.                  *)
THEOREM EveryRunTellsOneStory == Spec => TellsOneStory
  <1>1. Init => Observed!Init /\ TracesFit
    <2> SUFFICES ASSUME Init PROVE Observed!Init /\ TracesFit
      OBVIOUS
    <2>1. Outcome = [r \in Run |-> "none"]
      BY DEF Init, Outcome
    <2>2. TracesFit
      BY DEF Init, TracesFit, TraceFits, Emitted
    <2> QED
      BY <2>1, <2>2 DEF Init, Observed!Init
  <1>2. IInv /\ TracesFit /\ [Next]_vars => [Observed!Next]_<<trace, Outcome>> /\ TracesFit'
    BY NextTells
  <1> QED
    BY <1>1, <1>2, IInvHolds, PTL DEF Spec, TellsOneStory, Observed!Spec

-----------------------------------------------------------------------------
(* Silence.                                                                *)

Speaks(events) == \E i \in DOMAIN events : events[i] \in {"result", "proposal", "error"}

Spoken(r) == pc[r] = "returned" => Speaks(trace[r])

\* A trace that has spoken has spoken, whatever comes before or after.
LEMMA SpeaksOn ==
  ASSUME NEW s \in Seq(Event), NEW t \in Seq(Event), Speaks(s) \/ Speaks(t)
  PROVE  s \o t \in Seq(Event) /\ Speaks(s \o t)
  <1>1. CASE Speaks(s)
    <2>1. PICK i \in DOMAIN s : s[i] \in {"result", "proposal", "error"}
      BY <1>1 DEF Speaks
    <2>2. i \in DOMAIN (s \o t) /\ (s \o t)[i] = s[i]
      OBVIOUS
    <2> QED
      BY <2>1, <2>2 DEF Speaks
  <1>2. CASE Speaks(t)
    <2>1. PICK i \in DOMAIN t : t[i] \in {"result", "proposal", "error"}
      BY <1>2 DEF Speaks
    <2>2. Len(s) + i \in DOMAIN (s \o t) /\ (s \o t)[Len(s) + i] = t[i]
      OBVIOUS
    <2> QED
      BY <2>1, <2>2 DEF Speaks
  <1> QED
    BY <1>1, <1>2

LEMMA SpeakingEvents ==
  /\ <<"error">> \in Seq(Event) /\ Speaks(<<"error">>)
  /\ <<"result">> \in Seq(Event) /\ Speaks(<<"result">>)
  /\ <<"error", "done">> \in Seq(Event) /\ Speaks(<<"error", "done">>)
  /\ <<"proposal", "done">> \in Seq(Event) /\ Speaks(<<"proposal", "done">>)
  <1> USE EventNames
  <1>1. ASSUME NEW a \in {"result", "proposal", "error"}
        PROVE  <<a>> \in Seq(Event) /\ Speaks(<<a>>)
    <2>1. 1 \in DOMAIN <<a>> /\ <<a>>[1] = a
      OBVIOUS
    <2> QED
      BY <2>1 DEF Speaks
  <1>2. ASSUME NEW a \in {"result", "proposal", "error"}
        PROVE  <<a, "done">> \in Seq(Event) /\ Speaks(<<a, "done">>)
    <2>1. 1 \in DOMAIN <<a, "done">> /\ <<a, "done">>[1] = a
      OBVIOUS
    <2> QED
      BY <2>1 DEF Speaks
  <1> QED
    BY <1>1, <1>2

\* Each of the stories says what came of the call, or why nothing did.
LEMMA EveryStorySpeaks ==
  ASSUME NEW outcome, NEW events, Told(outcome, events)
  PROVE  Speaks(events)
  <1>1. CASE events = <<"error">>
    BY <1>1, SpeakingEvents
  <1>2. ASSUME NEW s \in BOOLEAN,
               events \in {Observed!Opening(s) \o <<"cache_hit">> \o Observed!Answer(s) \o <<"done">>,
                           Observed!Opening(s) \o <<"proposal", "done">>,
                           Observed!Opening(s) \o <<"error">>,
                           Observed!Ran(s) \o <<"error", "done">>,
                           Observed!Ran(s) \o Observed!Answer(s) \o <<"done">>,
                           Observed!Ran(s) \o Observed!Answer(s) \o <<"cache_store", "done">>}
        PROVE  Speaks(events)
    <2>1. /\ Observed!Opening(s) \in Seq(Event) /\ Observed!Ran(s) \in Seq(Event)
          /\ Observed!Shown(s) \in Seq(Event)
      BY PartsAreSequences
    <2>2. Observed!Opening(s) \o <<"cache_hit">> \in Seq(Event)
      BY <2>1, EventNames
    <2>3. <<"done">> \in Seq(Event) /\ <<"cache_store", "done">> \in Seq(Event)
      BY EventNames
    <2>4. Observed!Answer(s) \in Seq(Event) /\ Speaks(Observed!Answer(s))
      BY <2>1, SpeakingEvents, SpeaksOn DEF Observed!Answer
    <2>5. ASSUME NEW b \in Seq(Event), NEW t \in Seq(Event)
          PROVE  Speaks((b \o Observed!Answer(s)) \o t)
      <3>1. b \o Observed!Answer(s) \in Seq(Event) /\ Speaks(b \o Observed!Answer(s))
        BY <2>4, SpeaksOn
      <3> QED
        BY <3>1, SpeaksOn
    <2>6. CASE events \in {Observed!Opening(s) \o <<"proposal", "done">>,
                           Observed!Opening(s) \o <<"error">>,
                           Observed!Ran(s) \o <<"error", "done">>}
      BY <2>1, <2>6, SpeakingEvents, SpeaksOn
    <2> QED
      BY <1>2, <2>1, <2>2, <2>3, <2>5, <2>6
  <1>3. \/ events = <<"error">>
        \/ \E s \in BOOLEAN :
              events \in {Observed!Opening(s) \o <<"cache_hit">> \o Observed!Answer(s) \o <<"done">>,
                          Observed!Opening(s) \o <<"proposal", "done">>,
                          Observed!Opening(s) \o <<"error">>,
                          Observed!Ran(s) \o <<"error", "done">>,
                          Observed!Ran(s) \o Observed!Answer(s) \o <<"done">>,
                          Observed!Ran(s) \o Observed!Answer(s) \o <<"cache_store", "done">>}
    <2>1. \A status1, status2, events1, events2 :
             Observed!Story(status1, events1) = Observed!Story(status2, events2) => events1 = events2
      BY DEF Observed!Story
    <2>2. \/ Observed!Story(outcome, events) = Observed!Story("error", <<"error">>)
          \/ \E s \in BOOLEAN :
               \/ Observed!Story(outcome, events) = Observed!Story("ok",
                     Observed!Opening(s) \o <<"cache_hit">> \o Observed!Answer(s) \o <<"done">>)
               \/ Observed!Story(outcome, events) = Observed!Story("proposed",
                     Observed!Opening(s) \o <<"proposal", "done">>)
               \/ Observed!Story(outcome, events) = Observed!Story("error",
                     Observed!Opening(s) \o <<"error">>)
               \/ Observed!Story(outcome, events) = Observed!Story("error",
                     Observed!Ran(s) \o <<"error", "done">>)
               \/ Observed!Story(outcome, events) = Observed!Story("ok",
                     Observed!Ran(s) \o Observed!Answer(s) \o <<"done">>)
               \/ Observed!Story(outcome, events) = Observed!Story("ok",
                     Observed!Ran(s) \o Observed!Answer(s) \o <<"cache_store", "done">>)
      BY Zenon DEF Told, Observed!Stories
    <2> QED
      BY <2>1, <2>2, Zenon
  <1> QED
    BY <1>1, <1>2, <1>3

\* Where a run goes when it does not return.
LEMMA GoesOn ==
  ASSUME TypeOK, NEW r \in Run, NEW p, p # "returned", WaitAt(r, p),
         \A q \in Run \ {r} : trace'[q] = trace[q],
         \A q \in Run : Spoken(q)
  PROVE  \A q \in Run : Spoken(q)'
  BY DEF WaitAt, TypeOK, Spoken

LEMMA RunsSpeak ==
  ASSUME IInv, TracesFit, NEW r \in Run, Begin(r) \/ Advance(r) \/ SandboxRaises(r),
         \A q \in Run : Spoken(q)
  PROVE  \A q \in Run : Spoken(q)'
  <1>0. TypeOK
    BY DEF IInv
  <1>1. CASE Return(r)
    <2>1. pc[r] = "closing" /\ WaitAt(r, "returned") /\ UNCHANGED trace
      BY <1>1 DEF Return
    <2>2. Speaks(trace[r])
      BY <2>1, EveryStorySpeaks DEF TracesFit, TraceFits, Emitted
    <2> QED
      BY <1>0, <2>1, <2>2 DEF WaitAt, TypeOK, Spoken
  <1>2. CASE Raises(r)
    <2>1. WaitAt(r, "raised") /\ UNCHANGED trace
      BY <1>2 DEF Raises, StructureRaises, IdentityRaises, GateRaises, SandboxRaises, StoreRaises
    <2> QED
      BY <1>0, <2>1, GoesOn
  <1>3. CASE ~ Return(r) /\ ~ Raises(r)
    <2>1. \E p \in Suspended : WaitAt(r, p)
      BY <1>3 DEF Raises, Begin, UnknownTool, SelectContract, Advance, EmitStructure,
         CacheHit, Propose, RefuseToken, FinishProposal, GenerateCode, CodeGenerationFails,
         EmitExecuting, StartChild, StartChildFails, SandboxSucceeds, SandboxFails, FinishFailed,
         EmitCachedResult, EmitData, StoreResult, FinishOk, Close, Suspended
    <2>2. UNCHANGED trace \/ \E e : Emit(r, e)
      BY <1>3 DEF Raises, Begin, UnknownTool, SelectContract, Advance, EmitStructure,
         CacheHit, Propose, RefuseToken, FinishProposal, GenerateCode, CodeGenerationFails,
         EmitExecuting, StartChild, StartChildFails, SandboxSucceeds, SandboxFails, FinishFailed,
         EmitCachedResult, EmitData, StoreResult, FinishOk, Close
    <2>3. \A q \in Run \ {r} : trace'[q] = trace[q]
      BY <1>0, <2>2 DEF Emit, TypeOK
    <2>4. "returned" \notin Suspended
      BY DEF Suspended
    <2> QED
      BY <1>0, <2>1, <2>3, <2>4, GoesOn
  <1> QED
    BY <1>1, <1>2, <1>3

LEMMA AllSpeak ==
  ASSUME IInv, TracesFit, [Next]_vars,
         \A q \in Run : Spoken(q)
  PROVE  \A q \in Run : Spoken(q)'
  <1>0. TypeOK
    BY DEF IInv
  <1>1. ASSUME NEW r \in Run, Begin(r) \/ Advance(r) \/ SandboxRaises(r)
        PROVE  \A q \in Run : Spoken(q)'
    BY <1>1, RunsSpeak
  <1>2. ASSUME NEW r \in Run, ChildCalls(r) \/ OrphanExits(r)
        PROVE  \A q \in Run : Spoken(q)'
    BY <1>2 DEF ChildCalls, OrphanExits, runVars, Spoken
  <1>3. ASSUME NEW r \in Run, Abort(r)
        PROVE  \A q \in Run : Spoken(q)'
    BY <1>0, <1>3, GoesOn DEF Abort
  <1>4. CASE Restart
    BY <1>4 DEF Restart, Spoken
  <1>5. CASE RefreshRegistry \/ ClearCaches \/ UpstreamChanges \/ Tick \/ UNCHANGED vars
    BY <1>5 DEF RefreshRegistry, ClearCaches, UpstreamChanges, Tick, vars, runVars, Spoken
  <1> QED
    BY <1>1, <1>2, <1>3, <1>4, <1>5 DEF Next, Environment

\* What is left of "never silence" when exceptions are set aside.
ReturnsSpeak ==
    \A r \in Run : pc[r] = "returned" =>
        \E i \in DOMAIN trace[r] : trace[r][i] \in {"result", "proposal", "error"}

(* "Either it produced a result or it said why not -- never silence" is    *)
(* true of every run that returns, whatever the disk, the sandbox, the     *)
(* operator and the other runs do: only an exception that leaves run(), or *)
(* the end of the run from outside, can make it silent.                    *)
THEOREM NoReturnIsSilent == Spec => []ReturnsSpeak
  <1> DEFINE AllSpoken == \A q \in Run : Spoken(q)
             Telling == TracesFit /\ AllSpoken
  <1>1. Init => Telling
    BY DEF Init, TracesFit, TraceFits, Emitted, Spoken
  <1>2. IInv /\ Telling /\ [Next]_vars => Telling'
    BY NextTells, AllSpeak
  <1>3. Telling => ReturnsSpeak
    BY DEF Spoken, Speaks, ReturnsSpeak
  <1> HIDE DEF Telling
  <1> QED
    BY <1>1, <1>2, <1>3, IInvHolds, PTL DEF Spec
=============================================================================
