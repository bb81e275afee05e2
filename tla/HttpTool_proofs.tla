--------------------------- MODULE HttpTool_proofs ---------------------------
(***************************************************************************)
(* Theorems about HttpTool, for every contract, call, store and answer.    *)
(***************************************************************************)
EXTENDS HttpTool, FiniteSetTheorems, TLAPS

\* The loop of resolve_values over the values of one argument.
Loop == INSTANCE SequenceFold WITH Step <- Taken, Start <- << >>

\* Before its main request leaves, a child has told nothing and heard nothing.
NothingSentYet ==
    pc \in {"validating", "resolving"} => request = Nothing /\ reply = Nothing

ChildHasTheCall == pc # "exited" => contract # Nothing

ChildHasToldNothing == pc # "exited" => result = Nothing

\* An envelope that speaks of an answer was made after the answer, from it.
ToldOfAnAnswer ==
    result # Nothing /\ (result.ok \/ result.why \in {"status", "not JSON", "envelope"})
        => reply # Nothing /\ result = Outcome(contract, reply)

ToldSomething == pc = "exited" /\ contract # Nothing => result.ok \in BOOLEAN

AnswersAreReplies ==
    reply # Nothing => reply.status \in Status /\ reply.form \in {"text", "no data", "json"}

\* The inductive invariant.
IInv ==
    /\ TypeOK
    /\ NothingSentYet
    /\ ChildHasTheCall
    /\ ChildHasToldNothing
    /\ ToldOfAnAnswer
    /\ ToldSomething
    /\ AnswersAreReplies
    /\ RefusalsCostNothing

-----------------------------------------------------------------------------
(* Operators.                                                              *)

(* What run tells once it has an answer is a success, or one of three      *)
(* failures.                                                               *)
LEMMA OutcomeForms ==
  ASSUME NEW c, NEW r
  PROVE  /\ Outcome(c, r).ok \in BOOLEAN
         /\ ~ Outcome(c, r).ok => Outcome(c, r).why \in {"status", "not JSON", "envelope"}
  BY DEF Outcome, StatusFailure, Failure, Shape, Success

LEMMA RepliesHaveAStatus ==
  ASSUME NEW c, NEW r, NEW s, NEW answer \in Replies(c, r, s)
  PROVE  answer.status \in Status /\ answer.form \in {"text", "no data", "json"}
  BY DEF Replies, Reply

-----------------------------------------------------------------------------
(* The type invariant, action by action.                                   *)

LEMMA TypeStep == ASSUME TypeOK, ChildHasTheCall, [Next]_vars PROVE TypeOK'
  <1> USE DEF TypeOK, callVars, storeVars
  <1>1. CASE Start
    <2>1. PICK c \in Call : contract' = c.contract /\ given' = c.args /\ args' = c.args
      BY <1>1 DEF Start
    <2>2. [contract |-> contract', args |-> given'] \in Call
      BY <2>1, CallAssumption
    <2> QED
      BY <1>1, <2>1, <2>2 DEF Start
  <1>2. CASE Accept
    <2>1. ToResolve(contract, given) \subseteq DOMAIN contract.query
      BY DEF ToResolve
    <2> QED
      BY <1>2, <2>1 DEF Accept
  <1>3. CASE Lookup
    <2>1. store.records \in {s.records : s \in Store}
      OBVIOUS
    <2>2. seen' \subseteq {s.records : s \in Store}
      BY <1>3, <2>1 DEF Lookup
    <2>3. DOMAIN args' = DOMAIN args /\ pending' \subseteq pending
      BY <1>3 DEF Lookup
    <2>4. contract # Nothing
      BY <1>3 DEF Lookup, ChildHasTheCall
    <2>5. pc' \in {"exited", "resolving"}
      BY <1>3 DEF Lookup, Exit
    <2>6. UNCHANGED <<contract, given, request, store, changes>>
      BY <1>3 DEF Lookup
    <2> QED
      BY <2>2, <2>3, <2>4, <2>5, <2>6
  <1>4. CASE Send
    <2>1. DOMAIN request'.query = DOMAIN contract.query
      BY <1>4 DEF Send, RequestFor
    <2> QED
      BY <1>4, <2>1 DEF Send
  <1>5. CASE UpstreamAnswers
    BY <1>5 DEF UpstreamAnswers
  <1>6. CASE StoreChanges
    BY <1>6, BoundAssumption DEF StoreChanges
  <1>7. CASE Refuse \/ LookupFails \/ CannotBuild \/ RequestFails \/ Respond \/ Killed
    BY <1>7 DEF Refuse, LookupFails, CannotBuild, RequestFails, Respond, Killed, Exit
  <1>8. CASE UNCHANGED vars
    BY <1>8 DEF vars
  <1> QED
    BY <1>1, <1>2, <1>3, <1>4, <1>5, <1>6, <1>7, <1>8 DEF Next

-----------------------------------------------------------------------------
LEMMA InitIInv == Init => IInv
  <1> SUFFICES ASSUME Init PROVE IInv
    OBVIOUS
  <1>1. TypeOK
    BY BoundAssumption DEF Init, TypeOK
  <1> QED
    BY <1>1 DEF Init, IInv, NothingSentYet, ChildHasTheCall, ChildHasToldNothing, ToldOfAnAnswer,
                ToldSomething, AnswersAreReplies, RefusalsCostNothing

\* A child that gives up by itself, without an answer: why it does, and when.
LEMMA FailureFits ==
  ASSUME IInv, NEW why, Exit(Failure(why)), pc # "exited",
         UNCHANGED <<contract, request, reply>>,
         why \notin {"status", "not JSON", "envelope"},
         why \in Refusal => pc \in {"validating", "resolving"}
  PROVE  /\ (NothingSentYet /\ ChildHasTheCall /\ ChildHasToldNothing)'
         /\ (ToldOfAnAnswer /\ ToldSomething /\ AnswersAreReplies /\ RefusalsCostNothing)'
  BY DEF IInv, Exit, Failure, NothingSentYet, ChildHasTheCall, ChildHasToldNothing, ToldOfAnAnswer,
         ToldSomething, AnswersAreReplies, RefusalsCostNothing

LEMMA NextIInv == IInv /\ [Next]_vars => IInv'
  <1> SUFFICES ASSUME IInv, [Next]_vars PROVE IInv'
    OBVIOUS
  <1> USE DEF callVars, storeVars
  <1>0. TypeOK'
    BY TypeStep DEF IInv
  <1>1. CASE Start
    <2>1. contract' # Nothing /\ pc' = "validating"
      BY <1>1, CallAssumption DEF Start
    <2> QED
      BY <1>0, <1>1, <2>1 DEF Start, IInv, NothingSentYet, ChildHasTheCall, ChildHasToldNothing,
            ToldOfAnAnswer, ToldSomething, AnswersAreReplies, RefusalsCostNothing
  <1>2. CASE Refuse
    BY <1>0, <1>2, FailureFits DEF Refuse, IInv
  <1>3. CASE Accept
    BY <1>0, <1>3 DEF Accept, IInv, NothingSentYet, ChildHasTheCall, ChildHasToldNothing,
            ToldOfAnAnswer, ToldSomething, AnswersAreReplies, RefusalsCostNothing
  <1>4. CASE LookupFails
    BY <1>0, <1>4, FailureFits DEF LookupFails, IInv
  <1>5. CASE Lookup
    <2>1. CASE Exit(Failure("no such value"))
      BY <1>0, <1>5, <2>1, FailureFits DEF Lookup, IInv
    <2>2. CASE UNCHANGED <<pc, result>>
      BY <1>0, <1>5, <2>2 DEF Lookup, IInv, NothingSentYet, ChildHasTheCall, ChildHasToldNothing,
            ToldOfAnAnswer, ToldSomething, AnswersAreReplies, RefusalsCostNothing
    <2> QED
      BY <1>5, <2>1, <2>2 DEF Lookup
  <1>6. CASE CannotBuild
    BY <1>0, <1>6, FailureFits DEF CannotBuild, IInv
  <1>7. CASE Send
    BY <1>0, <1>7 DEF Send, IInv, NothingSentYet, ChildHasTheCall, ChildHasToldNothing,
            ToldOfAnAnswer, ToldSomething, AnswersAreReplies, RefusalsCostNothing
  <1>8. CASE RequestFails
    BY <1>0, <1>8, FailureFits DEF RequestFails, IInv, Refusal
  <1>9. CASE Respond
    <2>1. /\ pc' = "exited" /\ result' = Outcome(contract, reply)
          /\ reply # Nothing /\ UNCHANGED <<contract, request, reply>>
      BY <1>9 DEF Respond, Exit
    <2>2. /\ result'.ok \in BOOLEAN
          /\ ~ result'.ok => result'.why \in {"status", "not JSON", "envelope"}
      BY <2>1, OutcomeForms
    <2>3. pc = "waiting" /\ contract # Nothing
      BY <1>9 DEF Respond, IInv, ChildHasTheCall
    <2> QED
      BY <1>0, <2>1, <2>2, <2>3 DEF IInv, NothingSentYet, ChildHasTheCall, ChildHasToldNothing,
            ToldOfAnAnswer, ToldSomething, AnswersAreReplies, RefusalsCostNothing, Refusal
  <1>10. CASE Killed
    BY <1>0, <1>10, FailureFits DEF Killed, IInv, Refusal
  <1>11. CASE UpstreamAnswers
    <2>1. reply'.status \in Status /\ reply'.form \in {"text", "no data", "json"}
      BY <1>11, RepliesHaveAStatus DEF UpstreamAnswers
    <2> QED
      BY <1>0, <1>11, <2>1 DEF UpstreamAnswers, IInv, NothingSentYet, ChildHasTheCall,
            ChildHasToldNothing, ToldOfAnAnswer, ToldSomething, AnswersAreReplies, RefusalsCostNothing
  <1>12. CASE StoreChanges
    BY <1>0, <1>12 DEF StoreChanges, IInv, NothingSentYet, ChildHasTheCall, ChildHasToldNothing,
            ToldOfAnAnswer, ToldSomething, AnswersAreReplies, RefusalsCostNothing
  <1>13. CASE UNCHANGED vars
    BY <1>0, <1>13 DEF vars, IInv, NothingSentYet, ChildHasTheCall, ChildHasToldNothing,
            ToldOfAnAnswer, ToldSomething, AnswersAreReplies, RefusalsCostNothing
  <1> QED
    BY <1>1, <1>2, <1>3, <1>4, <1>5, <1>6, <1>7, <1>8, <1>9, <1>10, <1>11, <1>12, <1>13 DEF Next

LEMMA IInvHolds == Spec => []IInv
  BY InitIInv, NextIInv, PTL DEF Spec

-----------------------------------------------------------------------------
(* Through every call, whatever the contracts, the variables keep their    *)
(* types: the arguments resolved are those given, and the request has a    *)
(* place for each parameter of the query.                                  *)
THEOREM HttpToolTypeCorrect == Spec => []TypeOK
  <1>1. IInv => TypeOK
    BY DEF IInv
  <1> QED
    BY <1>1, IInvHolds, PTL

(* For every contract and all arguments: a call refused for its arguments  *)
(* or for a value that cannot be looked up has reached no endpoint.        *)
THEOREM RefusalsReachNobody == Spec => []RefusalsCostNothing
  <1>1. IInv => RefusalsCostNothing
    BY DEF IInv
  <1> QED
    BY <1>1, IInvHolds, PTL

\* What an outcome says of the answer it was made from.
LEMMA OutcomeTells ==
  ASSUME NEW c, NEW r
  PROVE  /\ Outcome(c, r).ok => r.status \in c.success /\ r.form \notin {"text", "no data"}
         /\ ~ Outcome(c, r).ok /\ Outcome(c, r).why = "status" =>
              /\ r.status \notin c.success
              /\ Outcome(c, r).retryable = Retryable(c, r.status)
         /\ ~ Outcome(c, r).ok /\ Outcome(c, r).why \in {"not JSON", "envelope"} =>
              r.status \in c.success
  BY DEF Outcome, StatusFailure, Failure, Shape, Success

(* For every contract and every answer: what the envelope says of the      *)
(* upstream is what the upstream said, and a retry is suggested only where *)
(* the contract, or else the status, allows one.                           *)
THEOREM EnvelopesAreTrue == Spec => []TellsWhatTheUpstreamSaid
  <1>1. IInv => TellsWhatTheUpstreamSaid
    <2> SUFFICES ASSUME IInv, result # Nothing
                 PROVE  TellsWhatTheUpstreamSaid
      BY DEF TellsWhatTheUpstreamSaid
    <2>1. CASE result.ok \/ result.why \in {"status", "not JSON", "envelope"}
      <3>1. reply # Nothing /\ result = Outcome(contract, reply)
        BY <2>1 DEF IInv, ToldOfAnAnswer
      <3>2. reply.status \in Nat
        BY <3>1, StatusAssumption DEF IInv, AnswersAreReplies
      <3>3. result.ok => reply.status \in contract.success /\ reply.form = "json"
        BY <3>1, OutcomeTells DEF IInv, AnswersAreReplies
      <3>4. ASSUME ~ result.ok, result.why = "status"
            PROVE  /\ reply.status \notin contract.success
                   /\ result.retryable = Retryable(contract, reply.status)
        BY <3>1, <3>4, OutcomeTells
      <3>5. ~ result.ok /\ result.why \in {"not JSON", "envelope"} => reply.status \in contract.success
        BY <3>1, OutcomeTells
      <3>6. reply.status \in DOMAIN contract.errors /\ Retryable(contract, reply.status) =>
              contract.errors[reply.status] # "final"
        BY DEF Retryable
      <3>7. reply.status \notin DOMAIN contract.errors /\ Retryable(contract, reply.status) =>
              reply.status \notin (400 .. 499) \ {429}
        BY <3>2 DEF Retryable
      <3> QED
        BY <3>3, <3>4, <3>5, <3>6, <3>7 DEF TellsWhatTheUpstreamSaid
    <2>2. CASE ~ (result.ok \/ result.why \in {"status", "not JSON", "envelope"})
      BY <2>2 DEF TellsWhatTheUpstreamSaid
    <2> QED
      BY <2>1, <2>2
  <1> QED
    BY <1>1, IInvHolds, PTL

\* A shaped answer holds what the contract promises.
LEMMA ShapePromises ==
  ASSUME NEW c, NEW r
  PROVE  /\ Shape(c, r).page \subseteq PaginationFields
         /\ c.fields # {} /\ (c.collection \/ ~ r.list) =>
              \A row \in Shape(c, r).rows : DOMAIN row \subseteq c.fields
  <1>1. ASSUME NEW row, c.fields # {} PROVE DOMAIN Project(c, row) \subseteq c.fields
    BY <1>1 DEF Project
  <1> QED
    BY <1>1 DEF Shape, Success

(* For every contract and every answer: no field and no pagination that    *)
(* was not promised reaches the caller, except in the list that answers a  *)
(* contract of one record.                                                 *)
THEOREM OnlyPromisedFieldsLeave == Spec => []OnlyPromisedFields
  <1>1. IInv => OnlyPromisedFields
    <2> SUFFICES ASSUME IInv, result # Nothing, result.ok PROVE OnlyPromisedFields
      BY DEF OnlyPromisedFields
    <2>1. result = Outcome(contract, reply)
      BY DEF IInv, ToldOfAnAnswer
    <2>2. result = Shape(contract, reply)
      BY <2>1 DEF Outcome, StatusFailure, Failure
    <2> QED
      BY <2>2, ShapePromises DEF OnlyPromisedFields
  <1> QED
    BY <1>1, IInvHolds, PTL

-----------------------------------------------------------------------------
(* For every contract, call, store and answer, the generated module is the *)
(* child that Executor assumes: it makes its request at most once, says    *)
(* "ok" only after that, and starts over only after it has told its result.*)
THEOREM GeneratedModuleIsAChild == Spec => IsASandboxChild
  <1> USE DEF ChildOfExecutor!vars
  <1>1. Init => ChildOfExecutor!Init
    BY DEF Init, ChildOfExecutor!Init
  <1>2. IInv /\ IInv' /\ [Next]_vars => [ChildOfExecutor!Next]_(ChildOfExecutor!vars)
    <2> SUFFICES ASSUME IInv, IInv', [Next]_vars
                 PROVE  [ChildOfExecutor!Next]_(ChildOfExecutor!vars)
      OBVIOUS
    <2> USE DEF callVars, storeVars, IInv, ChildHasTheCall, TypeOK
    <2>1. CASE Start
      <3>1. ChildOfExecutor!StartChild
        BY <2>1 DEF Start, ChildOfExecutor!StartChild
      <3> QED
        BY <3>1 DEF ChildOfExecutor!Next
    <2>2. ASSUME NEW why, Exit(Failure(why)), pc # "exited", UNCHANGED contract
          PROVE  ChildOfExecutor!SandboxFails
      BY <2>2 DEF Exit, Failure, ChildOfExecutor!SandboxFails
    <2>3. CASE Refuse \/ LookupFails \/ CannotBuild \/ RequestFails \/ Killed
      BY <2>2, <2>3 DEF Refuse, LookupFails, CannotBuild, RequestFails, Killed, ChildOfExecutor!Next
    <2>4. CASE Lookup
      <3>1. CASE Exit(Failure("no such value"))
        BY <2>2, <2>4, <3>1 DEF Lookup, ChildOfExecutor!Next
      <3>2. CASE UNCHANGED <<pc, result>>
        BY <2>4, <3>2 DEF Lookup
      <3> QED
        BY <2>4, <3>1, <3>2 DEF Lookup
    <2>5. CASE Send
      <3>1. ChildOfExecutor!ChildCalls
        BY <2>5 DEF Send, ChildOfExecutor!ChildCalls
      <3> QED
        BY <3>1 DEF ChildOfExecutor!Next
    <2>6. CASE Respond
      <3>1. result'.ok \in BOOLEAN
        BY <2>6, OutcomeForms DEF Respond, Exit
      <3>2. pc = "waiting" /\ pc' = "exited" /\ UNCHANGED contract
        BY <2>6 DEF Respond, Exit
      <3>3. CASE result'.ok
        BY <3>2, <3>3 DEF ChildOfExecutor!SandboxSucceeds, ChildOfExecutor!Next
      <3>4. CASE ~ result'.ok
        BY <3>2, <3>4 DEF ChildOfExecutor!SandboxFails, ChildOfExecutor!Next
      <3> QED
        BY <3>1, <3>3, <3>4
    <2>7. CASE Accept \/ UpstreamAnswers \/ StoreChanges \/ UNCHANGED vars
      BY <2>7 DEF Accept, UpstreamAnswers, StoreChanges, vars
    <2> QED
      BY <2>1, <2>3, <2>4, <2>5, <2>6, <2>7 DEF Next
  <1> QED
    BY <1>1, <1>2, IInvHolds, PTL DEF Spec, IsASandboxChild, ChildOfExecutor!Spec

-----------------------------------------------------------------------------
(* What the arguments become, and what is sent and answered for them.      *)

\* Every text that was sent stands for one given; and, unless misses drop, the reverse.
Resolves(value, sent, onMiss) ==
    /\ \A id \in Texts(sent) : \E text \in Texts(value) : Labelled(text, id)
    /\ onMiss = "error" => \A text \in Texts(value) : \E id \in Texts(sent) : Labelled(text, id)

LookedUp(i) ==
    LET q == contract.query[i] IN Resolves(given[q.arg], args[q.arg], q.onMiss)

\* An argument that no lookup takes stays what was given; once looked up, the others are ids.
ArgsFit ==
    contract # Nothing =>
        /\ args = [p \in DOMAIN given |-> args[p]]
        /\ pc = "validating" => args = given
        /\ pending \subseteq ToResolve(contract, given)
        /\ \A p \in DOMAIN given :
              (\A i \in ToResolve(contract, given) : contract.query[i].arg # p) => args[p] = given[p]
        /\ pc = "resolving" \/ request # Nothing =>
              \A i \in ToResolve(contract, given) \ pending : LookedUp(i)

RequestFits ==
    request # Nothing =>
        contract # Nothing /\ pending = {} /\ request = RequestFor(contract, args)

AnswerFits ==
    reply # Nothing =>
        /\ request # Nothing
        /\ reply.form = "json" =>
              \E s \in Store : s.records \in seen /\ reply.rows \subseteq Selected(contract, request, s)

\* The inductive invariant of the way from the arguments to the rows.
TravelFits == ArgsFit /\ RequestFits /\ AnswerFits

-----------------------------------------------------------------------------
(* Operators of the way.                                                   *)

(* The loop keeps what is an id, and nothing else.                         *)
LEMMA LoopTakes ==
  ASSUME NEW ids, Len(ids) \in Nat
  PROVE  /\ Len(Loop!Fold(ids)) \in Nat
         /\ DOMAIN Loop!Fold(ids) = 1 .. Len(Loop!Fold(ids))
         /\ {Loop!Fold(ids)[k] : k \in DOMAIN Loop!Fold(ids)}
               = {ids[i] : i \in 1 .. Len(ids)} \ {NoValue}
  <1> DEFINE All == {ids[i] : i \in 1 .. Len(ids)}
             taken(n) == {ids[i] : i \in 1 .. n} \ {NoValue}
             T == {p \in Nat \X Seq(All) : {p[2][k] : k \in 1 .. Len(p[2])} = taken(p[1])}
  <1>1. <<0, << >> >> \in T
    <2> DEFINE none == << >>
    <2>1. {none[k] : k \in 1 .. Len(none)} = {} /\ none \in Seq(All)
      OBVIOUS
    <2>2. taken(0) = {}
      OBVIOUS
    <2> HIDE DEF none, taken, All
    <2>3. <<0, none>> \in T
      BY <2>1, <2>2
    <2> QED BY <2>3 DEF none
  <1>2. ASSUME NEW v, NEW i \in 1 .. Len(ids), <<i - 1, v>> \in T
        PROVE  <<i, Taken(v, ids[i])>> \in T
    <2>1. v \in Seq(All) /\ {v[k] : k \in 1 .. Len(v)} = taken(i - 1)
      BY <1>2
    <2>2. {ids[h] : h \in 1 .. i} = {ids[h] : h \in 1 .. i - 1} \cup {ids[i]}
      <3>1. 1 .. i = (1 .. i - 1) \cup {i}
        OBVIOUS
      <3> QED BY <3>1
    <2>3. CASE ids[i] = NoValue
      <3>1. taken(i) = taken(i - 1)
        BY <2>2, <2>3
      <3>2. Taken(v, ids[i]) = v
        BY <2>3 DEF Taken
      <3> HIDE DEF taken
      <3> QED BY <2>1, <3>1, <3>2
    <2>4. CASE ids[i] # NoValue
      <3> DEFINE w == Append(v, ids[i])
      <3>1. w \in Seq(All) /\ Len(w) = Len(v) + 1 /\ w[Len(v) + 1] = ids[i]
            /\ \A k \in 1 .. Len(v) : w[k] = v[k]
        BY <2>1
      <3>2. 1 .. Len(w) = (1 .. Len(v)) \cup {Len(v) + 1}
        BY <2>1, <3>1
      <3>3. {w[k] : k \in 1 .. Len(w)} = {v[k] : k \in 1 .. Len(v)} \cup {ids[i]}
        <4> HIDE DEF w
        <4> QED BY <3>1, <3>2
      <3>4. taken(i) = taken(i - 1) \cup {ids[i]}
        BY <2>2, <2>4
      <3>5. Taken(v, ids[i]) = w
        BY <2>4 DEF Taken
      <3>6. w \in Seq(All) /\ {w[k] : k \in 1 .. Len(w)} = taken(i)
        <4> HIDE DEF w, taken
        <4> QED BY <2>1, <3>1, <3>3, <3>4
      <3> HIDE DEF w, taken
      <3> QED BY <3>5, <3>6
    <2> QED BY <2>3, <2>4
  <1>3. <<Len(ids), Loop!Fold(ids)>> \in T
    <2> HIDE DEF T
    <2> QED BY <1>1, <1>2, Loop!FoldInduction
  <1>4. /\ Loop!Fold(ids) \in Seq(All)
        /\ {Loop!Fold(ids)[k] : k \in 1 .. Len(Loop!Fold(ids))} = taken(Len(ids))
    <2> HIDE DEF taken, All
    <2> QED BY <1>3
  <1>5. DOMAIN Loop!Fold(ids) = 1 .. Len(Loop!Fold(ids)) /\ Len(Loop!Fold(ids)) \in Nat
    <2> HIDE DEF taken, All
    <2> QED BY <1>4
  <1> QED BY <1>4, <1>5

(* The id found for a text is that of a record with its label.             *)
LEMMA IdIsOfALabel ==
  ASSUME NEW text, NEW records, records \in Seq(Range(records)), IdOf(text, records) # NoValue
  PROVE  \E i \in DOMAIN records :
            Matches(text, records[i]) /\ records[i].id = IdOf(text, records)
  <1> DEFINE hits == {i \in DOMAIN records : Matches(text, records[i])}
  <1>1. hits # {}
    BY DEF IdOf
  <1>2. hits \subseteq Nat /\ DOMAIN records = 1 .. Len(records) /\ Len(records) \in Nat
    OBVIOUS
  <1>3. PICK i \in hits : \A j \in hits : i <= j
    <2> HIDE DEF hits
    <2> QED BY <1>1, <1>2, Loop!Least
  <1>4. /\ Matches(text, records[i])
        /\ \A j \in 1 .. i - 1 : ~ Matches(text, records[j])
    BY <1>2, <1>3
  <1>5. PICK k \in DOMAIN records : Matches(text, records[k]) /\ IdOf(text, records) = records[k].id
    BY <1>3, <1>4 DEF IdOf
  <1> QED BY <1>5

(* What substitution keeps of an argument, and what it puts in its place.  *)
LEMMA SubstitutedTexts ==
  ASSUME NEW value, NEW records, value = [list |-> value.list, items |-> value.items],
         value.items \in Seq(Range(value.items))
  PROVE  /\ Texts(Substituted(value, records))
               = {IdOf(text, records) : text \in Texts(value)} \ {NoValue}
         /\ Substituted(value, records).list = value.list
         /\ Missing(value, records) = {} => \A text \in Texts(value) : IdOf(text, records) # NoValue
  <1> DEFINE ids == [i \in DOMAIN value.items |-> IdOf(value.items[i], records)]
  <1>1. Substituted(value, records) = [value EXCEPT !.items = Loop!Fold(ids)]
    BY DEF Substituted, Loop!Fold
  <1>2. /\ Substituted(value, records).items = Loop!Fold(ids)
        /\ Substituted(value, records).list = value.list
    BY <1>1
  <1>3. Len(ids) \in Nat /\ 1 .. Len(ids) = DOMAIN value.items
    OBVIOUS
  <1>4. Texts(Substituted(value, records)) = {ids[i] : i \in DOMAIN value.items} \ {NoValue}
    <2> HIDE DEF ids
    <2>1. {ids[i] : i \in 1 .. Len(ids)} = {ids[i] : i \in DOMAIN value.items}
      BY <1>3
    <2>2. {Loop!Fold(ids)[k] : k \in DOMAIN Loop!Fold(ids)} = {ids[i] : i \in 1 .. Len(ids)} \ {NoValue}
      BY <1>3, LoopTakes
    <2>3. Texts(Substituted(value, records)) = {Loop!Fold(ids)[k] : k \in DOMAIN Loop!Fold(ids)}
      BY <1>2 DEF Texts
    <2> QED BY <2>1, <2>2, <2>3
  <1>5. {ids[i] : i \in DOMAIN value.items} = {IdOf(text, records) : text \in Texts(value)}
    BY DEF Texts
  <1> QED BY <1>2, <1>4, <1>5 DEF Missing, Texts

\* Labelled, in the records of one lookup.
Carries(records, text, id) ==
    \E i \in DOMAIN records :
        records[i].id = id /\ Folded[text] \in {Folded[l] : l \in records[i].labels}

LEMMA SubstitutedResolves ==
  ASSUME NEW value, NEW records, value = [list |-> value.list, items |-> value.items],
         value.items \in Seq(Range(value.items)), records \in Seq(Range(records))
  PROVE  /\ \A id \in Texts(Substituted(value, records)) :
               \E text \in Texts(value) : Carries(records, text, id)
         /\ Missing(value, records) = {} =>
               \A text \in Texts(value) :
                  \E id \in Texts(Substituted(value, records)) : Carries(records, text, id)
  <1>1. \A text : IdOf(text, records) # NoValue => Carries(records, text, IdOf(text, records))
    BY IdIsOfALabel DEF Matches, Carries
  <1> QED BY <1>1, SubstitutedTexts

(* What a parameter carries: its constant, or the texts of its argument.   *)
LEMMA CarriedTexts ==
  ASSUME NEW c, NEW a, NEW i \in DOMAIN c.query
  PROVE  LET q == c.query[i]
             carried == Carried(RequestFor(c, a), i)
         IN  /\ q.constant # NoValue => carried = {q.constant}
             /\ q.constant = NoValue /\ q.arg \in DOMAIN a => carried = Texts(a[q.arg])
             /\ q.constant = NoValue /\ q.arg \notin DOMAIN a => carried = {}
  <1> DEFINE q == c.query[i]
             pairs == Pairs(q, a)
             items == a[q.arg].items
  <1>1. Carried(RequestFor(c, a), i) = UNION {{pairs[k][j] : j \in DOMAIN pairs[k]} : k \in DOMAIN pairs}
    <2>1. RequestFor(c, a).query[i] = pairs
      BY DEF RequestFor
    <2> DEFINE texts(s) == UNION {{s[k][j] : j \in DOMAIN s[k]} : k \in DOMAIN s}
    <2>2. Carried(RequestFor(c, a), i) = texts(RequestFor(c, a).query[i])
      BY Zenon DEF Carried
    <2>3. texts(RequestFor(c, a).query[i]) = texts(pairs)
      <3> HIDE DEF texts, pairs
      <3> QED BY <2>1
    <2> QED BY <2>2, <2>3
  <1>2. CASE q.constant # NoValue
    <2>1. pairs = << <<q.constant>> >>
      BY <1>2 DEF Pairs
    <2> QED BY <1>1, <1>2, <2>1
  <1>3. CASE q.constant = NoValue /\ ~ Given(q.arg, a)
    <2>1. pairs = << >>
      BY <1>3 DEF Pairs
    <2>2. q.arg \in DOMAIN a => items = << >>
      BY <1>3 DEF Given
    <2> QED BY <1>1, <1>3, <2>1, <2>2 DEF Texts
  <1>4. CASE q.constant = NoValue /\ Given(q.arg, a)
    <2>1. q.arg \in DOMAIN a
      BY <1>4 DEF Given
    <2>2. CASE pairs = << items >>
      BY <1>1, <1>4, <2>1, <2>2 DEF Texts
    <2>3. CASE pairs = Each(items)
      <3>1. DOMAIN pairs = DOMAIN items /\ \A k \in DOMAIN items : pairs[k] = <<items[k]>>
        BY <2>3 DEF Each
      <3>2. \A k \in DOMAIN items : {pairs[k][j] : j \in DOMAIN pairs[k]} = {items[k]}
        BY <3>1
      <3> HIDE DEF pairs, items
      <3>3. UNION {{pairs[k][j] : j \in DOMAIN pairs[k]} : k \in DOMAIN pairs} = {items[k] : k \in DOMAIN items}
        BY <3>1, <3>2
      <3> QED BY <1>1, <1>4, <2>1, <3>3 DEF Texts, items
    <2> QED BY <1>4, <2>2, <2>3 DEF Pairs
  <1> QED BY <1>2, <1>3, <1>4

LEMMA CallFits ==
  ASSUME TypeOK, contract # Nothing
  PROVE  /\ [contract |-> contract, args |-> given] \in Call
         /\ contract.query \in Seq(Range(contract.query))
         /\ \A i \in DOMAIN contract.query :
               contract.query[i].constant # NoValue => contract.query[i].arg = NoValue
         /\ given = [p \in DOMAIN given |-> given[p]] /\ NoValue \notin DOMAIN given
         /\ \A p \in DOMAIN given :
               /\ given[p] = [list |-> given[p].list, items |-> given[p].items]
               /\ given[p].items \in Seq(Range(given[p].items))
         /\ DOMAIN args = DOMAIN given
  <1> DEFINE c == [contract |-> contract, args |-> given]
  <1>1. c \in Call /\ DOMAIN args = DOMAIN given
    BY DEF TypeOK
  <1>2. c.contract = contract /\ c.args = given
    OBVIOUS
  <1> HIDE DEF c
  <1>3. /\ contract.query \in Seq(Range(contract.query))
        /\ \A i \in DOMAIN contract.query :
              contract.query[i].constant # NoValue => contract.query[i].arg = NoValue
    BY <1>1, <1>2, QueryAssumption
  <1>4. /\ given = [p \in DOMAIN given |-> given[p]] /\ NoValue \notin DOMAIN given
        /\ \A p \in DOMAIN given :
              /\ given[p] = [list |-> given[p].list, items |-> given[p].items]
              /\ given[p].items \in Seq(Range(given[p].items))
    BY <1>1, <1>2, ArgumentAssumption
  <1> QED BY <1>1, <1>3, <1>4 DEF c

-----------------------------------------------------------------------------
(* The way, action by action.                                              *)

(* What was seen of the stores only grows during a call.                   *)
LEMMA StillLabelled ==
  ASSUME seen \subseteq seen', NEW text, NEW id, Labelled(text, id)
  PROVE  Labelled(text, id)'
  BY DEF Labelled

LEMMA StillLookedUp ==
  ASSUME NEW i, LookedUp(i), seen \subseteq seen', UNCHANGED <<contract, given>>,
         args'[contract.query[i].arg] = args[contract.query[i].arg]
  PROVE  LookedUp(i)'
  <1> DEFINE q == contract.query[i]
  <1>1. \A text, id : Labelled(text, id) => Labelled(text, id)'
    BY StillLabelled
  <1> QED BY <1>1 DEF LookedUp, Resolves, Texts

(* The steps that leave arguments, request and answer as they are.         *)
LEMMA TravelStays ==
  ASSUME TravelFits, UNCHANGED <<contract, given, args, pending, request, reply>>,
         seen \subseteq seen', pc' \in {"validating", "resolving"} => pc' = pc
  PROVE  TravelFits'
  <1>1. \A i \in ToResolve(contract, given) : LookedUp(i) => LookedUp(i)'
    BY StillLookedUp
  <1>2. ArgsFit'
    <2>1. pc' = "resolving" \/ request' # Nothing => pc = "resolving" \/ request # Nothing
      OBVIOUS
    <2>2. ToResolve(contract, given)' = ToResolve(contract, given)
      BY DEF ToResolve, Given
    <2> QED BY <1>1, <2>1, <2>2 DEF TravelFits, ArgsFit
  <1>3. RequestFits'
    BY DEF TravelFits, RequestFits
  <1>4. AnswerFits'
    BY DEF TravelFits, AnswerFits
  <1> QED BY <1>2, <1>3, <1>4 DEF TravelFits

(* A lookup turns the argument of one parameter into ids, and those of the *)
(* parameters looked up before stay so.                                    *)
LEMMA LookupTravels ==
  ASSUME MissesAgree, IInv, TravelFits, Lookup, UNCHANGED <<pc, result>>
  PROVE  TravelFits'
  <1> DEFINE i0 == First(pending)
             q0 == contract.query[i0]
             value == given[q0.arg]
             records == store.records
  <1>1. request = Nothing /\ reply = Nothing /\ contract # Nothing /\ pc = "resolving" /\ pending # {}
    BY DEF IInv, NothingSentYet, ChildHasTheCall, Lookup
  <1>2. /\ ~ (q0.onMiss = "error" /\ Missing(value, records) # {})
        /\ args' = [args EXCEPT ![q0.arg] = Substituted(value, records)]
        /\ pending' = pending \ {i0}
        /\ seen' = seen \cup {records}
        /\ UNCHANGED <<contract, given, request, reply, store>>
    <2>1. pc' # "exited"
      BY <1>1
    <2> QED BY <2>1 DEF Lookup, Exit, callVars, storeVars
  <1>3. /\ TypeOK /\ pending \subseteq ToResolve(contract, given)
        /\ args = [p \in DOMAIN given |-> args[p]]
    BY <1>1 DEF IInv, TravelFits, ArgsFit
  <1>4. i0 \in pending
    <2>1. pending \subseteq Nat
      <3>1. DOMAIN contract.query \subseteq Nat
        BY <1>1, <1>3, CallFits
      <3> QED BY <1>3, <3>1 DEF ToResolve
    <2>2. \E i \in pending : \A j \in pending : i <= j
      BY <1>1, <2>1, Loop!Least
    <2> QED BY <2>2 DEF First
  <1>5. q0.arg \in DOMAIN given
    BY <1>3, <1>4 DEF ToResolve, Given
  <1>6. /\ args'[q0.arg] = Substituted(value, records)
        /\ \A p : p # q0.arg => args'[p] = args[p]
        /\ args' = [p \in DOMAIN given |-> args'[p]]
    BY <1>2, <1>3, <1>5
  <1>7. /\ \A id \in Texts(args'[q0.arg]) : \E text \in Texts(value) : Labelled(text, id)'
        /\ q0.onMiss = "error" =>
              \A text \in Texts(value) : \E id \in Texts(args'[q0.arg]) : Labelled(text, id)'
    <2>1. records \in Seq(Range(records))
      BY <1>3, StoreAssumption DEF TypeOK
    <2>2. /\ value = [list |-> value.list, items |-> value.items]
          /\ value.items \in Seq(Range(value.items))
      BY <1>1, <1>3, <1>5, CallFits
    <2>3. \A text, id : Carries(records, text, id) => Labelled(text, id)'
      BY <1>2 DEF Carries, Labelled
    <2> HIDE DEF value, records, q0
    <2> QED BY <1>2, <1>6, <2>1, <2>2, <2>3, SubstitutedResolves
  <1>8. ASSUME NEW i \in ToResolve(contract, given), contract.query[i].arg = q0.arg
        PROVE  LookedUp(i)'
    <2>1. contract.query[i].onMiss = q0.onMiss
      <3>1. [contract |-> contract, args |-> given] \in Call
        BY <1>1, <1>3, CallFits
      <3> QED BY <1>3, <1>4, <1>8, <3>1 DEF MissesAgree
    <2> QED BY <1>2, <1>7, <1>8, <2>1 DEF LookedUp, Resolves
  <1>9. ASSUME NEW i \in ToResolve(contract, given) \ pending, contract.query[i].arg # q0.arg
        PROVE  LookedUp(i)'
    <2>1. LookedUp(i)
      BY <1>1, <1>9 DEF TravelFits, ArgsFit
    <2> QED BY <1>2, <1>6, <1>9, <2>1, StillLookedUp
  <1>10. ToResolve(contract, given)' = ToResolve(contract, given)
    BY <1>2 DEF ToResolve, Given
  <1>11. ArgsFit'
    <2>1. \A i \in ToResolve(contract, given) \ pending' : LookedUp(i)'
      BY <1>2, <1>8, <1>9
    <2>2. ASSUME NEW p \in DOMAIN given, \A i \in ToResolve(contract, given) : contract.query[i].arg # p
          PROVE  args'[p] = given[p]
      BY <1>1, <1>3, <1>4, <1>6, <2>2 DEF TravelFits, ArgsFit
    <2>3. pending' \subseteq ToResolve(contract, given)
      BY <1>2, <1>3
    <2> QED BY <1>1, <1>2, <1>6, <1>10, <2>1, <2>2, <2>3 DEF ArgsFit
  <1> QED BY <1>1, <1>2, <1>11 DEF TravelFits, RequestFits, AnswerFits

LEMMA TravelStep == MissesAgree /\ IInv /\ TravelFits /\ [Next]_vars => TravelFits'
  <1> SUFFICES ASSUME MissesAgree, IInv, TravelFits, [Next]_vars PROVE TravelFits'
    OBVIOUS
  <1>1. CASE Start
    <2>1. PICK c \in Call : contract' = c.contract /\ given' = c.args /\ args' = c.args
      BY <1>1 DEF Start
    <2>2. c.args = [p \in DOMAIN c.args |-> c.args[p]]
      BY ArgumentAssumption
    <2> QED BY <1>1, <2>1, <2>2 DEF Start, TravelFits, ArgsFit, RequestFits, AnswerFits
  <1>2. CASE Accept
    <2>1. /\ request = Nothing /\ reply = Nothing /\ contract # Nothing /\ args = given
          /\ args = [p \in DOMAIN given |-> args[p]]
      BY <1>2 DEF Accept, IInv, NothingSentYet, ChildHasTheCall, TravelFits, ArgsFit
    <2>2. UNCHANGED <<contract, given, args, request, reply>> /\ pending' = ToResolve(contract, given)
      BY <1>2 DEF Accept, callVars
    <2>3. ToResolve(contract, given)' = ToResolve(contract, given) /\ pc' = "resolving"
      BY <1>2, <2>2 DEF Accept
    <2> QED BY <2>1, <2>2, <2>3 DEF TravelFits, ArgsFit, RequestFits, AnswerFits
  <1>3. CASE Lookup
    <2>1. CASE Exit(Failure("no such value")) /\ UNCHANGED <<args, pending, seen>>
      BY <1>3, <2>1, TravelStays DEF Lookup, Exit, callVars
    <2>2. CASE UNCHANGED <<pc, result>>
      BY <1>3, <2>2, LookupTravels
    <2> QED BY <1>3, <2>1, <2>2 DEF Lookup
  <1>4. CASE Send
    <2>1. pc = "resolving" /\ pending = {} /\ reply = Nothing /\ contract # Nothing
      BY <1>4 DEF Send, IInv, NothingSentYet, ChildHasTheCall
    <2>2. /\ request' = RequestFor(contract, args) /\ pc' = "waiting"
          /\ UNCHANGED <<contract, given, args, pending, reply, seen>>
      BY <1>4 DEF Send, callVars
    <2>3. \A i \in ToResolve(contract, given) : LookedUp(i) => LookedUp(i)'
      BY <2>2, StillLookedUp
    <2>4. ArgsFit'
      <3>1. ToResolve(contract, given)' = ToResolve(contract, given)
        BY <2>2 DEF ToResolve
      <3> QED BY <2>1, <2>2, <2>3, <3>1 DEF TravelFits, ArgsFit
    <2>5. RequestFits' /\ AnswerFits'
      BY <2>1, <2>2 DEF RequestFits, AnswerFits
    <2> QED BY <2>4, <2>5 DEF TravelFits
  <1>5. CASE UpstreamAnswers
    <2>1. /\ request # Nothing /\ reply' \in Replies(contract, request, store)
          /\ seen' = seen \cup {store.records} /\ store \in Store
          /\ UNCHANGED <<pc, contract, given, args, pending, request>>
      BY <1>5 DEF UpstreamAnswers, callVars, IInv, TypeOK
    <2>2. reply'.form = "json" => reply'.rows \subseteq Selected(contract, request, store)
      BY <2>1 DEF Replies, Reply
    <2>3. AnswerFits'
      BY <2>1, <2>2 DEF AnswerFits
    <2>4. ArgsFit'
      <3>1. \A i \in ToResolve(contract, given) : LookedUp(i) => LookedUp(i)'
        BY <2>1, StillLookedUp
      <3>2. ToResolve(contract, given)' = ToResolve(contract, given)
        BY <2>1 DEF ToResolve
      <3> QED BY <2>1, <3>1, <3>2 DEF TravelFits, ArgsFit
    <2>5. RequestFits'
      BY <2>1 DEF TravelFits, RequestFits
    <2> QED BY <2>3, <2>4, <2>5 DEF TravelFits
  <1>6. CASE Refuse \/ LookupFails \/ CannotBuild \/ RequestFails \/ Respond \/ Killed
    <2>1. pc' = "exited"
      BY <1>6 DEF Refuse, LookupFails, CannotBuild, RequestFails, Respond, Killed, Exit
    <2> QED BY <1>6, <2>1, TravelStays
          DEF Refuse, LookupFails, CannotBuild, RequestFails, Respond, Killed, callVars
  <1>7. CASE StoreChanges \/ UNCHANGED vars
    BY <1>7, TravelStays DEF StoreChanges, vars, callVars
  <1> QED BY <1>1, <1>2, <1>3, <1>4, <1>5, <1>6, <1>7 DEF Next

LEMMA InitTravels == Init => TravelFits
  BY DEF Init, TravelFits, ArgsFit, RequestFits, AnswerFits

(* The request is what the arguments made it, whatever the contracts.      *)
LEMMA RequestInvariant == Spec => [](IInv /\ RequestFits)
  <1>1. Init => RequestFits
    BY DEF Init, RequestFits
  <1>2. ASSUME IInv, RequestFits, [Next]_vars PROVE RequestFits'
    <2>1. CASE Start \/ Send
      BY <1>2, <2>1 DEF Start, Send, callVars, RequestFits, IInv, ChildHasTheCall
    <2>2. CASE Accept \/ Lookup
      <3>1. request' = Nothing
        BY <1>2, <2>2 DEF Accept, Lookup, IInv, NothingSentYet
      <3> QED BY <3>1 DEF RequestFits
    <2>3. CASE Refuse \/ LookupFails \/ CannotBuild \/ RequestFails \/ Respond \/ Killed
               \/ UpstreamAnswers \/ StoreChanges \/ UNCHANGED vars
      <3>1. UNCHANGED <<contract, args, pending, request>>
        BY <2>3 DEF Refuse, LookupFails, CannotBuild, RequestFails, Respond, Killed, UpstreamAnswers,
                    StoreChanges, vars, callVars
      <3> QED BY <1>2, <3>1 DEF RequestFits
    <2> QED BY <1>2, <2>1, <2>2, <2>3 DEF Next
  <1> QED BY <1>1, <1>2, InitIInv, NextIInv, PTL DEF Spec

LEMMA TravelInvariant ==
  ASSUME MissesAgree
  PROVE  Spec => [](IInv /\ TravelFits)
  BY InitIInv, NextIInv, InitTravels, TravelStep, PTL DEF Spec

-----------------------------------------------------------------------------
(* What the request carries, and what comes back.                          *)

LEMMA QueryHolds ==
  ASSUME IInv, TravelFits
  PROVE  QueryCarriesWhatWasAsked
  <1> SUFFICES ASSUME request # Nothing, NEW i \in DOMAIN contract.query
               PROVE  LET q == contract.query[i]
                          sent == Carried(request, i)
                          asked == IF Given(q.arg, given) THEN Texts(given[q.arg]) ELSE {}
                          lookedUp == {contract.query[j].arg : j \in ToResolve(contract, given)}
                      IN  /\ q.constant # NoValue => sent = {q.constant}
                          /\ q.constant = NoValue /\ q.arg \notin lookedUp => sent = asked
                          /\ q.constant = NoValue /\ q.resolve =>
                                /\ \A id \in sent : \E text \in asked : Labelled(text, id)
                                /\ q.onMiss = "error" =>
                                      \A text \in asked : \E id \in sent : Labelled(text, id)
    BY DEF QueryCarriesWhatWasAsked
  <1> DEFINE q == contract.query[i]
             sent == Carried(request, i)
             asked == IF Given(q.arg, given) THEN Texts(given[q.arg]) ELSE {}
             lookedUp == {contract.query[j].arg : j \in ToResolve(contract, given)}
  <1>1. contract # Nothing /\ pending = {} /\ request = RequestFor(contract, args)
    BY DEF TravelFits, RequestFits
  <1>2. /\ q.constant # NoValue => sent = {q.constant}
        /\ q.constant = NoValue /\ q.arg \in DOMAIN args => sent = Texts(args[q.arg])
        /\ q.constant = NoValue /\ q.arg \notin DOMAIN args => sent = {}
    BY <1>1, CarriedTexts
  <1>3. DOMAIN args = DOMAIN given
    BY <1>1, CallFits DEF IInv
  <1>4. q.arg \in DOMAIN given => asked = Texts(given[q.arg])
    BY DEF Given, Texts
  <1>5. q.arg \notin DOMAIN given => asked = {}
    BY DEF Given
  <1>6. q.arg \in DOMAIN given /\ q.arg \notin lookedUp => args[q.arg] = given[q.arg]
    BY <1>1 DEF TravelFits, ArgsFit
  <1>7. q.constant = NoValue /\ q.arg \notin lookedUp => sent = asked
    BY <1>2, <1>3, <1>4, <1>5, <1>6
  <1>8. ASSUME q.constant = NoValue, q.resolve
        PROVE  /\ \A id \in sent : \E text \in asked : Labelled(text, id)
               /\ q.onMiss = "error" => \A text \in asked : \E id \in sent : Labelled(text, id)
    <2>1. CASE Given(q.arg, given)
      <3>1. i \in ToResolve(contract, given) /\ q.arg \in DOMAIN given
        BY <1>8, <2>1 DEF ToResolve, Given
      <3>2. LookedUp(i)
        BY <1>1, <3>1 DEF TravelFits, ArgsFit
      <3>3. sent = Texts(args[q.arg]) /\ asked = Texts(given[q.arg])
        BY <1>2, <1>3, <1>4, <1>8, <3>1
      <3> QED BY <3>2, <3>3 DEF LookedUp, Resolves
    <2>2. CASE ~ Given(q.arg, given)
      <3>1. q.arg \notin lookedUp
        BY <2>2 DEF ToResolve
      <3>2. asked = {}
        BY <2>2
      <3>3. sent = {}
        BY <1>7, <1>8, <3>1, <3>2
      <3> QED BY <3>2, <3>3
    <2> QED BY <2>1, <2>2
  <1> HIDE DEF sent, asked, lookedUp
  <1>9. /\ q.constant # NoValue => sent = {q.constant}
        /\ q.constant = NoValue /\ q.arg \notin lookedUp => sent = asked
        /\ q.constant = NoValue /\ q.resolve =>
              /\ \A id \in sent : \E text \in asked : Labelled(text, id)
              /\ q.onMiss = "error" => \A text \in asked : \E id \in sent : Labelled(text, id)
    BY <1>2, <1>7, <1>8
  <1> QED BY <1>9 DEF sent, asked, lookedUp

(* A mapped body has a field for each argument given that it lists, and    *)
(* the fields are as many, if it lists each once.                          *)
LEMMA MappedFields ==
  ASSUME NEW sent, IsFiniteSet(sent), \A m, n \in sent : m.wire = n.wire => m = n
  PROVE  /\ Cardinality({m.wire : m \in sent}) = Cardinality(sent)
         /\ \A m \in sent : (CHOOSE n \in sent : n.wire = m.wire) = m
  <1> DEFINE f == [m \in sent |-> m.wire]
             wires == {m.wire : m \in sent}
  <1>1. f \in Bijection(sent, wires)
    BY DEF Bijection, Injection, Surjection, IsInjective
  <1>2. ExistsBijection(sent, wires)
    BY <1>1 DEF ExistsBijection
  <1>3. Cardinality(wires) = Cardinality(sent)
    BY <1>2, FS_Bijection
  <1> QED BY <1>3

LEMMA BodyHolds ==
  ASSUME BodiesFit, IInv, RequestFits
  PROVE  BodyTakesTheRest
  <1> SUFFICES ASSUME request # Nothing PROVE BodyTakesTheRest
    BY DEF BodyTakesTheRest
  <1> DEFINE sent == {m \in contract.body : m.arg \in DOMAIN given}
  <1>1. contract # Nothing /\ request = RequestFor(contract, args)
    BY DEF RequestFits
  <1>2. /\ [contract |-> contract, args |-> given] \in Call
        /\ DOMAIN args = DOMAIN given /\ NoValue \notin DOMAIN given
        /\ \A i \in DOMAIN contract.query :
              contract.query[i].constant # NoValue => contract.query[i].arg = NoValue
    BY <1>1, CallFits DEF IInv
  <1>3. request.body = Body(contract, args)
    BY <1>1 DEF RequestFor
  <1>4. /\ contract.bodyMode = "passthrough" => contract.body = {}
        /\ IsFiniteSet(contract.body)
        /\ \A m, n \in contract.body : m.wire = n.wire => m = n
    BY <1>2 DEF BodiesFit
  <1>5. ASSUME contract.bodyMode = "passthrough", NEW p \in DOMAIN given
        PROVE  p \in DOMAIN request.body <=>
                 p \notin {m.arg : m \in contract.path}
                            \cup {contract.query[i].arg : i \in DOMAIN contract.query}
    <2>1. DOMAIN request.body = DOMAIN given \ Consumed(contract)
      BY <1>2, <1>3, <1>5 DEF Body
    <2>2. p # NoValue
      BY <1>2
    <2> QED BY <1>2, <1>4, <1>5, <2>1, <2>2 DEF Consumed
  <1>6. ASSUME contract.bodyMode = "mapped"
        PROVE  /\ Cardinality(DOMAIN request.body) = Cardinality(sent)
               /\ \A m \in contract.body : m.arg \in DOMAIN given =>
                     request.body[m.wire] = args[m.arg]
    <2>1. request.body =
            [w \in {m.wire : m \in sent} |-> args[(CHOOSE m \in sent : m.wire = w).arg]]
      BY <1>2, <1>3, <1>6 DEF Body
    <2>2. IsFiniteSet(sent)
      BY <1>4, FS_Subset
    <2>3. /\ Cardinality({m.wire : m \in sent}) = Cardinality(sent)
          /\ \A m \in sent : (CHOOSE n \in sent : n.wire = m.wire) = m
      BY <1>4, <2>2, MappedFields
    <2>4. \A m \in contract.body : m.arg \in DOMAIN given => m \in sent
      OBVIOUS
    <2> HIDE DEF sent
    <2>5. DOMAIN request.body = {m.wire : m \in sent}
      BY <2>1
    <2>6. \A m \in sent : request.body[m.wire] = args[m.arg]
      BY <2>1, <2>3
    <2> QED BY <2>3, <2>4, <2>5, <2>6
  <1> QED BY <1>5, <1>6 DEF BodyTakesTheRest

LEMMA FilterHolds ==
  ASSUME OneFilter, IInv, TravelFits
  PROVE  FilteredAsAsked
  <1> SUFFICES ASSUME result # Nothing, result.ok, \A s, t \in seen : s = t,
                      \A p \in Filters : Given(p, given) => Texts(given[p]) # {},
                      NEW p \in Filters, Given(p, given), NEW row \in reply.rows
               PROVE  \E text \in Texts(given[p]) : Labelled(text, row.state)
    BY DEF FilteredAsAsked, RowsAreAsAsked
  <1>1. reply # Nothing /\ result = Outcome(contract, reply)
    BY DEF IInv, ToldOfAnAnswer
  <1>2. reply.form = "json"
    BY <1>1, OutcomeTells DEF IInv, AnswersAreReplies
  <1>3. request # Nothing /\ contract # Nothing
    BY <1>1 DEF TravelFits, AnswerFits, RequestFits
  <1>4. PICK s \in Store : s.records \in seen /\ reply.rows \subseteq Selected(contract, request, s)
    BY <1>1, <1>2 DEF TravelFits, AnswerFits
  <1>5. PICK i \in DOMAIN contract.query :
          /\ contract.query[i].resolve /\ contract.query[i].onMiss = "error"
          /\ p = contract.query[i].arg
    BY DEF Filters
  <1>6. /\ contract.query[i].constant = NoValue
        /\ \A j \in DOMAIN contract.query : contract.query[j].resolve => j = i
    <2>1. [contract |-> contract, args |-> given] \in Call
      BY <1>3, CallFits DEF IInv
    <2> QED BY <1>5, <2>1 DEF OneFilter
  <1> DEFINE sent == Carried(request, i)
             usable == sent \cap {s.records[k].id : k \in DOMAIN s.records}
  <1>7. /\ \A id \in sent : \E text \in Texts(given[p]) : Labelled(text, id)
        /\ \A text \in Texts(given[p]) : \E id \in sent : Labelled(text, id)
    BY <1>3, <1>5, <1>6, QueryHolds DEF QueryCarriesWhatWasAsked
  <1>8. FilterIds(contract, request) = sent
    BY <1>5, <1>6 DEF FilterIds
  <1>9. usable # {}
    <2>1. PICK text \in Texts(given[p]) : TRUE
      OBVIOUS
    <2>2. PICK id \in sent : Labelled(text, id)
      BY <1>7
    <2>3. \E k \in DOMAIN s.records : s.records[k].id = id
      BY <1>4, <2>2 DEF Labelled
    <2> QED BY <2>2, <2>3
  <1>10. Selected(contract, request, s) = {o \in s.orders : o.state \in usable}
    <2> HIDE DEF sent
    <2> QED BY <1>8, <1>9 DEF Selected
  <1>11. row.state \in sent
    <2> HIDE DEF sent
    <2> QED BY <1>4, <1>10
  <1> QED BY <1>7, <1>11

-----------------------------------------------------------------------------
(* For every contract, query and argument, and a store that may change     *)
(* between the lookups: no parameter loses, changes or adds a text, and a  *)
(* readable value is sent as the id of its label, or the call is not made. *)
(* One argument looked up for two parameters has to be missed in one way.  *)
THEOREM QueriesCarryWhatWasAsked ==
  ASSUME MissesAgree
  PROVE  Spec => []QueryCarriesWhatWasAsked
  <1>1. IInv /\ TravelFits => QueryCarriesWhatWasAsked
    BY QueryHolds
  <1> QED BY <1>1, TravelInvariant, PTL

(* For every contract that lists fields for a mapped body only, each once: *)
(* an argument travels in one place, and a mapped body has the values that *)
(* were given for the fields it lists, and no other.                       *)
THEOREM BodiesTakeTheRest ==
  ASSUME BodiesFit
  PROVE  Spec => []BodyTakesTheRest
  <1>1. IInv /\ RequestFits => BodyTakesTheRest
    BY BodyHolds
  <1> QED BY <1>1, RequestInvariant, PTL

(* For every store and every list of readable values that is not empty: as *)
(* long as the store stands still, what a contract with one filter returns *)
(* are rows of the states that were asked for.                             *)
THEOREM RowsAreFiltered ==
  ASSUME OneFilter
  PROVE  Spec => []FilteredAsAsked
  <1>1. MissesAgree
    BY DEF OneFilter, MissesAgree, ToResolve
  <1>2. IInv /\ TravelFits => FilteredAsAsked
    BY FilterHolds
  <1> QED BY <1>1, <1>2, TravelInvariant, PTL

=============================================================================
