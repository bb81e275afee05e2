------------------------------ MODULE HttpTool ------------------------------
(***************************************************************************)
(* The module that code_mode generates from http_tool.py.j2, as it runs in *)
(* a child of the sandbox: from the arguments of a call, through the       *)
(* lookups that turn readable values into a store's ids, to one request    *)
(* and the envelope that run_module reads.                                 *)
(*                                                                         *)
(* A contract is the record of what fills the template.  An argument is a  *)
(* record [list, items]: a scalar has one item, JSON's null is a scalar    *)
(* that has none.  What travels is the sequence of the values sent for     *)
(* each parameter, each a sequence of texts: one text, or those that       *)
(* style "csv" joins.                                                      *)
(***************************************************************************)
EXTENDS Naturals, Sequences, FiniteSets, Functions

CONSTANTS
    Call,           \* the calls made: a contract and the arguments it is given
    Folded,         \* str(value).strip().lower(), as a function on texts
    Store,          \* the stores: [records, orders]
    Status,         \* the statuses the upstream may answer with
    Page,           \* what it sends beside the data as "pagination"
    MaxChanges,     \* bound: times the store changes
    NoValue,        \* None: no id, no constant
    NoBody,         \* a request without a body
    Nothing         \* no call, request, reply or result yet

ASSUME CallAssumption ==
    \A c \in Call : c = [contract |-> c.contract, args |-> c.args] /\ c.contract # Nothing

\* A query is a list, of which the constants read no argument.
ASSUME QueryAssumption ==
    \A c \in Call : LET query == c.contract.query
                   IN  /\ query \in Seq(Range(query))
                       /\ \A i \in DOMAIN query :
                             query[i].constant # NoValue => query[i].arg = NoValue

ASSUME ArgumentAssumption ==
    \A c \in Call :
        /\ c.args = [p \in DOMAIN c.args |-> c.args[p]] /\ NoValue \notin DOMAIN c.args
        /\ \A p \in DOMAIN c.args :
              /\ c.args[p] = [list |-> c.args[p].list, items |-> c.args[p].items]
              /\ c.args[p].items \in Seq(Range(c.args[p].items))

ASSUME StoreAssumption == \A s \in Store : s.records \in Seq(Range(s.records))

ASSUME StatusAssumption == Status \subseteq Nat

ASSUME BoundAssumption == MaxChanges \in Nat

VARIABLES
    pc,         \* how far the child is
    contract,   \* CONTRACT: the constants of the generated module
    given,      \* the arguments of the call
    args,       \* resolved: the same, readable values replaced
    pending,    \* the query parameters that resolve_values has yet to look at
    request,    \* what httpx.request was called with
    reply,      \* what the upstream answered
    result,     \* what run_module makes of the envelope
    store,      \* the merchant's store behind the upstream
    changes,    \* how often it changed
    seen        \* the records the store had at the lookups and at the answer of this call

callVars == <<contract, given>>
storeVars == <<store, changes>>
vars == <<pc, callVars, args, pending, request, reply, result, storeVars, seen>>

-----------------------------------------------------------------------------
(* Arguments.                                                              *)

\* args.get(p) is not None
Given(p, a) == p \in DOMAIN a /\ (a[p].list \/ a[p].items # << >>)

Valid(c, a) ==
    /\ c.required \subseteq DOMAIN a
    /\ c.forbidden \cap DOMAIN a = {}
    /\ \A rule \in c.rules : Given(rule.field, a) => a[rule.field] \in rule.accepts

-----------------------------------------------------------------------------
(* Value resolution.                                                       *)

Matches(text, record) == \E l \in record.labels : Folded[l] = Folded[text]

\* match_record takes the first that matches; sendField may be missing from it.
IdOf(text, records) ==
    IF \E i \in DOMAIN records : Matches(text, records[i])
    THEN records[CHOOSE i \in DOMAIN records :
            /\ Matches(text, records[i])
            /\ \A j \in 1 .. i - 1 : ~ Matches(text, records[j])].id
    ELSE NoValue

Taken(substituted, id) == IF id = NoValue THEN substituted ELSE Append(substituted, id)

Substituted(value, records) ==
    LET ids == [i \in DOMAIN value.items |-> IdOf(value.items[i], records)]
        after[i \in 0 .. Len(ids)] == IF i = 0 THEN << >> ELSE Taken(after[i - 1], ids[i])
    IN  [value EXCEPT !.items = after[Len(ids)]]

\* Faulty variants of Missing: nothing is missing if a record matches, whether it has the
\* field to send or not; and nothing is if any value was found.
MissingRecords(value, records) ==
    {i \in DOMAIN value.items : \A j \in DOMAIN records : ~ Matches(value.items[i], records[j])}

MissingAltogether(value, records) ==
    IF \A i \in DOMAIN value.items : IdOf(value.items[i], records) = NoValue
    THEN DOMAIN value.items ELSE {}

Missing(value, records) ==
    {i \in DOMAIN value.items : IdOf(value.items[i], records) = NoValue}

\* The parameters that resolve_values looks up for these arguments.
ToResolve(c, a) ==
    {i \in DOMAIN c.query :
        c.query[i].resolve /\ c.query[i].constant = NoValue /\ Given(c.query[i].arg, a)}

First(indices) == CHOOSE i \in indices : \A j \in indices : i <= j

-----------------------------------------------------------------------------
(* Arguments to request.                                                   *)

Each(items) == [i \in DOMAIN items |-> <<items[i]>>]

\* The pairs one query parameter contributes to build_query.
Pairs(q, a) ==
    IF q.constant # NoValue THEN << <<q.constant>> >>
    ELSE IF ~ Given(q.arg, a) THEN << >>
    ELSE IF a[q.arg].list /\ q.style = "csv" THEN << a[q.arg].items >>
    ELSE Each(a[q.arg].items)

Consumed(c) ==
    {m.arg : m \in c.path \cup c.body}
        \cup {c.query[i].arg : i \in {j \in DOMAIN c.query : c.query[j].constant = NoValue}}

\* Faulty variant of Body: the arguments of the query travel in the body too.
BodyWithQuery(c, a) ==
    IF c.bodyMode = "passthrough"
    THEN [p \in DOMAIN a \ {m.arg : m \in c.path} |-> a[p]]
    ELSE NoBody

Body(c, a) ==
    CASE c.bodyMode = "none" -> NoBody
      [] c.bodyMode = "mapped" ->
            LET sent == {m \in c.body : m.arg \in DOMAIN a}
            IN  [w \in {m.wire : m \in sent} |-> a[(CHOOSE m \in sent : m.wire = w).arg]]
      [] c.bodyMode = "passthrough" -> [p \in DOMAIN a \ Consumed(c) |-> a[p]]

\* build_path and build_query raise.
Unbuildable(c, a) ==
    \/ \E m \in c.path : m.arg \notin DOMAIN a
    \/ \E i \in DOMAIN c.query :
          LET q == c.query[i]
          IN  /\ q.constant = NoValue /\ Given(q.arg, a)
              /\ a[q.arg].list /\ q.style \notin {"bracket", "repeat", "csv"}

RequestFor(c, a) ==
    [path |-> [w \in {m.wire : m \in c.path} |-> a[(CHOOSE m \in c.path : m.wire = w).arg]],
     query |-> [i \in DOMAIN c.query |-> Pairs(c.query[i], a)],
     body |-> Body(c, a)]

-----------------------------------------------------------------------------
(* Response to result.                                                     *)

Success(rows, page) == [ok |-> TRUE, rows |-> rows, page |-> page]

Failure(why) == [ok |-> FALSE, why |-> why]

\* Faulty variant of Retryable: the class of the status decides alone.
RetryableByClass(c, status) == status = 429 \/ status >= 500

\* describe_failure: the contract's meaning of the status, and whether a retry may help.
Retryable(c, status) ==
    IF status \in DOMAIN c.errors /\ c.errors[status] # "unsaid"
    THEN c.errors[status] = "retryable"
    ELSE status = 429 \/ status >= 500

StatusFailure(c, status) ==
    [ok |-> FALSE, why |-> "status", documented |-> status \in DOMAIN c.errors,
     retryable |-> Retryable(c, status)]

Project(c, row) ==
    IF c.fields = {} THEN row ELSE [f \in DOMAIN row \cap c.fields |-> row[f]]

PaginationFields == {"count", "total", "perPage", "currentPage", "totalPages"}

\* Faulty variant of Shape: pagination passes through as it came.
ShapeUnprojectedPage(c, answer) ==
    Success({Project(c, row) : row \in answer.rows}, answer.page)

\* Only a dict is projected: a list where the contract declared one record is not.
Shape(c, answer) ==
    IF c.collection
    THEN Success({Project(c, row) : row \in answer.rows},
                 IF c.paginated THEN answer.page \cap PaginationFields ELSE {})
    ELSE Success(IF answer.list THEN answer.rows ELSE {Project(c, row) : row \in answer.rows}, {})

\* run, once it has a response.
Outcome(c, r) ==
    IF r.status \notin c.success THEN StatusFailure(c, r.status)
    ELSE IF r.form = "text" THEN Failure("not JSON")
    ELSE IF r.form = "no data" THEN Failure("envelope")
    ELSE Shape(c, r)

-----------------------------------------------------------------------------
(* The child.                                                              *)

Init ==
    /\ pc = "exited"
    /\ contract = Nothing /\ given = Nothing /\ args = Nothing
    /\ pending = {} /\ seen = {}
    /\ request = Nothing /\ reply = Nothing /\ result = Nothing
    /\ store \in Store
    /\ changes = 0

\* Faulty variant of Start: arguments that are null are lost on the way to the child.
StartWithoutNulls ==
    /\ pc = "exited"
    /\ \E c \in Call :
          /\ contract' = c.contract /\ given' = c.args
          /\ args' = [p \in {q \in DOMAIN c.args : Given(q, c.args)} |-> c.args[p]]
    /\ pc' = "validating"
    /\ pending' = {} /\ seen' = {}
    /\ request' = Nothing /\ reply' = Nothing /\ result' = Nothing
    /\ UNCHANGED storeVars

\* run_module starts a child for a call and gives it the arguments.
Start ==
    /\ pc = "exited"
    /\ \E c \in Call : contract' = c.contract /\ given' = c.args /\ args' = c.args
    /\ pc' = "validating"
    /\ pending' = {} /\ seen' = {}
    /\ request' = Nothing /\ reply' = Nothing /\ result' = Nothing
    /\ UNCHANGED storeVars

\* The child prints an envelope, and run_module reads it.
Exit(outcome) == pc' = "exited" /\ result' = outcome

Refuse ==
    /\ pc = "validating"
    /\ ~ Valid(contract, given)
    /\ Exit(Failure("arguments"))
    /\ UNCHANGED <<callVars, args, pending, request, reply, storeVars, seen>>

Accept ==
    /\ pc = "validating"
    /\ Valid(contract, given)
    /\ pc' = "resolving"
    /\ pending' = ToResolve(contract, given)
    /\ UNCHANGED <<callVars, args, request, reply, result, storeVars, seen>>

\* fetch_records: the store cannot be reached, or its answer holds no records.
LookupFails ==
    /\ pc = "resolving" /\ pending # {}
    /\ Exit(Failure("lookup"))
    /\ UNCHANGED <<callVars, args, pending, request, reply, storeVars, seen>>

\* resolve_values, for one parameter: the values are looked up as they were given.
Lookup ==
    /\ pc = "resolving" /\ pending # {}
    /\ LET q == contract.query[First(pending)]
           value == given[q.arg]
       IN  IF q.onMiss = "error" /\ Missing(value, store.records) # {}
           THEN /\ Exit(Failure("no such value"))
                /\ UNCHANGED <<args, pending, seen>>
           ELSE /\ args' = [args EXCEPT ![q.arg] = Substituted(value, store.records)]
                /\ pending' = pending \ {First(pending)}
                /\ seen' = seen \cup {store.records}
                /\ UNCHANGED <<pc, result>>
    /\ UNCHANGED <<callVars, request, reply, storeVars>>

CannotBuild ==
    /\ pc = "resolving" /\ pending = {}
    /\ Unbuildable(contract, args)
    /\ Exit(Failure("arguments"))
    /\ UNCHANGED <<callVars, args, pending, request, reply, storeVars, seen>>

\* Faulty variant of Send: the request leaves beside the lookups.
SendBesideLookups ==
    /\ pc = "resolving" /\ request = Nothing
    /\ ~ Unbuildable(contract, args)
    /\ request' = RequestFor(contract, args)
    /\ pc' = IF pending = {} THEN "waiting" ELSE "resolving"
    /\ UNCHANGED <<callVars, args, pending, reply, result, storeVars, seen>>

Send ==
    /\ pc = "resolving" /\ pending = {}
    /\ ~ Unbuildable(contract, args)
    /\ request' = RequestFor(contract, args)
    /\ pc' = "waiting"
    /\ UNCHANGED <<callVars, args, pending, reply, result, storeVars, seen>>

\* httpx.request raises: the upstream timed out or cannot be reached.  It may
\* have acted on the request, and may still.
RequestFails ==
    /\ pc = "waiting"
    /\ Exit(Failure("network"))
    /\ UNCHANGED <<callVars, args, pending, request, reply, storeVars, seen>>

\* Faulty variant of Respond: a status that may pass is tried again at once.
RespondOrRetry ==
    /\ pc = "waiting" /\ reply # Nothing
    /\ IF reply.status \notin contract.success /\ Retryable(contract, reply.status)
       THEN /\ pc' = "resolving"
            /\ request' = Nothing /\ reply' = Nothing
            /\ UNCHANGED result
       ELSE /\ Exit(Outcome(contract, reply))
            /\ UNCHANGED <<request, reply>>
    /\ UNCHANGED <<callVars, args, pending, storeVars, seen>>

Respond ==
    /\ pc = "waiting" /\ reply # Nothing
    /\ Exit(Outcome(contract, reply))
    /\ UNCHANGED <<callVars, args, pending, request, reply, storeVars, seen>>

\* run_module kills a child at its timeout; a child that dies by itself or whose
\* output is no envelope is the same to it.
Killed ==
    /\ pc # "exited"
    /\ Exit(Failure("sandbox"))
    /\ UNCHANGED <<callVars, args, pending, request, reply, storeVars, seen>>

-----------------------------------------------------------------------------
(* The upstream.  A filter it can use selects; one it cannot is ignored.   *)

\* The texts that one query parameter of a request carries.
Carried(r, i) == UNION {{r.query[i][k][j] : j \in DOMAIN r.query[i][k]} : k \in DOMAIN r.query[i]}

FilterIds(c, r) == UNION {Carried(r, i) : i \in {j \in DOMAIN c.query : c.query[j].resolve}}

Selected(c, r, s) ==
    LET usable == FilterIds(c, r) \cap {s.records[i].id : i \in DOMAIN s.records}
    IN  IF usable = {} THEN s.orders ELSE {o \in s.orders : o.state \in usable}

Reply(form, list, rows) ==
    [status : Status, form : form, list : {list}, rows : rows, page : {Page}]

Replies(c, r, s) ==
    LET selected == Selected(c, r, s)
    IN  Reply({"text", "no data"}, FALSE, {{}})
            \cup Reply({"json"}, TRUE, {selected})
            \cup Reply({"json"}, FALSE, {{o} : o \in selected})

\* The request may arrive after the child gave up, or never.
UpstreamAnswers ==
    /\ request # Nothing /\ reply = Nothing
    /\ reply' \in Replies(contract, request, store)
    /\ seen' = seen \cup {store.records}
    /\ UNCHANGED <<pc, callVars, args, pending, request, result, storeVars>>

\* The merchant renames, adds or removes states and orders.
StoreChanges ==
    /\ changes < MaxChanges
    /\ store' \in Store \ {store}
    /\ changes' = changes + 1
    /\ UNCHANGED <<pc, callVars, args, pending, request, reply, result, seen>>

Next ==
    \/ Start \/ Refuse \/ Accept \/ LookupFails \/ Lookup \/ CannotBuild \/ Send
    \/ RequestFails \/ Respond \/ Killed \/ UpstreamAnswers \/ StoreChanges

Spec == Init /\ [][Next]_vars

-----------------------------------------------------------------------------
(* Properties.                                                             *)

TypeOK ==
    /\ pc \in {"exited", "validating", "resolving", "waiting"}
    /\ \/ contract = Nothing /\ given = Nothing /\ args = Nothing
       \/ /\ [contract |-> contract, args |-> given] \in Call
          /\ DOMAIN args = DOMAIN given
          /\ pending \subseteq DOMAIN contract.query
          /\ request = Nothing \/ DOMAIN request.query = DOMAIN contract.query
    /\ store \in Store
    /\ changes \in 0 .. MaxChanges
    /\ seen \subseteq {s.records : s \in Store}

(* "a bad argument fails here instead of costing a round trip": a call     *)
(* that is refused for its arguments, or for a value that cannot be looked *)
(* up, has not reached its endpoint, and never will.                       *)
Refusal == {"arguments", "lookup", "no such value"}

RefusalsCostNothing ==
    pc = "exited" /\ result # Nothing /\ ~ result.ok /\ result.why \in Refusal
        => request = Nothing /\ reply = Nothing

(* Nothing the caller said is lost, changed or added on the way to the     *)
(* query: a parameter carries its constant whatever the arguments, or the  *)
(* texts given and no more; and a readable value is either sent as the id  *)
(* of a record that carries its label, or the call is not made.  "The      *)
(* default must never be a silently dropped filter."  (An argument that is *)
(* looked up for one parameter is an id for every parameter it feeds.)     *)
Labelled(text, id) ==
    \E records \in seen : \E i \in DOMAIN records :
        records[i].id = id /\ Folded[text] \in {Folded[l] : l \in records[i].labels}

Texts(value) == {value.items[i] : i \in DOMAIN value.items}

QueryCarriesWhatWasAsked ==
    request # Nothing => \A i \in DOMAIN contract.query :
        LET q == contract.query[i]
            sent == Carried(request, i)
            asked == IF Given(q.arg, given) THEN Texts(given[q.arg]) ELSE {}
            lookedUp == {contract.query[j].arg : j \in ToResolve(contract, given)}
        IN  /\ q.constant # NoValue => sent = {q.constant}
            /\ q.constant = NoValue /\ q.arg \notin lookedUp => sent = asked
            /\ q.constant = NoValue /\ q.resolve =>
                  /\ \A id \in sent : \E text \in asked : Labelled(text, id)
                  /\ q.onMiss = "error" =>
                        \A text \in asked : \E id \in sent : Labelled(text, id)

\* What this asks of the contracts: what is looked up for one argument is missed in one way.
MissesAgree ==
    \A c \in Call : LET query == c.contract.query
                   IN  \A i, j \in ToResolve(c.contract, c.args) :
                         query[i].arg = query[j].arg => query[i].onMiss = query[j].onMiss

(* Under "passthrough" an argument travels in the body exactly if neither  *)
(* the path nor the query takes it; a mapped body renames the arguments it *)
(* lists, leaves out those not given, and adds none.                       *)
BodyTakesTheRest ==
    request # Nothing /\ request.body # NoBody =>
        LET elsewhere == {m.arg : m \in contract.path}
                            \cup {contract.query[i].arg : i \in DOMAIN contract.query}
        IN  /\ contract.bodyMode = "passthrough" =>
                  \A p \in DOMAIN given : p \in DOMAIN request.body <=> p \notin elsewhere
            /\ contract.bodyMode = "mapped" =>
                  /\ Cardinality(DOMAIN request.body) =
                        Cardinality({m \in contract.body : m.arg \in DOMAIN given})
                  /\ \A m \in contract.body : m.arg \in DOMAIN given =>
                        request.body[m.wire] = args[m.arg]

\* What this asks of the contracts: fields are listed for a mapped body only, each once.
BodiesFit ==
    \A c \in Call :
        /\ c.contract.bodyMode = "passthrough" => c.contract.body = {}
        /\ IsFiniteSet(c.contract.body)
        /\ \A m, n \in c.contract.body : m.wire = n.wire => m = n

(* A caller that filters by readable values gets no row of another state,  *)
(* as long as the store stood still from the lookup to the answer and some *)
(* value was given.                                                        *)
Filters ==
    {contract.query[i].arg : i \in
        {j \in DOMAIN contract.query : contract.query[j].resolve /\ contract.query[j].onMiss = "error"}}

RowsAreAsAsked ==
    \A p \in Filters : Given(p, given) =>
        \A row \in reply.rows : \E text \in Texts(given[p]) : Labelled(text, row.state)

FilteredAsAsked ==
    /\ result # Nothing /\ result.ok
    /\ \A s, t \in seen : s = t
    /\ \A p \in Filters : Given(p, given) => Texts(given[p]) # {}
    => RowsAreAsAsked

\* What this asks of the contracts: one parameter at most that is looked up, and not pinned.
OneFilter ==
    \A c \in Call : LET query == c.contract.query
                   IN  \A i, j \in {k \in DOMAIN query : query[k].resolve} :
                         i = j /\ query[i].constant = NoValue

(* What list_orders promises without those conditions: "it never comes     *)
(* back as an unfiltered list of every order".                             *)
NeverUnfiltered == result # Nothing /\ result.ok => RowsAreAsAsked

(* The envelope tells what the upstream did: a success was answered with a *)
(* status the contract calls one and inside the envelope it declared; a    *)
(* failure of the upstream is one; a retry is never suggested for a status *)
(* the contract calls final, nor for a client error it does not document.  *)
TellsWhatTheUpstreamSaid ==
    result # Nothing =>
        /\ result.ok => reply.status \in contract.success /\ reply.form = "json"
        /\ ~ result.ok /\ result.why = "status" =>
              /\ reply.status \notin contract.success
              /\ result.retryable =>
                    IF reply.status \in DOMAIN contract.errors
                    THEN contract.errors[reply.status] # "final"
                    ELSE reply.status \notin (400 .. 499) \ {429}
        /\ ~ result.ok /\ result.why \in {"not JSON", "envelope"} =>
              reply.status \in contract.success

(* "A chatty upstream adding a field does not leak it to the caller":      *)
(* records and pagination carry promised fields only, except where the     *)
(* upstream answers a list to a contract that declared one record.         *)
OnlyPromisedFields ==
    result # Nothing /\ result.ok =>
        /\ contract.fields # {} /\ (contract.collection \/ ~ reply.list) =>
              \A row \in result.rows : DOMAIN row \subseteq contract.fields
        /\ result.page \subseteq PaginationFields

(* The child behaves as Executor assumes, whatever it does in between: its *)
(* one request leaves it at most once, and it says "ok" only after that.   *)
ChildOfExecutor ==
    INSTANCE SandboxChild WITH
        child <- CASE pc = "exited" -> "none"
                   [] pc = "waiting" -> "called"
                   [] OTHER -> "running",
        told <- IF contract = Nothing \/ pc # "exited" THEN "nothing"
                ELSE IF result.ok THEN "ok" ELSE "error"

IsASandboxChild == ChildOfExecutor!Spec
=============================================================================
