----------------------------- MODULE MCHttpTool -----------------------------
(***************************************************************************)
(* Small contracts, calls and stores for HttpTool.                         *)
(***************************************************************************)
EXTENDS HttpTool, TLC

Text == {"shipped", "Shipped", "delivered", "Delivered", "delivering", "refunded"}

FoldedTexts == [t \in Text |->
    CASE t = "Shipped" -> "shipped" [] t = "Delivered" -> "delivered" [] OTHER -> t]

One(t) == [list |-> FALSE, items |-> <<t>>]
Many(ts) == [list |-> TRUE, items |-> ts]
Null == [list |-> FALSE, items |-> << >>]

Plain(wire, arg) ==
    [wire |-> wire, arg |-> arg, constant |-> NoValue, style |-> "single", resolve |-> FALSE,
     onMiss |-> "error"]

Pinned(wire, text) == [Plain(wire, NoValue) EXCEPT !.constant = text]

Readable(style, onMiss) ==
    [Plain("status", "status") EXCEPT !.style = style, !.resolve = TRUE, !.onMiss = onMiss]

\* list_orders: a page that is checked, a readable filter, a pinned source.
Orders ==
    [required |-> {}, forbidden |-> {"store"},
     rules |-> {[field |-> "page", accepts |-> {One("1")}]},
     path |-> {}, query |-> <<Plain("page", "page"), Readable("bracket", "error"), Pinned("source", "app")>>,
     bodyMode |-> "none", body |-> {},
     success |-> {200}, errors |-> (404 :> "unsaid"),
     collection |-> TRUE, paginated |-> TRUE, fields |-> {"id", "state"}]

\* The same, taking what it can look up; and with a filter of one value.
Lenient == [Orders EXCEPT !.query = <<Readable("csv", "drop")>>, !.fields = {}]
Single == [Orders EXCEPT !.query = <<Readable("single", "error"), Plain("state", "status")>>]

\* update_order: a path, a query and all the rest as the body; 409 is worth a retry, 503 is not.
Update ==
    [Orders EXCEPT !.required = {"note"}, !.path = {[wire |-> "order", arg |-> "id"]},
        !.query = <<Plain("notify", "notify")>>, !.bodyMode = "passthrough",
        !.success = {200, 404}, !.errors = (409 :> "retryable" @@ 503 :> "final"),
        !.collection = FALSE]

\* create_order: a body of renamed arguments.
Create ==
    [Update EXCEPT !.path = {}, !.bodyMode = "mapped",
        !.body = {[wire |-> "the_note", arg |-> "note"], [wire |-> "the_state", arg |-> "state"]}]

CallOf(c, a) == [contract |-> c, args |-> a]

FilterCalls ==
    {CallOf(c, "status" :> v) : c \in {Orders, Lenient, Single},
        v \in {Null, One("Shipped"), Many(<<"delivered">>), Many(<<"shipped", "refunded">>)}}

OtherCalls ==
    {CallOf(Orders, "page" :> One(p)) : p \in {"1", "2"}}
        \cup {CallOf(Orders, "store" :> One("other"))}
        \cup {CallOf(Update, a) : a \in
                {"id" :> One("o1"),
                 "note" :> One("n"),
                 "id" :> One("o1") @@ "note" :> One("n") @@ "notify" :> One("y") @@ "extra" :> Null,
                 "id" :> One("o1") @@ "note" :> Many(<<"n">>) @@ "notify" :> Many(<<"y">>)}}
        \cup {CallOf(Create, a) : a \in
                {"note" :> One("n") @@ "notify" :> One("y"), "note" :> Null @@ "state" :> One("s1")}}

SomeCalls == FilterCalls \cup OtherCalls

\* A list that asks for no state at all.
EmptyCalls == {CallOf(Orders, "status" :> Many(<<>>)), CallOf(Orders, "status" :> One("Shipped"))}

Record(id, labels) == [id |-> id, labels |-> labels]
Order(id, state) == [id |-> id, state |-> state, app |-> "internal"]

Initially ==
    [records |-> <<Record("s1", {"Shipped"}), Record("s2", {"delivered"}), Record("s3", {"delivering"})>>,
     orders |-> {Order("o1", "s1"), Order("o2", "s2"), Order("o3", "s3")}]

\* "shipped" was deleted and added anew; "Delivered" is another state's label too.
Recreated ==
    [records |-> <<Record("s2", {"delivered"}), Record("s4", {"shipped"}), Record("s3", {"Delivered"})>>,
     orders |-> {Order("o1", "s4"), Order("o2", "s2"), Order("o3", "s3")}]

\* A record of "delivered" without the field the contract sends.
Incomplete == [Initially EXCEPT !.records[2].id = NoValue]

SomeStores == {Initially, Recreated, Incomplete}

\* The hypotheses of the theorems.
ASSUME MissesAgree /\ BodiesFit /\ OneFilter

SomePage == {"total", "currentPage", "links"}
=============================================================================
