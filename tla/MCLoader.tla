------------------------------ MODULE MCLoader ------------------------------
(***************************************************************************)
(* Small registries for Loader.                                            *)
(***************************************************************************)
EXTENDS Loader, TLC

Contract(n) ==
    [form |-> "contract", kind |-> "single-tool", name |-> n, inputSchema |-> TRUE,
     binding |-> "http", handler |-> "", methodAndPath |-> TRUE, api |-> "salla",
     dataPath |-> TRUE, scopes |-> TRUE, placeholders |-> {"id"}, mapped |-> {"id"},
     annotated |-> TRUE, generates |-> TRUE]

Orders == Contract("orders")
OrdersAgain == [Contract("orders") EXCEPT !.placeholders = {}]
Window == [Contract("window") EXCEPT !.binding = "none", !.handler = "builtin://window"]

\* Contracts this engine cannot run, each for a reason of its own.
Unrunnable ==
    {[Orders EXCEPT !.scopes = FALSE], [Orders EXCEPT !.mapped = {}],
     [Orders EXCEPT !.kind = "package"], [Window EXCEPT !.handler = "builtin://other"]}

Garbled == [form |-> "garbled"]
Number == [form |-> "value"]
Malformed == [form |-> "malformed"]

Foreign == [Orders EXCEPT !.api = "shopify"]

SomeDocuments == {Orders, OrdersAgain, Window, Garbled, Malformed, Foreign}

Entry(p, d) == [name |-> "listed", path |-> p, sha |-> d]

Files(a, b, c) == ("a" :> a) @@ ("b" :> b) @@ ("c" :> c)

Registry(i, f) == [schema |-> "v3", index |-> i, files |-> f]

Published == Registry(<<Entry("a", Orders), Entry("b", Window)>>, Files(Orders, Window, NoFile))

\* Two contracts of one name, and one entry that was published without its hash.
Twice ==
    Registry(<<Entry("a", Orders), Entry("b", OrdersAgain), Entry("c", NoSha)>>,
             Files(Orders, OrdersAgain, Window))

\* An entry whose path leads out of the registry, and one that has none.
Astray ==
    Registry(<<Entry("../a", Orders), Entry(NoPath, Orders), Entry("b", Window)>>,
             Files(Orders, Window, NoFile))

Inlined == Registry(<<Orders>> \o SetToSeq(Unrunnable) \o <<Window>>, Files(NoFile, NoFile, NoFile))

\* An element that is no object, among the entries.
Numbered == Registry(<<Entry("b", Window), Number>>, Files(NoFile, Window, NoFile))

Future == [Published EXCEPT !.schema = "v4"]

\* The first entry has no path.
Headless == Registry(<<Entry(NoPath, Orders), Entry("b", Window)>>, Files(Orders, Window, NoFile))

SomeRegistries == {Published, Twice, Astray, Inlined, Numbered, Headless, Future}

\* Published, and then published with one of its two contracts malformed.
OutageRegistries ==
    {Published, Registry(<<Entry("a", Malformed), Entry("b", Window)>>, Files(Malformed, Window, NoFile))}
=============================================================================
