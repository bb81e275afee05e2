----------------------------- MODULE MCExecutor -----------------------------
(***************************************************************************)
(* Small instances of Executor for TLC.                                    *)
(***************************************************************************)
EXTENDS Executor, TLC

\* One contract as a catalog would hold it; the runs below vary these fields.
Base ==
    [name |-> "orders", version |-> "1.0.0", method |-> "GET", request |-> "list",
     breaks |-> "nothing", readOnlyHint |-> TRUE, mode |-> "direct", humanApproval |-> FALSE,
     cacheable |-> TRUE, ttl |-> 1, keyBy |-> {"page"}, surface |-> FALSE]

\* The same version with a corrected request: nothing but its content tells them apart.
Corrected == [Base EXCEPT !.request = "listCorrected"]

\* The same request with its lifetime corrected: it generates the same code.
Lasting == [Base EXCEPT !.ttl = 0]

\* A write that claims to be a cacheable read.
LyingWrite == [Base EXCEPT !.method = "POST", !.request = "create", !.surface = TRUE]

\* The same, spelled as the loader lets it through and httpx does not send it.
LooseWrite == [LyingWrite EXCEPT !.method = "post"]

\* Contracts that the loader admits and the engine cannot use: an error status that
\* has no meaning (the code generator raises KeyError), an interface.response that is
\* a text, a ttlSeconds that is one, a wire name that is none.
Malformed == [Base EXCEPT !.breaks = "generation", !.request = "noMeaning"]
MalformedSpare == [Malformed EXCEPT !.name = "spare"]
Shapeless == [Base EXCEPT !.breaks = "structure"]
Timeless == [Base EXCEPT !.breaks = "ttl", !.name = "spare"]
Unpreviewed == [Base EXCEPT !.breaks = "preview", !.name = "spare", !.humanApproval = TRUE]

\* The same request with its caching policy corrected: every argument matters.
Rekeyed == [Base EXCEPT !.keyBy = {}]

Delete == [Base EXCEPT !.method = "DELETE", !.request = "delete", !.readOnlyHint = FALSE,
                       !.keyBy = {}]

\* A cacheable read that a human sees first, and whose answer has a surface.
GatedRead == [Base EXCEPT !.request = "export", !.humanApproval = TRUE, !.surface = TRUE]

Serves(c) == [t \in {"orders"} |-> c]

Page(n, s) == ("page" :> n) @@ ("status" :> s)

TwoPages == {Page(1, 1), Page(2, 1)}

\* Two requests that agree on the page, the argument that keyBy names, and on nothing else.
OneKey == {Page(1, 1), Page(1, 2)}


\* The same page, with a status filter and without one.
BarePages == {Page(1, 1), "page" :> 1}

CachedContracts == {Base, Corrected, Lasting, LyingWrite}
CachedCatalogs == {Serves(c) : c \in CachedContracts}

LooseContracts == {LooseWrite}
LooseCatalogs == {Serves(c) : c \in LooseContracts}

StoryContracts == {GatedRead, Timeless, Delete, MalformedSpare, Shapeless, Unpreviewed}

Offers(orders, spare) == ("orders" :> orders) @@ ("spare" :> spare) @@ ("missing" :> NoContract)

\* Two tools at a time, to be replaced by the next registry.
StoryCatalogs ==
    {Offers(GatedRead, Timeless), Offers(Delete, MalformedSpare), Offers(Shapeless, Unpreviewed)}

OnePage == {Page(1, 1)}

MalformedContracts == {Base, Malformed}
MalformedCatalogs == {Serves(c) : c \in MalformedContracts}

RekeyedContracts == {Base, Rekeyed}
RekeyedCatalogs == {Serves(c) : c \in RekeyedContracts}

RunSymmetry == Permutations(Run)
CacheSymmetry == Permutations(Run) \cup Permutations(Principal)
=============================================================================
