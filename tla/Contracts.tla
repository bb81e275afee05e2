----------------------------- MODULE Contracts -----------------------------
(***************************************************************************)
(* What the engine reads off one tool contract: ToolEntry of               *)
(* registry/loader.py, the cache identity of cache/result_cache.py and the *)
(* generation digest of engine/codemode.py.                                *)
(*                                                                         *)
(* A contract is a record.  Its field "request" stands for everything the  *)
(* code generator reads besides the verb (path, parameters, body, response *)
(* mapping, errors, input rules); "breaks" names the part, if any, that    *)
(* the engine cannot read: the loader does not look at every part, and     *)
(* reading such a one raises.  Digests (sha256, hmac) are injective: a     *)
(* digest is the record of what is digested.                               *)
(***************************************************************************)
EXTENDS Integers

CONSTANTS
    Tool,       \* tool names, interface.name
    Version,    \* contractVersion values
    Request,    \* what reaches the template besides name, version and verb
    Param,      \* argument names
    ArgSet,     \* the argument dictionaries a client may send
    Principal,  \* on whose behalf a run is made (its cache_scope)
    Contract    \* the contracts that any registry of the system may hold

WriteMethod == {"POST", "PUT", "PATCH", "DELETE"}

\* The loader takes any verb that is not empty; "none" is a builtin tool.
Method == WriteMethod \cup {"GET", "none"} \cup {"get", "post", "put", "patch", "delete"}

\* httpx sends the verb in upper case, however the contract spells it.
Verb(method) ==
    CASE method = "get"    -> "GET"
      [] method = "post"   -> "POST"
      [] method = "put"    -> "PUT"
      [] method = "patch"  -> "PATCH"
      [] method = "delete" -> "DELETE"
      [] OTHER             -> method

\* The parts of a contract, in the order in which a run reads them.
Part == {"structure", "generation", "keyBy", "approval", "preview", "ttl"}

ContractType ==
    [name : Tool, version : Version, method : Method, request : Request,
     breaks : Part \cup {"nothing"}, readOnlyHint : BOOLEAN,
     mode : {"direct", "propose-apply"}, humanApproval : BOOLEAN,
     cacheable : BOOLEAN, ttl : Nat, keyBy : SUBSET Param,
     surface : BOOLEAN]

ASSUME ContractAssumption == Contract \subseteq ContractType

ASSUME ArgAssumption == \A a \in ArgSet : DOMAIN a \subseteq Param

-----------------------------------------------------------------------------
(* ToolEntry: the properties derived from a contract.                      *)

EntryKey(c) == [name |-> c.name, version |-> c.version]

\* Faulty variant of ReadOnly: the annotation is believed.
ReadOnlyAsClaimed(c) == c.readOnlyHint

\* The verb decides, as the contract spells it; the annotation can only agree with it.
ReadOnly(c) == c.method \notin WriteMethod /\ c.readOnlyHint

\* A DELETE does, in upper case; another spelling needs what governance says.
NeedsApproval(c) ==
    \/ c.method = "DELETE"
    \/ c.mode = "propose-apply"
    \/ c.humanApproval

\* needs_approval reads governance for every verb but DELETE.
ApprovalRaises(c) == c.method # "DELETE" /\ c.breaks = "approval"

HasSurface(c) == c.surface

-----------------------------------------------------------------------------
(* The code generator, as far as identity goes.                            *)

\* _context: the values that fill the template.  Governance (caching,
\* approval), hints and the surface do not reach it.
Context(c) == [key |-> EntryKey(c), method |-> c.method, request |-> c.request]

\* _context reads required fields of the contract and raises without them.
ContextRaises(c) == c.breaks = "generation"

GenerationId(c) == Context(c)

\* generate: a pure function of the context.
Generate(c) == Context(c)

CodeKey(c) == [key |-> EntryKey(c), generation |-> GenerationId(c)]

-----------------------------------------------------------------------------
(* The result cache's gate and key.                                        *)

IsCacheable(c) == ReadOnly(c) /\ c.cacheable

\* keyBy names something that cannot be looked up among the arguments.
KeyRaises(c) == c.breaks = "keyBy"

\* An empty keyBy is falsy: then every argument is relevant.
Relevant(keyBy, args) ==
    IF keyBy = {} THEN args
    ELSE [p \in keyBy \cap DOMAIN args |-> args[p]]

\* Faulty variant of CacheKey: the principal is left out.
CacheKeySharedByAll(c, args, principal) ==
    [key |-> EntryKey(c), generation |-> GenerationId(c), principal |-> "anyone",
     args |-> Relevant(c.keyBy, args)]

CacheKey(c, args, principal) ==
    [key |-> EntryKey(c), generation |-> GenerationId(c),
     principal |-> principal, args |-> Relevant(c.keyBy, args)]

Source == {Generate(c) : c \in Contract}

ResultKey == {CacheKey(c, a, p) : c \in Contract, a \in ArgSet, p \in Principal}

=============================================================================
