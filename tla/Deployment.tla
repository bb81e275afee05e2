----------------------------- MODULE Deployment -----------------------------
(***************************************************************************)
(* How a contract gets from a published release to a tool that a client    *)
(* can call: consume-registry.yml verifies the release and offers it as a  *)
(* pull request, a person merges it into the registry directory, and the   *)
(* engine reads that directory when it starts (its MCP tools and its       *)
(* catalog) and at refresh_registry (its catalog only).                    *)
(*                                                                         *)
(* The directory is the Disk of Loader; Publish and EditFile are a person  *)
(* who changes it by hand.  An entry of an index is its name, version and  *)
(* hash, so the contentHash of a registry is its index.                    *)
(***************************************************************************)
EXTENDS Loader, FiniteSets

CONSTANTS
    Job,            \* runs of consume-registry, which nothing keeps from overlapping
    Releases,       \* registries that the contracts repository may publish
    Tested,         \* registries on which tests/test_mcp_surface.py passes
    NoCandidate     \* no job under way, no pull request open

ASSUME ReleaseAssumption == Releases \subseteq Registries /\ NoCandidate \notin Registries

VARIABLES
    released,       \* the release registry-latest
    job,            \* what each job compares: its checkout and the release it downloaded
    proposal,       \* the pull request registry/registry-latest: the same
    startedFrom,    \* the registry from which the MCP tools of this process were built
    merged          \* every registry that a person merged

pipelineVars == <<released, job, proposal, merged>>
deploymentVars == <<vars, pipelineVars, startedFrom>>

\* build_server: a tool for each contract of the catalog of the start.
Exposed == LoadCatalog(startedFrom).tools

-----------------------------------------------------------------------------
(* The workflow.                                                           *)

\* scripts/check_registry.py: no warning, every tool generates code, and there is one.
Verified(d) ==
    LET c == LoadCatalog(d)
    IN  ~ LoadRaises(d) /\ c.warnings = 0 /\ c.tools # {} /\ \A t \in c.tools : t.generates

\* The two gates, one after the other.
Passing == {d \in Registries \cap Tested : Verified(d)}

\* contentHash, which the legacy layout has not.
IsNew(d, base) == ~ IsIndexed(d) \/ ~ IsIndexed(base) \/ d.index # base.index

\* A release of the contracts repository, which may also withdraw one.
Release ==
    /\ edits < MaxEdits
    /\ released' \in Releases \ {released}
    /\ edits' = edits + 1
    /\ UNCHANGED <<schema, index, files, catalog, loadedFrom, job, proposal, startedFrom, merged>>

\* Faulty variant of Fetch: the registry of the checkout is what gets verified.
FetchCheckout(j) ==
    /\ job[j] = NoCandidate
    /\ job' = [job EXCEPT ![j] = [base |-> Disk, registry |-> Disk]]
    /\ UNCHANGED <<vars, released, proposal, startedFrom, merged>>

\* Dispatched, scheduled or started by hand: checkout and download, in one step.
Fetch(j) ==
    /\ job[j] = NoCandidate
    /\ job' = [job EXCEPT ![j] = [base |-> Disk, registry |-> released]]
    /\ UNCHANGED <<vars, released, proposal, startedFrom, merged>>

Ends(j) == job' = [job EXCEPT ![j] = NoCandidate]

\* A gate fails, or the content is what the checkout holds: no pull request.
Dismiss(j) ==
    /\ job[j] # NoCandidate
    /\ job[j].registry \notin Passing \/ ~ IsNew(job[j].registry, job[j].base)
    /\ Ends(j)
    /\ UNCHANGED <<vars, released, proposal, startedFrom, merged>>

\* Faulty variants of Offer: the release is unpacked over what is there; and a pull request
\* that is open is left as it is.
OfferUnpackedOver(j) ==
    /\ job[j] # NoCandidate
    /\ job[j].registry \in Passing /\ IsNew(job[j].registry, job[j].base)
    /\ Ends(j)
    /\ proposal' = [job[j] EXCEPT !.registry.files =
            [p \in Path |-> IF @[p] = NoFile THEN job[j].base.files[p] ELSE @[p]]]
    /\ UNCHANGED <<vars, released, startedFrom, merged>>

OfferOnce(j) ==
    /\ job[j] # NoCandidate
    /\ job[j].registry \in Passing /\ IsNew(job[j].registry, job[j].base)
    /\ Ends(j)
    /\ proposal' = IF proposal = NoCandidate THEN job[j] ELSE proposal
    /\ UNCHANGED <<vars, released, startedFrom, merged>>

\* The branch is pushed over whatever another job left there.
Offer(j) ==
    /\ job[j] # NoCandidate
    /\ job[j].registry \in Passing /\ IsNew(job[j].registry, job[j].base)
    /\ Ends(j)
    /\ proposal' = job[j]
    /\ UNCHANGED <<vars, released, startedFrom, merged>>

\* The download, the machine, or the opening of the pull request fails.
Die(j) ==
    /\ job[j] # NoCandidate
    /\ Ends(j)
    /\ UNCHANGED <<vars, released, proposal, startedFrom, merged>>

-----------------------------------------------------------------------------
(* A person, and git: a file that only one side changed is merged.         *)

Clean(base, mine, theirs) == mine = base \/ theirs = base \/ mine = theirs

Merged(base, mine, theirs) == IF mine = base THEN theirs ELSE mine

Listing(d) == <<d.schema, d.index>>

Mergeable ==
    LET base == proposal.base
        theirs == proposal.registry
    IN  /\ Clean(Listing(base), Listing(Disk), Listing(theirs))
        /\ \A p \in Path : Clean(base.files[p], files[p], theirs.files[p])

Merge ==
    /\ proposal # NoCandidate
    /\ Mergeable
    /\ LET base == proposal.base
           theirs == proposal.registry
           listing == Merged(Listing(base), Listing(Disk), Listing(theirs))
       IN  /\ schema' = listing[1] /\ index' = listing[2]
           /\ files' = [p \in Path |-> Merged(base.files[p], files[p], theirs.files[p])]
           /\ merged' = merged \cup {theirs}
    /\ proposal' = NoCandidate
    /\ UNCHANGED <<edits, catalog, loadedFrom, released, job, startedFrom>>

Decline ==
    /\ proposal # NoCandidate
    /\ proposal' = NoCandidate
    /\ UNCHANGED <<vars, released, job, startedFrom, merged>>

-----------------------------------------------------------------------------
(* The process.                                                            *)

NewProcess ==
    /\ startedFrom' = Disk
    /\ loadedFrom' = Disk
    /\ ~ LoadRaises(Disk)


\* Every push is deployed (autoDeploy); a process that cannot load does not replace this one.
Restart ==
    /\ NewProcess
    /\ catalog' = LoadCatalog(Disk)
    /\ UNCHANGED <<diskVars, pipelineVars>>

\* refresh_registry: the catalog is replaced, the MCP tools are not.
RefreshRegistry == (Refresh \/ RefreshRaises) /\ UNCHANGED <<pipelineVars, startedFrom>>

ByHand == (Publish \/ EditFile) /\ UNCHANGED <<pipelineVars, startedFrom>>

DeploymentInit ==
    /\ Init
    /\ released \in Releases
    /\ job = [j \in Job |-> NoCandidate]
    /\ proposal = NoCandidate
    /\ startedFrom = Disk
    /\ merged = Passing \cap {Disk}

DeploymentNext ==
    \/ Release \/ Merge \/ Decline \/ Restart \/ RefreshRegistry \/ ByHand
    \/ \E j \in Job : Fetch(j) \/ Dismiss(j) \/ Offer(j) \/ Die(j)

\* The daily schedule, the jobs it starts, of which not all die that come to offer their
\* release, and autoDeploy; no person is assumed to act.
DeploymentFairness ==
    /\ WF_deploymentVars(\E j \in Job : Fetch(j))
    /\ \A j \in Job : WF_deploymentVars(Dismiss(j) \/ Offer(j) \/ Die(j))
    /\ SF_deploymentVars(\E j \in Job : Offer(j))
    /\ WF_<<startedFrom, loadedFrom>>(NewProcess)

DeploymentSpec == DeploymentInit /\ [][DeploymentNext]_deploymentVars /\ DeploymentFairness

-----------------------------------------------------------------------------
(* Properties.                                                             *)

DeploymentTypeOK ==
    /\ released \in Releases
    /\ \A j \in Job : job[j] # NoCandidate => job[j].registry \in Releases
    /\ proposal # NoCandidate => proposal.registry \in Releases
    /\ merged \subseteq Registries

(* "Replaced wholesale rather than merged", and "a registry with a tool we *)
(* cannot run never gets pinned": whichever jobs raced for the pull        *)
(* request and however old its checkout, a merge between registries that   *)
(* nobody edited leaves one the engine serves whole, never a mixture.      *)
PinsWholesale ==
    [][ /\ proposal # NoCandidate /\ proposal' = NoCandidate /\ Disk' # Disk
        /\ {Disk, proposal.base} \subseteq Registries
        => /\ Disk' = proposal.registry
           /\ LoadCatalog(Disk').warnings = 0
           /\ Cardinality(LoadCatalog(Disk').tools) = Len(index') ]_deploymentVars

\* What this asks of the registries: an index, with its hashes, decides what its files are.
ListingsDecide == \A c, d \in Registries : Listing(c) = Listing(d) => c = d

(* "A contract becomes callable when, and only when, a human merges the    *)
(* pin PR": under an index that was merged and records its hashes, no file *)
(* changed by hand, and no mixture that a merge leaves, adds a tool that   *)
(* was not among those merged.                                             *)
WasMerged(d) ==
    /\ \E m \in merged : IsIndexed(m) /\ m.index = d.index /\ m.schema = d.schema
    /\ \A i \in DOMAIN d.index : IsEntry(d.index[i]) => d.index[i].sha # NoSha

OnlyMergedIsCallable ==
    WasMerged(loadedFrom) => \A t \in catalog.tools : \E m \in merged : t \in LoadCatalog(m).tools

(* The schedule is "a safety net if ... a delivery is lost": however jobs  *)
(* overlap and overwrite one another's pull request with a release that    *)
(* has been superseded, and whatever people decline, a release that passes *)
(* both gates is, again and again until it is in place, offered to be      *)
(* merged, provided that jobs which come to offer do not die for ever.     *)
NewestIsOffered ==
    []<>(\/ released \notin Passing
         \/ ~ IsNew(released, Disk)
         \/ proposal # NoCandidate /\ proposal.registry = released)

=============================================================================
