-------------------------- MODULE Deployment_proofs --------------------------
(***************************************************************************)
(* Theorems about Deployment, for every registry, release and number of    *)
(* jobs; and those of Loader again, for a disk that is deployed to.        *)
(***************************************************************************)
EXTENDS Deployment, Loader_proofs

\* What is, or was, in the registry directory.
SomeDisk ==
    [schema : {d.schema : d \in Registries}, index : {d.index : d \in Registries},
     files : [Path -> Document \cup {NoFile}]]

Candidate == [base : SomeDisk, registry : Releases]

PipelineFits ==
    /\ released \in Releases
    /\ job \in [Job -> Candidate \cup {NoCandidate}]
    /\ proposal # NoCandidate => proposal \in Candidate /\ proposal.registry \in Passing
    /\ merged \subseteq Passing

\* The inductive invariant.
DInv == IInv /\ PipelineFits

-----------------------------------------------------------------------------
(* The inductive invariant, action by action.                              *)

LEMMA DiskIsSome ==
  ASSUME TypeOK
  PROVE  Disk \in SomeDisk
  BY DEF TypeOK, Disk, SomeDisk

LEMMA DeploymentInitFits == DeploymentInit => DInv
  <1> SUFFICES ASSUME DeploymentInit PROVE DInv
    OBVIOUS
  <1>1. IInv
    BY InitFits DEF DeploymentInit
  <1>2. PipelineFits
    BY DEF DeploymentInit, PipelineFits
  <1> QED BY <1>1, <1>2 DEF DInv

(* A step that leaves the pipeline alone.                                  *)
LEMMA PipelineStutters ==
  ASSUME PipelineFits, UNCHANGED pipelineVars
  PROVE  PipelineFits'
  BY DEF PipelineFits, pipelineVars

LEMMA ReleaseStep ==
  ASSUME DInv, Release
  PROVE  DInv'
  <1>1. IInv'
    <2>1. edits' \in 0 .. MaxEdits
      BY SizeAssumption DEF DInv, IInv, TypeOK, Release
    <2>2. /\ schema' \in {d.schema : d \in Registries}
          /\ index' \in {d.index : d \in Registries}
          /\ files' \in [Path -> Document \cup {NoFile}]
      BY DEF DInv, IInv, TypeOK, Release
    <2> QED BY <2>1, <2>2, DiskStep DEF DInv, Release
  <1>2. PipelineFits'
    BY DEF DInv, PipelineFits, Release
  <1> QED BY <1>1, <1>2 DEF DInv

(* The steps of a job leave disk and catalog alone.                        *)
LEMMA JobStep ==
  ASSUME DInv, NEW j \in Job, Fetch(j) \/ Dismiss(j) \/ Offer(j) \/ Die(j)
  PROVE  DInv'
  <1>1. IInv'
    BY StutterStep DEF DInv, Fetch, Dismiss, Offer, Die
  <1>2. CASE Fetch(j)
    <2>1. [base |-> Disk, registry |-> released] \in Candidate
      BY DiskIsSome DEF DInv, IInv, PipelineFits, Candidate
    <2> QED BY <1>1, <1>2, <2>1 DEF DInv, PipelineFits, Fetch
  <1>3. CASE Dismiss(j)
    BY <1>1, <1>3 DEF DInv, PipelineFits, Dismiss, Ends
  <1>5. CASE Die(j)
    BY <1>1, <1>5 DEF DInv, PipelineFits, Die, Ends
  <1>4. CASE Offer(j)
    BY <1>1, <1>4 DEF DInv, PipelineFits, Offer, Ends
  <1> QED BY <1>2, <1>3, <1>4, <1>5

LEMMA MergeStep ==
  ASSUME DInv, Merge
  PROVE  DInv'
  <1> DEFINE base == proposal.base
             theirs == proposal.registry
             listing == Merged(Listing(base), Listing(Disk), Listing(theirs))
  <1>1. base \in SomeDisk /\ theirs \in Passing /\ theirs \in Registries
    BY DEF DInv, PipelineFits, Merge, Candidate, Passing
  <1>2. Readable(theirs)
    BY <1>1, RegistriesAreReadable
  <1>3. /\ schema' = listing[1] /\ index' = listing[2]
        /\ files' = [p \in Path |-> Merged(base.files[p], files[p], theirs.files[p])]
        /\ merged' = merged \cup {theirs}
        /\ proposal' = NoCandidate
        /\ UNCHANGED <<edits, catalog, loadedFrom, released, job>>
    BY DEF Merge
  <1>4. IInv
    BY DEF DInv
  <1>5. /\ schema' \in {d.schema : d \in Registries}
        /\ index' \in {d.index : d \in Registries}
    BY <1>1, <1>3, <1>4 DEF Merged, Listing, IInv, TypeOK, Disk
  <1>6. files' \in [Path -> Document \cup {NoFile}]
    BY <1>2, <1>3, <1>4 DEF Merged, IInv, TypeOK, Readable
  <1>7. IInv'
    <2>1. edits' \in 0 .. MaxEdits
      BY <1>3, <1>4 DEF IInv, TypeOK
    <2> QED BY <1>3, <1>4, <1>5, <1>6, <2>1, DiskStep
  <1>8. PipelineFits'
    BY <1>1, <1>3 DEF DInv, PipelineFits
  <1> QED BY <1>7, <1>8 DEF DInv

LEMMA RestartStep ==
  ASSUME DInv, Restart
  PROVE  DInv'
  BY LoadStep, PipelineStutters DEF DInv, Restart, NewProcess

LEMMA RefreshStep ==
  ASSUME DInv, RefreshRegistry
  PROVE  DInv'
  <1>1. IInv'
    BY NextFits DEF DInv, RefreshRegistry, Next
  <1> QED BY <1>1, PipelineStutters DEF DInv, RefreshRegistry

LEMMA ByHandStep ==
  ASSUME DInv, ByHand
  PROVE  DInv'
  <1>1. IInv'
    BY PublishStep, EditFileStep DEF DInv, ByHand
  <1> QED BY <1>1, PipelineStutters DEF DInv, ByHand

LEMMA DeploymentNextFits == DInv /\ [DeploymentNext]_deploymentVars => DInv'
  <1> SUFFICES ASSUME DInv, [DeploymentNext]_deploymentVars PROVE DInv'
    OBVIOUS
  <1>1. CASE Release
    BY <1>1, ReleaseStep
  <1>2. CASE Merge
    BY <1>2, MergeStep
  <1>3. CASE Decline
    <2>1. IInv'
      BY <1>3, StutterStep DEF DInv, Decline
    <2> QED BY <1>3, <2>1 DEF DInv, PipelineFits, Decline
  <1>4. CASE Restart
    BY <1>4, RestartStep
  <1>5. CASE RefreshRegistry
    BY <1>5, RefreshStep
  <1>6. CASE ByHand
    BY <1>6, ByHandStep
  <1>7. CASE \E j \in Job : Fetch(j) \/ Dismiss(j) \/ Offer(j) \/ Die(j)
    BY <1>7, JobStep
  <1>8. CASE UNCHANGED deploymentVars
    BY <1>8, StutterStep, PipelineStutters DEF DInv, deploymentVars
  <1> QED BY <1>1, <1>2, <1>3, <1>4, <1>5, <1>6, <1>7, <1>8 DEF DeploymentNext

LEMMA DeploymentInvariant == DeploymentSpec => []DInv
  BY DeploymentInitFits, DeploymentNextFits, PTL DEF DeploymentSpec

-----------------------------------------------------------------------------
(* What a registry that passes the check is.                               *)

LEMMA PassingIsServedWhole ==
  ASSUME NEW m \in Passing
  PROVE  /\ m \in Registries /\ Readable(m)
         /\ LoadCatalog(m).warnings = 0
         /\ Cardinality(LoadCatalog(m).tools) = Len(m.index)
         /\ \A i \in 1 .. Len(m.index) :
               Runnable(Documents(m)[i]) /\ Documents(m)[i] \in LoadCatalog(m).tools
  <1>1. m \in Registries /\ Readable(m) /\ LoadCatalog(m).warnings = 0
    BY RegistriesAreReadable DEF Passing, Verified
  <1> QED BY <1>1, LoadedWithoutWarning

(* The tool that an entry with a hash yields is the same wherever the      *)
(* entry yields one at all.                                                *)
LEMMA OnlyMergedHolds == DInv => OnlyMergedIsCallable
  <1> SUFFICES ASSUME DInv, WasMerged(loadedFrom), NEW t \in catalog.tools
               PROVE  \E m \in merged : t \in LoadCatalog(m).tools
    BY DEF OnlyMergedIsCallable
  <1>1. PICK m \in merged : IsIndexed(m) /\ m.index = loadedFrom.index
    BY DEF WasMerged
  <1>2. m \in Passing
    BY DEF DInv, PipelineFits
  <1>3. Readable(loadedFrom) /\ catalog = LoadCatalog(loadedFrom) /\ IsIndexed(loadedFrom)
    BY <1>1 DEF DInv, IInv, CatalogFits, IsIndexed
  <1>4. PICK j \in 1 .. Len(Documents(loadedFrom)) :
          Runnable(Documents(loadedFrom)[j]) /\ t = Documents(loadedFrom)[j]
    BY <1>3, Loaded DEF Tallied, Winners
  <1> DEFINE e == loadedFrom.index[j]
  <1>5. j \in DOMAIN loadedFrom.index /\ t = ReadEntry(e, loadedFrom) /\ t # Refused
    BY <1>3, <1>4, DocumentsOfAnIndex, RefusedIsNotRunnable, IndexIsASequence
  <1>6. e.sha = t /\ e.sha # NoSha
    BY <1>5, ReadEntryReads DEF WasMerged
  <1>7. /\ Documents(m)[j] = ReadEntry(e, m)
        /\ Runnable(Documents(m)[j]) /\ Documents(m)[j] \in LoadCatalog(m).tools
    BY <1>1, <1>2, <1>3, <1>5, PassingIsServedWhole, DocumentsOfAnIndex, IndexIsASequence
  <1>8. e.sha = Documents(m)[j]
    BY <1>6, <1>7, RefusedIsNotRunnable, ReadEntryReads
  <1> QED BY <1>6, <1>7, <1>8

(* The three-way merge of registries that nobody edited takes one side.    *)
LEMMA MergeTakesOneSide ==
  ASSUME ListingsDecide, DInv, Merge, Disk \in Registries, proposal.base \in Registries, Disk' # Disk
  PROVE  Disk' = proposal.registry
  <1> DEFINE base == proposal.base
             theirs == proposal.registry
             listing == Merged(Listing(base), Listing(Disk), Listing(theirs))
  <1>1. theirs \in Registries
    BY DEF DInv, PipelineFits, Merge, Candidate, Passing
  <1>2. /\ Clean(Listing(base), Listing(Disk), Listing(theirs))
        /\ \A p \in Path : Clean(base.files[p], files[p], theirs.files[p])
    BY DEF Merge, Mergeable
  <1>3. /\ schema' = listing[1] /\ index' = listing[2]
        /\ files' = [p \in Path |-> Merged(base.files[p], files[p], theirs.files[p])]
    BY DEF Merge
  <1>4. /\ theirs = [schema |-> theirs.schema, index |-> theirs.index, files |-> theirs.files]
        /\ theirs.files \in [Path -> Document \cup {NoFile}]
        /\ files \in [Path -> Document \cup {NoFile}]
    BY <1>1, RegistryAssumption DEF DInv, IInv, TypeOK
  <1>5. CASE base = Disk
    <2>1. schema' = theirs.schema /\ index' = theirs.index
      BY <1>3, <1>5 DEF Merged, Listing
    <2>2. files' = theirs.files
      BY <1>3, <1>4, <1>5 DEF Merged, Disk
    <2> QED BY <1>4, <2>1, <2>2 DEF Disk
  <1>6. CASE Disk = theirs
    <2>1. schema' = schema /\ index' = index
      BY <1>3, <1>6 DEF Merged, Listing, Disk
    <2>2. files' = files
      BY <1>3, <1>4, <1>6 DEF Merged, Disk
    <2> QED BY <2>1, <2>2 DEF Disk
  <1>7. CASE theirs = base /\ base # Disk
    <2>1. Listing(Disk) # Listing(base)
      BY <1>7 DEF ListingsDecide
    <2>2. schema' = schema /\ index' = index
      BY <1>3, <2>1 DEF Merged, Listing, Disk
    <2>3. files' = files
      BY <1>3, <1>4, <1>7 DEF Merged
    <2> QED BY <2>2, <2>3 DEF Disk
  <1> QED BY <1>1, <1>2, <1>5, <1>6, <1>7 DEF Clean, ListingsDecide

LEMMA TypeHolds == DInv => DeploymentTypeOK
  <1> SUFFICES ASSUME DInv PROVE DeploymentTypeOK
    OBVIOUS
  <1>1. \A j \in Job : job[j] # NoCandidate => job[j].registry \in Releases
    BY DEF DInv, PipelineFits, Candidate
  <1>2. proposal # NoCandidate => proposal.registry \in Releases
    BY DEF DInv, PipelineFits, Candidate
  <1> QED BY <1>1, <1>2 DEF DInv, PipelineFits, Passing, DeploymentTypeOK

(* Only Merge both closes the pull request and changes the directory.      *)
LEMMA OnlyMergeDeploys ==
  ASSUME DInv, DeploymentNext, proposal # NoCandidate, proposal' = NoCandidate, Disk' # Disk
  PROVE  Merge
  <1>1. ~ (Decline \/ Restart)
    BY DEF Decline, Restart, Disk, vars, diskVars
  <1>2. ~ (Release \/ RefreshRegistry \/ ByHand)
    BY DEF Release, RefreshRegistry, ByHand, pipelineVars
  <1>3. \A j \in Job : ~ (Fetch(j) \/ Dismiss(j) \/ Offer(j) \/ Die(j))
    BY DEF Fetch, Dismiss, Offer, Die
  <1> QED BY <1>1, <1>2, <1>3 DEF DeploymentNext

(* The catalog is what it was, or what the directory yields.               *)
LEMMA CatalogOnlyLoads ==
  ASSUME [DeploymentNext]_deploymentVars
  PROVE  catalog' = catalog \/ catalog' = LoadCatalog(Disk)
  <1>1. CASE Release \/ Merge \/ Decline \/ Restart
    BY <1>1 DEF Release, Merge, Decline, Restart, vars
  <1>2. CASE RefreshRegistry \/ ByHand
    BY <1>2 DEF RefreshRegistry, Refresh, RefreshRaises, ByHand, Publish, EditFile, vars
  <1>3. CASE \E j \in Job : Fetch(j) \/ Dismiss(j) \/ Offer(j) \/ Die(j)
    BY <1>3 DEF Fetch, Dismiss, Offer, Die, vars
  <1>4. CASE UNCHANGED deploymentVars
    BY <1>4 DEF deploymentVars, vars
  <1> QED BY <1>1, <1>2, <1>3, <1>4 DEF DeploymentNext

-----------------------------------------------------------------------------
(* The theorems.                                                           *)

(* What a job verifies and a person is offered are releases of the         *)
(* contracts repository.                                                   *)
THEOREM DeploymentTypeCorrect == DeploymentSpec => []DeploymentTypeOK
  BY TypeHolds, DeploymentInvariant, PTL

(* However many jobs race, whatever is merged, declined or edited by hand: *)
(* under an index that was merged and records its hashes, every tool that  *)
(* can be called is one of a registry that passed the check and that a     *)
(* person merged.                                                          *)
THEOREM OnlyTheMergedIsCallable == DeploymentSpec => []OnlyMergedIsCallable
  BY OnlyMergedHolds, DeploymentInvariant, PTL

(* If an index decides what its files are, as content hashes do, a merge   *)
(* between registries that nobody edited leaves the release it offered,    *)
(* served whole: a tool for each entry and no warning.                     *)
THEOREM PinsAreWholesale ==
  ASSUME ListingsDecide
  PROVE  DeploymentSpec => PinsWholesale
  <1> DEFINE Deploys ==
        /\ proposal # NoCandidate /\ proposal' = NoCandidate /\ Disk' # Disk
        /\ {Disk, proposal.base} \subseteq Registries
      Wholesale ==
        /\ Disk' = proposal.registry
        /\ LoadCatalog(Disk').warnings = 0
        /\ Cardinality(LoadCatalog(Disk').tools) = Len(index')
  <1>1. ASSUME DInv, [DeploymentNext]_deploymentVars PROVE [Deploys => Wholesale]_deploymentVars
    <2> SUFFICES ASSUME DeploymentNext, Deploys PROVE Wholesale
      BY <1>1
    <2>1. Merge
      BY <1>1, OnlyMergeDeploys
    <2>2. Disk' = proposal.registry
      BY <1>1, <2>1, MergeTakesOneSide
    <2>3. proposal.registry \in Passing
      BY <1>1 DEF DInv, PipelineFits
    <2>4. proposal.registry.index = index'
      BY <2>2 DEF Disk
    <2> QED BY <2>2, <2>3, <2>4, PassingIsServedWhole
  <1> QED BY <1>1, DeploymentInvariant, PTL DEF DeploymentSpec, PinsWholesale

(* What Loader promises of a registry somebody changes by hand holds of    *)
(* one that is deployed to: releases arrive whole or as a merge leaves     *)
(* them, and each process starts with a catalog of its own.                *)
THEOREM DeploymentKeepsLoaderPromises ==
  DeploymentSpec => [](/\ TypeOK
                       /\ ServesOnlyWhatWasPublished
                       /\ ServesTheFirstOfEachName
                       /\ NothingIsSkippedSilently
                       /\ OutagesHaveTwoCauses)
  <1>1. DInv => /\ TypeOK
                /\ ServesOnlyWhatWasPublished
                /\ ServesTheFirstOfEachName
                /\ NothingIsSkippedSilently
                /\ OutagesHaveTwoCauses
    BY ServesOnlyWhatWasPublishedHolds, ServesTheFirstHolds, NothingIsSkippedHolds, TwoCausesHold
       DEF DInv, IInv
  <1> QED BY <1>1, DeploymentInvariant, PTL

(* Nor does a deployment, or what is wrong with other entries, cost a tool *)
(* that the index in the directory still holds.                            *)
THEOREM DeploymentKeepsTools == DeploymentSpec => ToolsLeaveOnlyWhenUnpublished
  <1> DEFINE Kept ==
        \A t \in catalog.tools :
            t.name \notin {u.name : u \in catalog'.tools} /\ IsIndexed(Disk) =>
               ~ \E i \in DOMAIN index : Sound(index[i], Disk) /\ ReadEntry(index[i], Disk).name = t.name
  <1>1. ASSUME DInv, [DeploymentNext]_deploymentVars PROVE [Kept]_vars
    BY <1>1, CatalogOnlyLoads, ToolsLeaveRarely DEF DInv
  <1> QED BY <1>1, DeploymentInvariant, PTL DEF DeploymentSpec, ToolsLeaveOnlyWhenUnpublished
=============================================================================
