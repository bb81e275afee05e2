------------------------------- MODULE Loader -------------------------------
(***************************************************************************)
(* registry/loader.py: how a catalog is built from a registry on disk, and *)
(* Registry.refresh, which replaces the served catalog by a newly built    *)
(* one, or leaves it alone when building raises.                           *)
(*                                                                         *)
(* A registry is an index and the files it points at.  The index says what *)
(* was published; the files are what is on disk, and people edit them.  A  *)
(* sha256 is modelled by the document it is the digest of.                 *)
(***************************************************************************)
EXTENDS Naturals, Sequences, SequencesExt

CONSTANTS
    Path,           \* files of the registry's contracts directory
    Outside,        \* paths that resolve outside the registry
    Document,       \* what a file may hold
    Registries,     \* published registries: [schema, index, files]
    NoFile,         \* there is no such file
    NoPath,         \* an index entry without a path
    NoSha,          \* an index entry without a sha256
    NoSchema,       \* an index without a schemaId
    SupportedSchema,    \* SUPPORTED_SCHEMA_IDS
    Upstream,       \* the names in UPSTREAMS
    Builtin,        \* the names in BUILTINS
    MaxEdits        \* bound: changes made to a registry on disk

ASSUME PathAssumption == NoPath \notin Path \cup Outside /\ Path \cap Outside = {}

ASSUME SizeAssumption == IsFiniteSet(Path) /\ MaxEdits \in Nat

ASSUME RegistryAssumption ==
    \A d \in Registries :
        /\ d = [schema |-> d.schema, index |-> d.index, files |-> d.files]
        /\ d.index \in Seq(Range(d.index))
        /\ d.files \in [Path -> Document \cup {NoFile}]

ASSUME FileAssumption == NoFile \notin Document /\ NoSha \notin Document

VARIABLES
    schema,     \* registry.json: schemaId
    index,      \* registry.json: contracts
    files,      \* the contracts directory
    edits,      \* changes made on disk so far
    catalog,    \* Registry.catalog: its tools and how many warnings it has
    loadedFrom  \* the registry the catalog was built from

diskVars == <<schema, index, files, edits>>
vars == <<diskVars, catalog, loadedFrom>>

Disk == [schema |-> schema, index |-> index, files |-> files]

-----------------------------------------------------------------------------
(* A document is a record.  Its form is "contract"; "garbled" when its     *)
(* bytes are not JSON; "value" when they are JSON but no object, or not    *)
(* even UTF-8; "malformed" when it is an object of a kind that is executed *)
(* but one of its blocks is not what the loader takes it for (interface a  *)
(* list, parameters null, response a string); or "refused", which stands   *)
(* for {"__error__": ...}.                                                 *)

Refused == [form |-> "refused"]

\* executability_problems of a contract whose blocks can be read: only what makes
\* execution impossible.  Of a malformed document it raises.
HttpExecutable(c) ==
    /\ c.methodAndPath
    /\ c.api \in Upstream
    /\ c.dataPath
    /\ c.scopes
    /\ c.placeholders \subseteq c.mapped

Executable(c) ==
    /\ c.name # ""
    /\ c.inputSchema
    /\ \/ c.binding = "http" /\ HttpExecutable(c)
       \/ c.binding = "none" /\ c.handler \in Builtin
    /\ c.annotated

\* entries_from_contract yields a tool only for a kind it knows.
IsTool(c) == c.kind = "single-tool"

-----------------------------------------------------------------------------
(* Reading the registry.                                                   *)

IsEntry(x) == "path" \in DOMAIN x

\* Faulty variant of ReadEntry: the recorded sha256 is not compared.
ReadEntryUnverified(e, disk) ==
    IF ~ IsEntry(e) \/ e.path \notin Path \/ disk.files[e.path] = NoFile \/ disk.files[e.path].form = "garbled"
    THEN Refused
    ELSE disk.files[e.path]

\* One entry of the index, as _from_index reads it.
ReadEntry(e, disk) ==
    IF \/ ~ IsEntry(e)             \* a contract, inlined among the entries
       \/ e.path \notin Path        \* no path, or one that escapes the registry
       \/ disk.files[e.path] = NoFile
       \/ e.sha # NoSha /\ disk.files[e.path] # e.sha
       \/ disk.files[e.path].form = "garbled"
    THEN Refused
    ELSE disk.files[e.path]

Listed(disk) == {e.path : e \in {x \in Range(disk.index) : IsEntry(x)}}

Strays(disk) == {p \in Path \ Listed(disk) : disk.files[p] # NoFile}

\* Each stray file is refused; nothing tells one refusal from another.
FromIndex(disk) ==
    [i \in DOMAIN disk.index |-> ReadEntry(disk.index[i], disk)]
        \o [i \in 1 .. Cardinality(Strays(disk)) |-> Refused]

\* The first element alone decides which of the two layouts this is.
IsIndexed(disk) ==
    disk.index # << >> /\ IsEntry(disk.index[1]) /\ disk.index[1].path # NoPath

\* Legacy: the contracts themselves.  An index entry read as one has no kind.
FromInlined(disk) ==
    [i \in DOMAIN disk.index |->
        IF IsEntry(disk.index[i]) THEN Refused ELSE disk.index[i]]

Documents(disk) == IF IsIndexed(disk) THEN FromIndex(disk) ELSE FromInlined(disk)

IsSupported(disk) == disk.schema \in SupportedSchema \cup {NoSchema}

\* Nothing catches what reading raises: an element of the index that is no object has no
\* get; nor has such a document, and of a malformed one a block has none.
ReadingRaises(disk) ==
    \/ \E x \in Range(disk.index) : ~ IsEntry(x) /\ x.form = "value"
    \/ \E doc \in Range(Documents(disk)) : doc.form \in {"value", "malformed"}

\* An unknown schemaId raises, as a registry.json that is missing or garbled does
\* (the same outcome).
LoadRaises(disk) == ~ IsSupported(disk) \/ ReadingRaises(disk)

-----------------------------------------------------------------------------
(* Building the catalog.                                                   *)

Empty == [tools |-> {}, warnings |-> 0]

Warn(c) == [c EXCEPT !.warnings = @ + 1]

Names(c) == {t.name : t \in c.tools}

\* Faulty variants of Add: both contracts, the last one, no warning.
AddBoth(c, doc) == [c EXCEPT !.tools = @ \cup {doc}]

AddLast(c, doc) ==
    IF doc.name \in Names(c)
    THEN Warn([c EXCEPT !.tools = {t \in @ : t.name # doc.name} \cup {doc}])
    ELSE [c EXCEPT !.tools = @ \cup {doc}]

AddQuietly(c, doc) == IF doc.name \in Names(c) THEN c ELSE [c EXCEPT !.tools = @ \cup {doc}]

\* Catalog.add keeps the first contract of a name.
Add(c, doc) ==
    IF doc.name \in Names(c) THEN Warn(c) ELSE [c EXCEPT !.tools = @ \cup {doc}]

\* Faulty variant of Consider: what follows a bad document is not looked at.
ConsiderUntilBad(c, doc) ==
    IF c.warnings > 0 THEN Warn(c)
    ELSE IF doc.form = "contract" /\ IsTool(doc) /\ Executable(doc) THEN Add(c, doc) ELSE Warn(c)

Consider(c, doc) ==
    IF doc.form = "contract" /\ IsTool(doc) /\ Executable(doc) THEN Add(c, doc) ELSE Warn(c)

LoadCatalog(disk) ==
    LET docs == Documents(disk)
        after[i \in 0 .. Len(docs)] == IF i = 0 THEN Empty ELSE Consider(after[i - 1], docs[i])
    IN  after[Len(docs)]

-----------------------------------------------------------------------------
\* The process starts only if the first load does not raise.
Init ==
    \E d \in Registries :
       /\ ~ LoadRaises(d)
       /\ schema = d.schema /\ index = d.index /\ files = d.files
       /\ edits = 0
       /\ catalog = LoadCatalog(d)
       /\ loadedFrom = d

\* Another registry is put in place: index and files together.
Publish ==
    /\ edits < MaxEdits
    /\ \E d \in Registries : schema' = d.schema /\ index' = d.index /\ files' = d.files
    /\ edits' = edits + 1
    /\ UNCHANGED <<catalog, loadedFrom>>

\* A file is edited, dropped in or removed, and the index is not told.
EditFile ==
    /\ edits < MaxEdits
    /\ \E p \in Path, d \in Document \cup {NoFile} : files' = [files EXCEPT ![p] = d]
    /\ edits' = edits + 1
    /\ UNCHANGED <<schema, index, catalog, loadedFrom>>

Refresh ==
    /\ ~ LoadRaises(Disk)
    /\ catalog' = LoadCatalog(Disk)
    /\ loadedFrom' = Disk
    /\ UNCHANGED diskVars

\* Faulty variant of RefreshRaises: the old catalog is dropped before the new one is read.
RefreshRaisesEmptied ==
    /\ LoadRaises(Disk)
    /\ catalog' = Empty
    /\ UNCHANGED <<diskVars, loadedFrom>>

\* load_catalog raises before Registry.catalog is assigned.
RefreshRaises == LoadRaises(Disk) /\ UNCHANGED vars

Next == Publish \/ EditFile \/ Refresh \/ RefreshRaises

Spec == Init /\ [][Next]_vars

-----------------------------------------------------------------------------
(* Properties.                                                             *)

TypeOK ==
    /\ schema \in {d.schema : d \in Registries}
    /\ index \in {d.index : d \in Registries}
    /\ files \in [Path -> Document \cup {NoFile}]
    /\ edits \in 0 .. MaxEdits
    /\ catalog.tools \subseteq Document \cup UNION {Range(d.index) : d \in Registries}
    /\ \A s, t \in catalog.tools : s.name = t.name => s = t
    /\ catalog.warnings \in Nat

(* "approved" is not "present": every tool served from an index is one an  *)
(* entry of that index lists, with the very content the entry recorded, if *)
(* it recorded any.                                                        *)
ServesOnlyWhatWasPublished ==
    IsIndexed(loadedFrom) => \A t \in catalog.tools :
        \E i \in DOMAIN loadedFrom.index :
           LET e == loadedFrom.index[i]
           IN  IsEntry(e) /\ e.path \in Path /\ loadedFrom.files[e.path] = t /\ e.sha \in {t, NoSha}

(* The engine serves exactly one contract per name: the first runnable one *)
(* in the order of the registry.                                           *)
ServesTheFirstOfEachName ==
    LET docs == Documents(loadedFrom)
        Runnable(i) == docs[i].form = "contract" /\ IsTool(docs[i]) /\ Executable(docs[i])
    IN  catalog.tools =
           {docs[i] : i \in {j \in DOMAIN docs :
              Runnable(j) /\ \A h \in 1 .. j - 1 : Runnable(h) => docs[h].name # docs[j].name}}

(* "skipped loudly": every document of the registry, listed or stray, is   *)
(* either a tool of the catalog or has a warning of its own.               *)
NothingIsSkippedSilently ==
    LET strays == IF IsIndexed(loadedFrom) THEN Cardinality(Strays(loadedFrom)) ELSE 0
    IN  Len(loadedFrom.index) + strays = Cardinality(catalog.tools) + catalog.warnings

Sound(e, disk) ==
    LET d == ReadEntry(e, disk)
    IN  d.form = "contract" /\ IsTool(d) /\ Executable(d)

Serves(disk, n) == ~ LoadRaises(disk) /\ n \in Names(LoadCatalog(disk))

(* "One unrunnable contract must not take the whole registry offline": a   *)
(* process that starts or refreshes from the registry on disk serves each  *)
(* contract that is listed, unchanged and runnable, or one of the same     *)
(* name, whatever is wrong with the others.  The code does not keep this.  *)
OneBadEntryIsNotAnOutage ==
    IsSupported(Disk) =>
        \A i \in DOMAIN index : Sound(index[i], Disk) => Serves(Disk, ReadEntry(index[i], Disk).name)

(* What the code keeps of it: a sound entry that is not served is the      *)
(* victim of a document or element whose reading raises, or of a first     *)
(* element that makes the index pass for the legacy layout; never of files *)
(* that are missing, changed, garbled, unlisted or not executable.         *)
OutagesHaveTwoCauses ==
    IsSupported(Disk) =>
        \/ ReadingRaises(Disk)
        \/ ~ IsIndexed(Disk)
        \/ \A i \in DOMAIN index :
               Sound(index[i], Disk) => Serves(Disk, ReadEntry(index[i], Disk).name)

(* A tool leaves the catalog only because the index on disk no longer      *)
(* holds a sound contract of its name: not because that registry cannot be *)
(* loaded (the old catalog stays then), nor because of what is wrong with  *)
(* other entries.                                                          *)
ToolsLeaveOnlyWhenUnpublished ==
    [][\A t \in catalog.tools :
          t.name \notin {u.name : u \in catalog'.tools} /\ IsIndexed(Disk) =>
             ~ \E i \in DOMAIN index : Sound(index[i], Disk) /\ ReadEntry(index[i], Disk).name = t.name]_vars
=============================================================================
