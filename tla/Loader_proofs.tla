---------------------------- MODULE Loader_proofs ----------------------------
(***************************************************************************)
(* Theorems about Loader, for every registry, document and file.           *)
(***************************************************************************)
EXTENDS Loader, FiniteSetTheorems, TLAPS

\* load_catalog's loop, as the fold that SequenceFold reasons about.
Loop == INSTANCE SequenceFold WITH Step <- Consider, Start <- Empty

Runnable(doc) == doc.form = "contract" /\ IsTool(doc) /\ Executable(doc)

\* Of the first n documents, those that are the first runnable one of their name.
Winners(docs, n) ==
    {j \in 1 .. n :
        Runnable(docs[j]) /\ \A h \in 1 .. j - 1 : Runnable(docs[h]) => docs[h].name # docs[j].name}

\* The loop invariant: what a catalog is once n documents were considered.
Tallied(docs, n, c) ==
    /\ c = [tools |-> c.tools, warnings |-> c.warnings]
    /\ c.tools = {docs[j] : j \in Winners(docs, n)}
    /\ IsFiniteSet(c.tools)
    /\ c.warnings \in Nat
    /\ Cardinality(c.tools) + c.warnings = n
    /\ \A j \in 1 .. n : Runnable(docs[j]) => docs[j].name \in Names(c)
    /\ c.warnings = 0 => \A j \in 1 .. n : Runnable(docs[j]) /\ docs[j] \in c.tools

\* What the disk of a process may hold, and what a catalog may have been loaded from.
Readable(disk) ==
    /\ disk.index \in Seq(Range(disk.index))
    /\ disk.files \in [Path -> Document \cup {NoFile}]
    /\ \E d \in Registries : disk.index = d.index

CatalogFits ==
    /\ Readable(loadedFrom)
    /\ catalog = LoadCatalog(loadedFrom)

\* The inductive invariant.
IInv == TypeOK /\ CatalogFits

-----------------------------------------------------------------------------
(* The loop of load_catalog.                                               *)

(* Before the first document there is nothing to tally.                    *)
LEMMA EmptyTallies ==
  ASSUME NEW docs
  PROVE  Tallied(docs, 0, Empty)
  <1>1. Winners(docs, 0) = {}
    BY DEF Winners
  <1>2. Empty.tools = {} /\ Empty.warnings = 0
    BY DEF Empty
  <1>3. IsFiniteSet({}) /\ Cardinality({}) = 0
    BY FS_EmptySet
  <1> QED BY <1>1, <1>2, <1>3 DEF Tallied, Empty

(* A document that is runnable and has a new name wins; any other gets a   *)
(* warning, and the winners stay what they were.                           *)
LEMMA WinnersGrow ==
  ASSUME NEW docs, NEW n \in Nat
  PROVE  Winners(docs, n + 1) =
            IF /\ Runnable(docs[n + 1])
               /\ \A h \in 1 .. n : Runnable(docs[h]) => docs[h].name # docs[n + 1].name
            THEN Winners(docs, n) \cup {n + 1} ELSE Winners(docs, n)
  <1> DEFINE first(j) ==
        Runnable(docs[j]) /\ \A h \in 1 .. j - 1 : Runnable(docs[h]) => docs[h].name # docs[j].name
  <1>1. Winners(docs, n) = {j \in 1 .. n : first(j)} /\ Winners(docs, n + 1) = {j \in 1 .. n + 1 : first(j)}
    BY DEF Winners
  <1>2. 1 .. n + 1 = (1 .. n) \cup {n + 1}
    OBVIOUS
  <1>3. (n + 1) - 1 = n
    OBVIOUS
  <1>4. first(n + 1) <=> /\ Runnable(docs[n + 1])
                         /\ \A h \in 1 .. n : Runnable(docs[h]) => docs[h].name # docs[n + 1].name
    BY <1>3
  <1> HIDE DEF first
  <1> QED BY <1>1, <1>2, <1>4

LEMMA ImageGrows ==
  ASSUME NEW docs, NEW W, NEW k
  PROVE  {docs[j] : j \in W \cup {k}} = {docs[j] : j \in W} \cup {docs[k]}
  OBVIOUS

(* One more turn of the loop keeps the tally.                              *)
LEMMA ConsiderTallies ==
  ASSUME NEW docs, NEW n \in Nat, NEW c, Tallied(docs, n, c)
  PROVE  Tallied(docs, n + 1, Consider(c, docs[n + 1]))
  <1> DEFINE doc == docs[n + 1]
             r == Consider(c, doc)
  <1>1. /\ c = [tools |-> c.tools, warnings |-> c.warnings]
        /\ c.tools = {docs[j] : j \in Winners(docs, n)}
        /\ IsFiniteSet(c.tools) /\ c.warnings \in Nat /\ Cardinality(c.tools) \in Nat
        /\ Cardinality(c.tools) + c.warnings = n
    BY FS_CardinalityType DEF Tallied
  <1>2. \A j \in 1 .. n : Runnable(docs[j]) => docs[j].name \in Names(c)
    BY DEF Tallied
  <1>3. c.warnings = 0 => \A j \in 1 .. n : Runnable(docs[j]) /\ docs[j] \in c.tools
    BY DEF Tallied
  <1>4. \A j \in 1 .. n + 1 : j \in 1 .. n \/ j = n + 1
    OBVIOUS
  <1>5. \A x \in Names(c) : \E h \in 1 .. n : Runnable(docs[h]) /\ docs[h].name = x
    BY <1>1 DEF Names, Winners
  <1>6. CASE Runnable(doc) /\ doc.name \notin Names(c)
    <2>1. /\ r = [tools |-> c.tools \cup {doc}, warnings |-> c.warnings]
      BY <1>1, <1>6 DEF Consider, Add, Runnable
    <2>a. r.tools = c.tools \cup {doc} /\ r.warnings = c.warnings
      BY <2>1
    <2> HIDE DEF r
    <2>2. Winners(docs, n + 1) = Winners(docs, n) \cup {n + 1}
      BY <1>2, <1>6, WinnersGrow
    <2>3. r.tools = {docs[j] : j \in Winners(docs, n + 1)}
      BY <1>1, <2>a, <2>2, ImageGrows
    <2>4. doc \notin c.tools
      BY <1>6 DEF Names
    <2>5. IsFiniteSet(r.tools) /\ Cardinality(r.tools) = Cardinality(c.tools) + 1
      <3>1. /\ IsFiniteSet(c.tools \cup {doc})
            /\ doc \notin c.tools => Cardinality(c.tools \cup {doc}) = Cardinality(c.tools) + 1
        <4> HIDE DEF doc
        <4> QED BY <1>1, FS_AddElement
      <3> QED BY <3>1, <2>a, <2>4
    <2>6. \A j \in 1 .. n + 1 : Runnable(docs[j]) => docs[j].name \in Names(r)
      BY <1>2, <1>4, <2>a DEF Names
    <2>7. r.warnings = 0 => \A j \in 1 .. n + 1 : Runnable(docs[j]) /\ docs[j] \in r.tools
      BY <1>3, <1>4, <1>6, <2>a
    <2>8. r = [tools |-> r.tools, warnings |-> r.warnings]
      BY <2>1, <2>a
    <2>9. Cardinality(r.tools) + r.warnings = n + 1 /\ r.warnings \in Nat
      BY <1>1, <2>a, <2>5
    <2>10. Tallied(docs, n + 1, r)
      BY <2>3, <2>5, <2>6, <2>7, <2>8, <2>9 DEF Tallied
    <2> QED BY <2>10 DEF r
  <1>7. CASE ~ (Runnable(doc) /\ doc.name \notin Names(c))
    <2>1. r = [tools |-> c.tools, warnings |-> c.warnings + 1]
      BY <1>1, <1>7 DEF Consider, Add, Warn, Runnable
    <2>2. Winners(docs, n + 1) = Winners(docs, n)
      BY <1>5, <1>7, WinnersGrow
    <2>3. \A j \in 1 .. n + 1 : Runnable(docs[j]) => docs[j].name \in Names(r)
      BY <1>2, <1>4, <1>7, <2>1 DEF Names
    <2> QED BY <1>1, <2>1, <2>2, <2>3 DEF Tallied
  <1> QED BY <1>6, <1>7
(* After the last document the catalog is the tally of them all.           *)
LEMMA CatalogIsTallied ==
  ASSUME NEW disk, Len(Documents(disk)) \in Nat
  PROVE  Tallied(Documents(disk), Len(Documents(disk)), LoadCatalog(disk))
  <1> DEFINE docs == Documents(disk)
             Catalogs == [tools : SUBSET {docs[j] : j \in 1 .. Len(docs)}, warnings : Nat]
             T == {p \in Nat \X Catalogs : p[1] <= Len(docs) /\ Tallied(docs, p[1], p[2])}
  <1>1. \A c : \A n \in 0 .. Len(docs) : Tallied(docs, n, c) => c \in Catalogs
    <2>1. \A n \in 0 .. Len(docs) :
             {docs[j] : j \in Winners(docs, n)} \subseteq {docs[j] : j \in 1 .. Len(docs)}
      BY DEF Winners
    <2> QED BY <2>1 DEF Tallied
  <1>2. <<0, Empty>> \in T
    BY <1>1, EmptyTallies
  <1>3. ASSUME NEW v, NEW i \in 1 .. Len(docs), <<i - 1, v>> \in T
        PROVE  <<i, Consider(v, docs[i])>> \in T
    <2>1. Tallied(docs, i - 1, v) /\ i - 1 \in Nat /\ (i - 1) + 1 = i
      BY <1>3
    <2>2. Tallied(docs, i, Consider(v, docs[i]))
      <3>1. Tallied(docs, (i - 1) + 1, Consider(v, docs[(i - 1) + 1]))
        BY <2>1, ConsiderTallies
      <3> QED BY <2>1, <3>1
    <2> QED BY <1>1, <2>2
  <1>4. <<Len(docs), Loop!Fold(docs)>> \in T
    <2> HIDE DEF T, docs
    <2>1. Len(docs) \in Nat
      BY DEF docs
    <2> QED BY <1>2, <1>3, <2>1, Loop!FoldInduction
  <1>5. LoadCatalog(disk) = Loop!Fold(docs)
    BY DEF LoadCatalog, Loop!Fold
  <1> QED BY <1>4, <1>5

-----------------------------------------------------------------------------
(* The documents of a registry.                                            *)

LEMMA StraysAreFinite ==
  ASSUME NEW disk
  PROVE  IsFiniteSet(Strays(disk)) /\ Cardinality(Strays(disk)) \in Nat
  BY SizeAssumption, FS_Subset, FS_CardinalityType DEF Strays

LEMMA IndexIsASequence ==
  ASSUME NEW disk, Readable(disk)
  PROVE  Len(disk.index) \in Nat /\ DOMAIN disk.index = 1 .. Len(disk.index)
  BY DEF Readable

(* Under an index, one document for each entry, then one for each stray.   *)
LEMMA DocumentsOfAnIndex ==
  ASSUME NEW disk, Readable(disk), IsIndexed(disk)
  PROVE  /\ Len(Documents(disk)) = Len(disk.index) + Cardinality(Strays(disk))
         /\ \A i \in 1 .. Len(disk.index) : Documents(disk)[i] = ReadEntry(disk.index[i], disk)
         /\ \A i \in 1 .. Len(Documents(disk)) :
               i \notin 1 .. Len(disk.index) => Documents(disk)[i] = Refused
  <1> DEFINE n == Len(disk.index)
             k == Cardinality(Strays(disk))
             listed == [i \in 1 .. n |-> ReadEntry(disk.index[i], disk)]
             strays == [i \in 1 .. k |-> Refused]
             All == {ReadEntry(disk.index[i], disk) : i \in 1 .. n} \cup {Refused}
  <1>1. n \in Nat /\ DOMAIN disk.index = 1 .. n /\ k \in Nat
    BY IndexIsASequence, StraysAreFinite
  <1>2. Documents(disk) = listed \o strays
    BY <1>1 DEF Documents, FromIndex
  <1>3. listed \in Seq(All) /\ Len(listed) = n /\ strays \in Seq(All) /\ Len(strays) = k
    BY <1>1
  <1>4. /\ Len(listed \o strays) = n + k
        /\ \A i \in 1 .. n + k : (listed \o strays)[i] = IF i <= n THEN listed[i] ELSE strays[i - n]
    <2> HIDE DEF listed, strays, n, k, All
    <2> QED BY <1>1, <1>3
  <1>5. ASSUME NEW i \in 1 .. n PROVE Documents(disk)[i] = ReadEntry(disk.index[i], disk)
    BY <1>1, <1>2, <1>4
  <1>6. ASSUME NEW i \in 1 .. n + k, i \notin 1 .. n PROVE Documents(disk)[i] = Refused
    BY <1>1, <1>2, <1>4, <1>6
  <1> QED BY <1>2, <1>4, <1>5, <1>6

(* Under the legacy layout, one for each element.                          *)
LEMMA DocumentsInlined ==
  ASSUME NEW disk, Readable(disk), ~ IsIndexed(disk)
  PROVE  /\ Len(Documents(disk)) = Len(disk.index)
         /\ \A i \in 1 .. Len(disk.index) : Documents(disk)[i] \in {Refused, disk.index[i]}
  BY IndexIsASequence DEF Documents, FromInlined

LEMMA DocumentsAreASequence ==
  ASSUME NEW disk, Readable(disk)
  PROVE  /\ Len(Documents(disk)) \in Nat
         /\ DOMAIN Documents(disk) = 1 .. Len(Documents(disk))
  BY IndexIsASequence, StraysAreFinite, DocumentsOfAnIndex, DocumentsInlined
     DEF Documents, FromInlined, FromIndex

LEMMA RefusedIsNotRunnable == ~ Runnable(Refused)
  BY DEF Runnable, Refused
(* A document that was read from a file is the one its entry recorded.     *)
LEMMA ReadEntryReads ==
  ASSUME NEW disk, NEW e, ReadEntry(e, disk) # Refused
  PROVE  /\ IsEntry(e) /\ e.path \in Path
         /\ disk.files[e.path] # NoFile
         /\ ReadEntry(e, disk) = disk.files[e.path]
         /\ e.sha \in {disk.files[e.path], NoSha}
  BY DEF ReadEntry

AnyDocument == Document \cup UNION {Range(d.index) : d \in Registries}

LEMMA DocumentsAreTyped ==
  ASSUME NEW disk, Readable(disk), NEW i \in 1 .. Len(Documents(disk))
  PROVE  Documents(disk)[i] \in AnyDocument \cup {Refused}
  <1>1. CASE IsIndexed(disk)
    <2>1. CASE i \in 1 .. Len(disk.index)
      <3>1. Documents(disk)[i] = ReadEntry(disk.index[i], disk)
        BY <1>1, <2>1, DocumentsOfAnIndex
      <3>2. CASE ReadEntry(disk.index[i], disk) # Refused
        BY <3>1, <3>2, ReadEntryReads DEF Readable, AnyDocument
      <3> QED BY <3>1, <3>2
    <2> QED BY <1>1, <2>1, DocumentsOfAnIndex
  <1>2. CASE ~ IsIndexed(disk)
    <2>1. i \in 1 .. Len(disk.index) /\ Documents(disk)[i] \in {Refused, disk.index[i]}
      BY <1>2, DocumentsInlined
    <2>2. disk.index[i] \in Range(disk.index)
      BY <2>1, IndexIsASequence DEF Range
    <2> QED BY <2>1, <2>2 DEF Readable, AnyDocument
  <1> QED BY <1>1, <1>2

-----------------------------------------------------------------------------
(* What a catalog is, whatever it was loaded from.                         *)

LEMMA Loaded ==
  ASSUME NEW disk, Readable(disk)
  PROVE  /\ Tallied(Documents(disk), Len(Documents(disk)), LoadCatalog(disk))
         /\ Len(Documents(disk)) \in Nat
  BY CatalogIsTallied, DocumentsAreASequence

LEMMA WinnersHaveTheirOwnName ==
  ASSUME NEW docs, NEW n \in Nat, NEW i \in Winners(docs, n), NEW j \in Winners(docs, n),
         docs[i].name = docs[j].name
  PROVE  i = j
  <1>1. i \in Nat /\ j \in Nat /\ i >= 1 /\ j >= 1 /\ Runnable(docs[i]) /\ Runnable(docs[j])
    BY DEF Winners
  <1>2. ~ (i < j)
    BY <1>1 DEF Winners
  <1>3. ~ (j < i)
    BY <1>1 DEF Winners
  <1> QED BY <1>1, <1>2, <1>3

LEMMA CatalogIsTyped ==
  ASSUME NEW disk, Readable(disk)
  PROVE  /\ LoadCatalog(disk).tools \subseteq AnyDocument
         /\ \A s, t \in LoadCatalog(disk).tools : s.name = t.name => s = t
         /\ LoadCatalog(disk).warnings \in Nat
  <1> DEFINE docs == Documents(disk)
             n == Len(docs)
  <1>1. n \in Nat /\ LoadCatalog(disk).tools = {docs[j] : j \in Winners(docs, n)}
        /\ LoadCatalog(disk).warnings \in Nat
    BY Loaded DEF Tallied
  <1>2. \A j \in Winners(docs, n) : j \in 1 .. n /\ Runnable(docs[j])
    BY DEF Winners
  <1>3. \A j \in Winners(docs, n) : docs[j] \in AnyDocument
    BY <1>2, DocumentsAreTyped, RefusedIsNotRunnable
  <1>4. \A i, j \in Winners(docs, n) : docs[i].name = docs[j].name => i = j
    BY <1>1, WinnersHaveTheirOwnName
  <1> HIDE DEF docs, n
  <1> QED BY <1>1, <1>3, <1>4

(* A sound entry of an index has a tool of its name in the catalog.        *)
LEMMA SoundIsServed ==
  ASSUME NEW disk, Readable(disk), IsIndexed(disk),
         NEW i \in DOMAIN disk.index, Sound(disk.index[i], disk)
  PROVE  ReadEntry(disk.index[i], disk).name \in Names(LoadCatalog(disk))
  <1>1. i \in 1 .. Len(disk.index) /\ Len(disk.index) \in Nat
    BY IndexIsASequence
  <1>2. i \in 1 .. Len(Documents(disk)) /\ Documents(disk)[i] = ReadEntry(disk.index[i], disk)
    BY <1>1, DocumentsOfAnIndex, StraysAreFinite
  <1>3. Runnable(Documents(disk)[i])
    BY <1>2 DEF Sound, Runnable
  <1> QED BY <1>2, <1>3, Loaded DEF Tallied

(* A load without a warning has served every document, and there is one    *)
(* for each entry and no stray.                                            *)
LEMMA LoadedWithoutWarning ==
  ASSUME NEW disk, Readable(disk), LoadCatalog(disk).warnings = 0
  PROVE  /\ \A i \in 1 .. Len(Documents(disk)) :
               Runnable(Documents(disk)[i]) /\ Documents(disk)[i] \in LoadCatalog(disk).tools
         /\ Len(Documents(disk)) = Len(disk.index)
         /\ Cardinality(LoadCatalog(disk).tools) = Len(disk.index)
  <1>1. /\ \A i \in 1 .. Len(Documents(disk)) :
             Runnable(Documents(disk)[i]) /\ Documents(disk)[i] \in LoadCatalog(disk).tools
        /\ Cardinality(LoadCatalog(disk).tools) = Len(Documents(disk))
    BY Loaded, FS_CardinalityType DEF Tallied
  <1>2. CASE IsIndexed(disk)
    <2>1. /\ Len(disk.index) \in Nat /\ Cardinality(Strays(disk)) \in Nat
          /\ Len(Documents(disk)) = Len(disk.index) + Cardinality(Strays(disk))
      BY <1>2, IndexIsASequence, StraysAreFinite, DocumentsOfAnIndex
    <2>2. Cardinality(Strays(disk)) = 0
      <3>1. SUFFICES ASSUME Cardinality(Strays(disk)) > 0 PROVE FALSE
        BY <2>1
      <3>2. Len(Documents(disk)) \in 1 .. Len(Documents(disk)) /\ Len(Documents(disk)) \notin 1 .. Len(disk.index)
        BY <2>1, <3>1
      <3> QED BY <1>1, <1>2, <3>2, DocumentsOfAnIndex, RefusedIsNotRunnable
    <2> QED BY <1>1, <2>1, <2>2
  <1>3. CASE ~ IsIndexed(disk)
    BY <1>1, <1>3, DocumentsInlined
  <1> QED BY <1>2, <1>3
-----------------------------------------------------------------------------
(* The inductive invariant.  The three ways to step are stated for any     *)
(* machine around this disk and catalog: the disk changes, the catalog is  *)
(* loaded, neither.                                                        *)

LEMMA DiskIsReadable ==
  ASSUME TypeOK
  PROVE  Readable(Disk)
  BY RegistryAssumption DEF TypeOK, Readable, Disk

LEMMA RegistriesAreReadable ==
  ASSUME NEW d \in Registries
  PROVE  Readable(d)
  BY RegistryAssumption DEF Readable

LEMMA InitFits == Init => IInv
  <1> SUFFICES ASSUME Init PROVE IInv
    OBVIOUS
  <1>1. PICK d \in Registries :
          /\ schema = d.schema /\ index = d.index /\ files = d.files
          /\ edits = 0
          /\ catalog = LoadCatalog(d)
          /\ loadedFrom = d
    BY DEF Init
  <1>2. Readable(d)
    BY RegistriesAreReadable
  <1>3. TypeOK
    BY <1>1, <1>2, CatalogIsTyped, RegistryAssumption, SizeAssumption DEF TypeOK, AnyDocument
  <1> QED BY <1>1, <1>2, <1>3 DEF IInv, CatalogFits

LEMMA DiskStep ==
  ASSUME IInv, UNCHANGED <<catalog, loadedFrom>>,
         schema' \in {d.schema : d \in Registries},
         index' \in {d.index : d \in Registries},
         files' \in [Path -> Document \cup {NoFile}],
         edits' \in 0 .. MaxEdits
  PROVE  IInv'
  <1>1. TypeOK'
    BY DEF IInv, TypeOK
  <1>2. CatalogFits'
    BY DEF IInv, CatalogFits
  <1> QED BY <1>1, <1>2 DEF IInv

LEMMA LoadStep ==
  ASSUME IInv, catalog' = LoadCatalog(Disk), loadedFrom' = Disk, UNCHANGED diskVars
  PROVE  IInv'
  <1>1. Readable(Disk)
    BY DiskIsReadable DEF IInv
  <1>2. TypeOK'
    BY <1>1, CatalogIsTyped DEF IInv, TypeOK, AnyDocument, diskVars
  <1>3. CatalogFits'
    BY <1>1 DEF CatalogFits
  <1> QED BY <1>2, <1>3 DEF IInv

LEMMA StutterStep ==
  ASSUME IInv, UNCHANGED vars
  PROVE  IInv'
  <1>1. TypeOK'
    BY DEF IInv, TypeOK, vars, diskVars
  <1>2. CatalogFits'
    BY DEF IInv, CatalogFits, vars
  <1> QED BY <1>1, <1>2 DEF IInv

LEMMA PublishStep ==
  ASSUME IInv, Publish
  PROVE  IInv'
  <1>1. /\ schema' \in {d.schema : d \in Registries}
        /\ index' \in {d.index : d \in Registries}
        /\ files' \in [Path -> Document \cup {NoFile}]
    BY RegistryAssumption DEF Publish
  <1>2. edits' \in 0 .. MaxEdits
    BY SizeAssumption DEF IInv, TypeOK, Publish
  <1> QED BY <1>1, <1>2, DiskStep DEF Publish

LEMMA EditFileStep ==
  ASSUME IInv, EditFile
  PROVE  IInv'
  <1>1. files' \in [Path -> Document \cup {NoFile}]
    BY DEF IInv, TypeOK, EditFile
  <1>2. edits' \in 0 .. MaxEdits
    BY SizeAssumption DEF IInv, TypeOK, EditFile
  <1>3. schema' \in {d.schema : d \in Registries} /\ index' \in {d.index : d \in Registries}
    BY DEF IInv, TypeOK, EditFile
  <1> QED BY <1>1, <1>2, <1>3, DiskStep DEF EditFile

LEMMA NextFits == IInv /\ [Next]_vars => IInv'
  <1> SUFFICES ASSUME IInv, [Next]_vars PROVE IInv'
    OBVIOUS
  <1>1. CASE Publish
    BY <1>1, PublishStep
  <1>2. CASE EditFile
    BY <1>2, EditFileStep
  <1>3. CASE Refresh
    BY <1>3, LoadStep DEF Refresh
  <1>4. CASE RefreshRaises
    BY <1>4, StutterStep DEF RefreshRaises
  <1>5. CASE UNCHANGED vars
    BY <1>5, StutterStep
  <1> QED BY <1>1, <1>2, <1>3, <1>4, <1>5 DEF Next

LEMMA LoaderInvariant == Spec => []IInv
  BY InitFits, NextFits, PTL DEF Spec

-----------------------------------------------------------------------------
(* The invariants of the runs, from IInv.                                  *)

LEMMA ServesOnlyWhatWasPublishedHolds == IInv => ServesOnlyWhatWasPublished
  <1> SUFFICES ASSUME IInv, IsIndexed(loadedFrom), NEW t \in catalog.tools
               PROVE  \E i \in DOMAIN loadedFrom.index :
                        LET e == loadedFrom.index[i]
                        IN  IsEntry(e) /\ e.path \in Path /\ loadedFrom.files[e.path] = t /\ e.sha \in {t, NoSha}
    BY DEF ServesOnlyWhatWasPublished
  <1> DEFINE docs == Documents(loadedFrom)
  <1>1. Readable(loadedFrom) /\ catalog = LoadCatalog(loadedFrom)
    BY DEF IInv, CatalogFits
  <1>2. PICK j \in 1 .. Len(docs) : Runnable(docs[j]) /\ t = docs[j]
    BY <1>1, Loaded DEF Tallied, Winners
  <1>3. j \in 1 .. Len(loadedFrom.index) /\ t = ReadEntry(loadedFrom.index[j], loadedFrom)
    BY <1>1, <1>2, DocumentsOfAnIndex, RefusedIsNotRunnable
  <1>4. t # Refused
    BY <1>2, RefusedIsNotRunnable
  <1>5. j \in DOMAIN loadedFrom.index
    BY <1>1, <1>3, IndexIsASequence
  <1> QED BY <1>3, <1>4, <1>5, ReadEntryReads

LEMMA ServesTheFirstHolds == IInv => ServesTheFirstOfEachName
  <1> SUFFICES ASSUME IInv PROVE ServesTheFirstOfEachName
    OBVIOUS
  <1>1. Readable(loadedFrom) /\ catalog = LoadCatalog(loadedFrom)
    BY DEF IInv, CatalogFits
  <1>2. DOMAIN Documents(loadedFrom) = 1 .. Len(Documents(loadedFrom))
    BY <1>1, DocumentsAreASequence
  <1> QED BY <1>1, <1>2, Loaded DEF Tallied, Winners, Runnable, ServesTheFirstOfEachName

LEMMA NothingIsSkippedHolds == IInv => NothingIsSkippedSilently
  <1> SUFFICES ASSUME IInv PROVE NothingIsSkippedSilently
    OBVIOUS
  <1>1. Readable(loadedFrom) /\ catalog = LoadCatalog(loadedFrom)
    BY DEF IInv, CatalogFits
  <1>2. Cardinality(catalog.tools) + catalog.warnings = Len(Documents(loadedFrom))
    BY <1>1, Loaded DEF Tallied
  <1> QED BY <1>1, <1>2, DocumentsOfAnIndex, DocumentsInlined, IndexIsASequence
          DEF NothingIsSkippedSilently

LEMMA TwoCausesHold == IInv => OutagesHaveTwoCauses
  <1> SUFFICES ASSUME IInv, IsSupported(Disk), ~ ReadingRaises(Disk), IsIndexed(Disk),
                      NEW i \in DOMAIN index, Sound(index[i], Disk)
               PROVE  Serves(Disk, ReadEntry(index[i], Disk).name)
    BY DEF OutagesHaveTwoCauses
  <1>1. Readable(Disk) /\ Disk.index = index
    BY DiskIsReadable DEF IInv, Disk
  <1>2. ~ LoadRaises(Disk)
    BY DEF LoadRaises
  <1> QED BY <1>1, <1>2, SoundIsServed DEF Serves

(* The name of a tool is lost only by a load, and then no sound entry of   *)
(* the disk that was loaded has it.                                        *)
LEMMA ToolsLeaveRarely ==
  ASSUME IInv, catalog' = catalog \/ catalog' = LoadCatalog(Disk)
  PROVE  \A t \in catalog.tools :
            t.name \notin {u.name : u \in catalog'.tools} /\ IsIndexed(Disk) =>
               ~ \E i \in DOMAIN index : Sound(index[i], Disk) /\ ReadEntry(index[i], Disk).name = t.name
  <1>1. CASE catalog' = catalog
    BY <1>1
  <1>2. CASE catalog' = LoadCatalog(Disk)
    <2>1. Readable(Disk) /\ Disk.index = index
      BY DiskIsReadable DEF IInv, Disk
    <2> QED BY <1>2, <2>1, SoundIsServed DEF Names
  <1> QED BY <1>1, <1>2

-----------------------------------------------------------------------------
(* The theorems.                                                           *)

(* Type correctness: whatever is on disk, a catalog holds documents of     *)
(* distinct names.                                                         *)
THEOREM LoaderTypeCorrect == Spec => []TypeOK
  <1>1. IInv => TypeOK
    BY DEF IInv
  <1> QED BY <1>1, LoaderInvariant, PTL

(* Every tool served from an index is one it lists, unchanged since the    *)
(* entry recorded its hash.                                                *)
THEOREM OnlyThePublishedIsServed == Spec => []ServesOnlyWhatWasPublished
  BY ServesOnlyWhatWasPublishedHolds, LoaderInvariant, PTL

(* The catalog is the first runnable contract of each name, for a registry *)
(* of any length.                                                          *)
THEOREM TheFirstIsServed == Spec => []ServesTheFirstOfEachName
  BY ServesTheFirstHolds, LoaderInvariant, PTL

(* There are as many documents, strays included, as tools and warnings.    *)
THEOREM EverySkipIsLoud == Spec => []NothingIsSkippedSilently
  BY NothingIsSkippedHolds, LoaderInvariant, PTL

(* For any registry that may be on disk, those whose reading raises        *)
(* included: if a load of it does not serve a sound entry, then a document *)
(* or element of it makes the reading raise, or its first element is not   *)
(* an entry with a path.  Nothing else that is wrong with an entry costs   *)
(* the tool of another.                                                    *)
THEOREM NothingElseIsAnOutage == Spec => []OutagesHaveTwoCauses
  BY TwoCausesHold, LoaderInvariant, PTL

(* A tool leaves the catalog only when the index on disk holds no sound    *)
(* contract of its name.                                                   *)
THEOREM ToolsStay == Spec => ToolsLeaveOnlyWhenUnpublished
  <1> DEFINE Kept ==
        \A t \in catalog.tools :
            t.name \notin {u.name : u \in catalog'.tools} /\ IsIndexed(Disk) =>
               ~ \E i \in DOMAIN index : Sound(index[i], Disk) /\ ReadEntry(index[i], Disk).name = t.name
  <1>1. ASSUME IInv, [Next]_vars PROVE [Kept]_vars
    <2>1. catalog' = catalog \/ catalog' = LoadCatalog(Disk)
      BY <1>1 DEF Next, Publish, EditFile, Refresh, RefreshRaises, vars
    <2> QED BY <1>1, <2>1, ToolsLeaveRarely
  <1>2. []IInv /\ [][Next]_vars => [][Kept]_vars
    <2> HIDE DEF Kept
    <2> QED BY <1>1, PTL
  <1> QED BY <1>2, LoaderInvariant, PTL DEF Spec, ToolsLeaveOnlyWhenUnpublished
=============================================================================
