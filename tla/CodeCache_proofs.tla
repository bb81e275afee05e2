-------------------------- MODULE CodeCache_proofs --------------------------
(***************************************************************************)
(* Theorems about CodeCache, for every number of jobs, contracts, hosts,   *)
(* templates and restarts.                                                 *)
(***************************************************************************)
EXTENDS CodeCache, TLAPS

\* A module kept under a key is one that was generated for that key.
Fits(s, k) == s \notin {Torn, Nothing} => s.context = k.context /\ s.host = k.host

StoresFit == \A k \in Key : Fits(memory[k], k) /\ Fits(disk[k], k)

JobsFit ==
    \A j \in Job :
        /\ pc[j] = "idle" => loaded[j] = Nothing /\ source[j] = Nothing
        /\ pc[j] # "idle" => wanted[j] \in Context /\ Fits(source[j], KeyOf(wanted[j]))
        /\ loaded[j] \notin {Torn, Nothing} =>
              wanted[j] \in Context /\ Fits(loaded[j], KeyOf(wanted[j]))

WriterHoldsTheLoop ==
    writer # Nobody =>
        /\ pc[writer] = "writing"
        /\ source[writer] # Nothing
        /\ memory[KeyOf(wanted[writer])] = source[writer]

\* The inductive invariant: the properties, and what they rest on.
IInv ==
    /\ TypeOK
    /\ StoresFit
    /\ JobsFit
    /\ WriterHoldsTheLoop
    /\ WholeFileIsWhatMemoryHolds
    /\ TornFilesAreHealed

-----------------------------------------------------------------------------
LEMMA KeyOfType == ASSUME TypeOK, NEW c \in Context PROVE KeyOf(c) \in Key
  BY DEF TypeOK, KeyOf, Key

LEMMA GenerateFits ==
  ASSUME TypeOK, NEW c \in Context
  PROVE  Generate(c) \in Module /\ Fits(Generate(c), KeyOf(c)) /\ Generate(c) \notin {Torn, Nothing}
  BY SourceAssumption DEF TypeOK, Generate, Module, Fits, KeyOf

\* What a job gets: something generated for its contract, or a torn file.
LEMMA SourceForFits ==
  ASSUME IInv, NEW c \in Context
  PROVE  /\ SourceFor(c) \in Module \cup {Torn}
         /\ SourceFor(c) # Nothing
         /\ Fits(SourceFor(c), KeyOf(c))
         /\ process = 0 => SourceFor(c) # Torn
  <1>1. KeyOf(c) \in Key
    BY KeyOfType DEF IInv
  <1>2. Get(KeyOf(c)) \in Module \cup {Torn, Nothing}
    BY <1>1 DEF IInv, TypeOK, Get
  <1>3. Fits(Get(KeyOf(c)), KeyOf(c))
    BY <1>1 DEF IInv, StoresFit, Get
  <1>4. process = 0 => Get(KeyOf(c)) # Torn
    BY <1>1 DEF IInv, TornFilesAreHealed, Get
  <1>5. Generate(c) \in Module /\ Fits(Generate(c), KeyOf(c)) /\ Generate(c) \notin {Torn, Nothing}
    BY GenerateFits DEF IInv
  <1> QED
    BY <1>2, <1>3, <1>4, <1>5 DEF SourceFor

-----------------------------------------------------------------------------
LEMMA InitIInv == Init => IInv
  <1> SUFFICES ASSUME Init PROVE IInv
    OBVIOUS
  <1> USE SourceAssumption DEF Init
  <1>1. TypeOK
    BY BoundAssumption DEF TypeOK
  <1>2. StoresFit
    BY DEF StoresFit, Fits
  <1>3. JobsFit
    BY DEF JobsFit
  <1>4. WriterHoldsTheLoop /\ WholeFileIsWhatMemoryHolds
    BY DEF WriterHoldsTheLoop, WholeFileIsWhatMemoryHolds
  <1>5. TornFilesAreHealed
    BY DEF TornFilesAreHealed
  <1> QED
    BY <1>1, <1>2, <1>3, <1>4, <1>5 DEF IInv

LEMMA NextIInv == IInv /\ [Next]_vars => IInv'
  <1> SUFFICES ASSUME IInv, [Next]_vars PROVE IInv'
    OBVIOUS
  <1> USE DEF IInv
  <1>1. ASSUME NEW j \in Job, NEW c \in Context, OpenForWrite(j, c)
        PROVE  IInv'
    <2> DEFINE s == SourceFor(c)
               k0 == KeyOf(c)
    <2>1. /\ s \in Module \cup {Torn} /\ s # Nothing /\ Fits(s, k0)
          /\ process = 0 => s # Torn
      BY SourceForFits
    <2>2. k0 \in Key
      BY KeyOfType
    <2>3. /\ pc[j] = "idle" /\ writer = Nobody
          /\ wanted' = [wanted EXCEPT ![j] = c]
          /\ source' = [source EXCEPT ![j] = s]
          /\ memory' = [memory EXCEPT ![k0] = s]
          /\ disk' = [disk EXCEPT ![k0] = Torn]
          /\ writer' = j
          /\ pc' = [pc EXCEPT ![j] = "writing"]
          /\ UNCHANGED <<loaded, host, template, process>>
      BY <1>1 DEF OpenForWrite, engineVars
    <2>4. \A d : KeyOf(d)' = KeyOf(d)
      BY <2>3 DEF KeyOf
    <2> HIDE DEF s, k0
    <2>5. TypeOK'
      BY <2>1, <2>2, <2>3 DEF TypeOK
    <2>6. StoresFit'
      BY <2>1, <2>2, <2>3 DEF StoresFit, Fits, TypeOK
    <2>7. JobsFit'
      <3> SUFFICES ASSUME NEW i \in Job
                   PROVE  /\ pc'[i] = "idle" => loaded'[i] = Nothing /\ source'[i] = Nothing
                          /\ pc'[i] # "idle" =>
                                wanted'[i] \in Context /\ Fits(source'[i], KeyOf(wanted'[i]))
                          /\ loaded'[i] \notin {Torn, Nothing} =>
                                wanted'[i] \in Context /\ Fits(loaded'[i], KeyOf(wanted'[i]))
        BY <2>4 DEF JobsFit, Fits
      <3>1. CASE i = j
        BY <3>1, <2>1, <2>3 DEF JobsFit, TypeOK, k0
      <3>2. CASE i # j
        BY <3>2, <2>3 DEF JobsFit, TypeOK
      <3> QED
        BY <3>1, <3>2
    <2>8. WriterHoldsTheLoop'
      BY <2>1, <2>2, <2>3, <2>4 DEF WriterHoldsTheLoop, TypeOK, k0
    <2>9. WholeFileIsWhatMemoryHolds'
      BY <2>2, <2>3 DEF WholeFileIsWhatMemoryHolds, TypeOK
    <2>10. TornFilesAreHealed'
      BY <2>1, <2>2, <2>3 DEF TornFilesAreHealed, TypeOK
    <2> QED
      BY <2>5, <2>6, <2>7, <2>8, <2>9, <2>10
  <1>2. ASSUME NEW j \in Job, CloseFile(j)
        PROVE  IInv'
    <2> DEFINE k0 == KeyOf(wanted[j])
    <2>1. pc[j] = "writing" /\ wanted[j] \in Context /\ k0 \in Key
      BY <1>2, JobAssumption, KeyOfType DEF CloseFile, WriterHoldsTheLoop, JobsFit
    <2>2. source[j] \in Module \cup {Torn} /\ Fits(source[j], k0) /\ memory[k0] = source[j]
      BY <1>2, <2>1, JobAssumption DEF CloseFile, WriterHoldsTheLoop, JobsFit, TypeOK
    <2>3. /\ disk' = [disk EXCEPT ![k0] = source[j]]
          /\ writer' = Nobody
          /\ pc' = [pc EXCEPT ![j] = "written"]
          /\ UNCHANGED <<memory, wanted, source, loaded, host, template, process>>
      BY <1>2 DEF CloseFile, engineVars
    <2>4. \A d : KeyOf(d)' = KeyOf(d)
      BY <2>3 DEF KeyOf
    <2> HIDE DEF k0
    <2>5. TypeOK'
      BY <2>1, <2>2, <2>3 DEF TypeOK
    <2>6. StoresFit'
      BY <2>1, <2>2, <2>3 DEF StoresFit, Fits, TypeOK
    <2>7. JobsFit'
      BY <2>1, <2>3, <2>4 DEF JobsFit, Fits, TypeOK
    <2>8. WriterHoldsTheLoop' /\ WholeFileIsWhatMemoryHolds'
      BY <2>1, <2>2, <2>3 DEF WriterHoldsTheLoop, WholeFileIsWhatMemoryHolds, TypeOK
    <2>9. TornFilesAreHealed'
      BY <2>1, <2>2, <2>3 DEF TornFilesAreHealed, TypeOK
    <2> QED
      BY <2>5, <2>6, <2>7, <2>8, <2>9
  <1>3. ASSUME NEW j \in Job, WriteFails(j) \/ StartChild(j)
        PROVE  IInv'
    <2>1. /\ writer' = Nobody /\ pc[j] # "idle"
          /\ pc' = [pc EXCEPT ![j] = "failed"] \/ pc' = [pc EXCEPT ![j] = "started"]
          /\ UNCHANGED <<memory, disk, wanted, source, loaded, host, template, process>>
      BY <1>3, JobAssumption DEF WriteFails, StartChild, engineVars, WriterHoldsTheLoop
    <2>2. TypeOK'
      BY <2>1 DEF TypeOK
    <2>3. StoresFit' /\ WriterHoldsTheLoop' /\ WholeFileIsWhatMemoryHolds' /\ TornFilesAreHealed'
      BY <2>1 DEF StoresFit, WriterHoldsTheLoop, WholeFileIsWhatMemoryHolds, TornFilesAreHealed, Fits
    <2>4. JobsFit'
      BY <2>1 DEF JobsFit, Fits, KeyOf, TypeOK
    <2> QED
      BY <2>2, <2>3, <2>4
  <1>4. ASSUME NEW j \in Job, ChildLoads(j)
        PROVE  IInv'
    <2> DEFINE k0 == KeyOf(wanted[j])
    <2>1. pc[j] = "started" /\ wanted[j] \in Context /\ k0 \in Key
      BY <1>4, KeyOfType DEF ChildLoads, JobsFit
    <2>2. /\ loaded' = [loaded EXCEPT ![j] = disk[k0]]
          /\ pc' = [pc EXCEPT ![j] = "loaded"]
          /\ UNCHANGED <<memory, disk, writer, wanted, source, host, template, process>>
      BY <1>4 DEF ChildLoads, engineVars
    <2>3. \A d : KeyOf(d)' = KeyOf(d)
      BY <2>2 DEF KeyOf
    <2>4. Fits(disk[k0], k0) /\ disk[k0] \in Module \cup {Torn, Nothing}
      BY <2>1 DEF StoresFit, TypeOK
    <2>5. writer # j
      BY <2>1, JobAssumption DEF WriterHoldsTheLoop
    <2> HIDE DEF k0
    <2>6. TypeOK'
      BY <2>2, <2>4 DEF TypeOK
    <2>7. StoresFit' /\ WholeFileIsWhatMemoryHolds' /\ TornFilesAreHealed'
      BY <2>2 DEF StoresFit, WholeFileIsWhatMemoryHolds, TornFilesAreHealed, Fits
    <2>8. WriterHoldsTheLoop'
      BY <2>2, <2>3, <2>5 DEF WriterHoldsTheLoop, TypeOK
    <2>9. JobsFit'
      <3> SUFFICES ASSUME NEW i \in Job
                   PROVE  /\ pc'[i] = "idle" => loaded'[i] = Nothing /\ source'[i] = Nothing
                          /\ pc'[i] # "idle" =>
                                wanted'[i] \in Context /\ Fits(source'[i], KeyOf(wanted'[i]))
                          /\ loaded'[i] \notin {Torn, Nothing} =>
                                wanted'[i] \in Context /\ Fits(loaded'[i], KeyOf(wanted'[i]))
        BY <2>3 DEF JobsFit, Fits
      <3>1. CASE i = j
        BY <3>1, <2>1, <2>2, <2>4 DEF JobsFit, TypeOK, k0
      <3>2. CASE i # j
        BY <3>2, <2>2 DEF JobsFit, TypeOK
      <3> QED
        BY <3>1, <3>2
    <2> QED
      BY <2>6, <2>7, <2>8, <2>9
  <1>5. ASSUME NEW j \in Job, Forget(j)
        PROVE  IInv'
    <2>1. /\ writer = Nobody
          /\ pc' = [pc EXCEPT ![j] = "idle"]
          /\ wanted' = [wanted EXCEPT ![j] = Nothing]
          /\ source' = [source EXCEPT ![j] = Nothing]
          /\ loaded' = [loaded EXCEPT ![j] = Nothing]
          /\ UNCHANGED <<memory, disk, writer, host, template, process>>
      BY <1>5 DEF Forget, engineVars
    <2>2. TypeOK'
      BY <2>1 DEF TypeOK
    <2>3. StoresFit' /\ WriterHoldsTheLoop' /\ WholeFileIsWhatMemoryHolds' /\ TornFilesAreHealed'
      BY <2>1 DEF StoresFit, WriterHoldsTheLoop, WholeFileIsWhatMemoryHolds, TornFilesAreHealed, Fits
    <2>4. JobsFit'
      BY <2>1 DEF JobsFit, Fits, KeyOf, TypeOK
    <2> QED
      BY <2>2, <2>3, <2>4
  <1>6. ASSUME Clear
        PROVE  IInv'
    <2>1. /\ writer = Nobody
          /\ memory' = [k \in Key |-> Nothing]
          /\ disk' = [k \in Key |-> Nothing]
          /\ UNCHANGED <<writer, pc, wanted, source, loaded, host, template, process>>
      BY <1>6 DEF Clear, jobVars, engineVars
    <2>2. TypeOK'
      BY <2>1 DEF TypeOK
    <2>3. StoresFit' /\ WriterHoldsTheLoop' /\ WholeFileIsWhatMemoryHolds' /\ TornFilesAreHealed'
      BY <2>1, SourceAssumption
         DEF StoresFit, WriterHoldsTheLoop, WholeFileIsWhatMemoryHolds, TornFilesAreHealed, Fits
    <2>4. JobsFit'
      BY <2>1 DEF JobsFit, Fits, KeyOf
    <2> QED
      BY <2>2, <2>3, <2>4
  <1>7. ASSUME Restart
        PROVE  IInv'
    <2>1. TypeOK'
      BY <1>7 DEF Restart, TypeOK
    <2>2. StoresFit' /\ WriterHoldsTheLoop' /\ WholeFileIsWhatMemoryHolds'
      BY <1>7 DEF Restart, StoresFit, WriterHoldsTheLoop, WholeFileIsWhatMemoryHolds, Fits
    <2>3. JobsFit'
      BY <1>7 DEF Restart, JobsFit
    <2>4. process' # 0
      BY <1>7 DEF Restart, TypeOK
    <2> QED
      BY <2>1, <2>2, <2>3, <2>4 DEF TornFilesAreHealed
  <1>8. ASSUME NEW j \in Job, NEW c \in Context, OpenFails(j, c)
        PROVE  IInv'
    <2> DEFINE s == SourceFor(c)
               k0 == KeyOf(c)
    <2>1. /\ s \in Module \cup {Torn} /\ s # Nothing /\ Fits(s, k0) /\ k0 \in Key
          /\ process = 0 => s # Torn
      BY SourceForFits, KeyOfType
    <2>2. disk[k0] \notin {Torn, Nothing} => memory[k0] = disk[k0] \/ s = disk[k0]
      BY <2>1 DEF SourceFor, Get, WholeFileIsWhatMemoryHolds
    <2>3. memory[k0] # Nothing => s = memory[k0]
      BY DEF SourceFor, Get
    <2>4. /\ pc[j] = "idle" /\ writer = Nobody
          /\ wanted' = [wanted EXCEPT ![j] = c]
          /\ memory' \in {memory, [memory EXCEPT ![k0] = s]}
          /\ pc' = [pc EXCEPT ![j] = "failed"]
          /\ UNCHANGED <<disk, writer, source, loaded, host, template, process>>
      BY <1>8 DEF OpenFails, engineVars
    <2>5. source[j] = Nothing /\ \A d : KeyOf(d)' = KeyOf(d)
      BY <2>4 DEF JobsFit, KeyOf
    <2> HIDE DEF s, k0
    <2>6. TypeOK'
      BY <2>1, <2>4 DEF TypeOK
    <2>7. StoresFit'
      BY <2>1, <2>4 DEF StoresFit, Fits, TypeOK
    <2>8. JobsFit'
      <3> SUFFICES ASSUME NEW i \in Job
                   PROVE  /\ pc'[i] = "idle" => loaded'[i] = Nothing /\ source'[i] = Nothing
                          /\ pc'[i] # "idle" =>
                                wanted'[i] \in Context /\ Fits(source'[i], KeyOf(wanted'[i]))
                          /\ loaded'[i] \notin {Torn, Nothing} =>
                                wanted'[i] \in Context /\ Fits(loaded'[i], KeyOf(wanted'[i]))
        BY <2>5 DEF JobsFit, Fits
      <3>1. CASE i = j
        BY <3>1, <2>4, <2>5 DEF JobsFit, TypeOK, Fits
      <3>2. CASE i # j
        BY <3>2, <2>4 DEF JobsFit, TypeOK
      <3> QED
        BY <3>1, <3>2
    <2>9. WriterHoldsTheLoop'
      BY <2>4 DEF WriterHoldsTheLoop
    <2>10. WholeFileIsWhatMemoryHolds'
      BY <2>1, <2>2, <2>3, <2>4 DEF WholeFileIsWhatMemoryHolds, TypeOK
    <2>11. TornFilesAreHealed'
      BY <2>1, <2>4 DEF TornFilesAreHealed, TypeOK
    <2> QED
      BY <2>6, <2>7, <2>8, <2>9, <2>10, <2>11
  <1>9. CASE UNCHANGED vars
    BY <1>9 DEF vars, jobVars, engineVars, TypeOK, StoresFit, JobsFit, WriterHoldsTheLoop,
               WholeFileIsWhatMemoryHolds, TornFilesAreHealed, Fits, KeyOf
  <1> QED
    BY <1>1, <1>2, <1>3, <1>4, <1>5, <1>6, <1>7, <1>8, <1>9 DEF Next

LEMMA IInvHolds == Spec => []IInv
  BY InitIInv, NextIInv, PTL DEF Spec

-----------------------------------------------------------------------------
(* The code cache's variables keep their types, through crashes inside a   *)
(* write, upgrades and clears.                                             *)
THEOREM CodeCacheTypeCorrect == Spec => []TypeOK
  <1>1. IInv => TypeOK
    BY DEF IInv
  <1> QED
    BY <1>1, IInvHolds, PTL

(* Whatever the number of runs and restarts, a child that loads a whole    *)
(* module runs its own contract against the host this process calls.       *)
THEOREM ChildrenRunTheirOwnContract == Spec => []RunsItsOwnContract
  <1>1. IInv => RunsItsOwnContract
    BY DEF IInv, JobsFit, Fits, KeyOf, RunsItsOwnContract
  <1> QED
    BY <1>1, IInvHolds, PTL

(* The copy of a module in memory and the whole module in its file, if     *)
(* there are both, never differ, whatever failed before, during or after   *)
(* the write.                                                              *)
THEOREM CopiesAgree == Spec => []WholeFileIsWhatMemoryHolds
  <1>1. IInv => WholeFileIsWhatMemoryHolds
    BY DEF IInv
  <1> QED
    BY <1>1, IInvHolds, PTL

(* In a first process no failure of the disk and no overlap of runs makes  *)
(* the cache hand out a half-written module.                               *)
THEOREM FirstProcessHeals == Spec => []TornFilesAreHealed
  <1>1. IInv => TornFilesAreHealed
    BY DEF IInv
  <1> QED
    BY <1>1, IInvHolds, PTL

-----------------------------------------------------------------------------
(* Between two upgrades: with the template as it was, the digest decides   *)
(* the generated bytes after all.                                          *)

\* Every whole module, wherever it is kept, was made from this engine's template.
Current(s) == s \notin {Torn, Nothing} => s.template = template

AllCurrent ==
    /\ \A k \in Key : Current(memory[k]) /\ Current(disk[k])
    /\ \A j \in Job : Current(source[j]) /\ Current(loaded[j])

SameTemplate == template' = template

LEMMA NextAllCurrent ==
  ASSUME IInv, AllCurrent, [Next]_vars, [SameTemplate]_vars
  PROVE  AllCurrent'
  <1>0. template' = template /\ \A s : Current(s)' <=> s \notin {Torn, Nothing} => s.template = template
    BY DEF SameTemplate, vars, engineVars, Current
  <1> SUFFICES /\ \A k \in Key : Current(memory'[k]) /\ Current(disk'[k])
               /\ \A j \in Job : Current(source'[j]) /\ Current(loaded'[j])
    BY <1>0 DEF AllCurrent, Current
  <1> USE DEF IInv, AllCurrent
  <1>1. ASSUME NEW j \in Job, NEW c \in Context, OpenForWrite(j, c)
        PROVE  /\ \A k \in Key : Current(memory'[k]) /\ Current(disk'[k])
               /\ \A i \in Job : Current(source'[i]) /\ Current(loaded'[i])
    <2>1. KeyOf(c) \in Key
      BY KeyOfType
    <2>2. Current(SourceFor(c))
      BY <2>1 DEF SourceFor, Get, Generate, Current
    <2>3. Current(Torn)
      BY DEF Current
    <2> QED
      BY <1>1, <2>1, <2>2, <2>3 DEF OpenForWrite, TypeOK
  <1>2. ASSUME NEW j \in Job, CloseFile(j)
        PROVE  /\ \A k \in Key : Current(memory'[k]) /\ Current(disk'[k])
               /\ \A i \in Job : Current(source'[i]) /\ Current(loaded'[i])
    BY <1>2 DEF CloseFile, TypeOK
  <1>3. ASSUME NEW j \in Job, WriteFails(j) \/ StartChild(j)
        PROVE  /\ \A k \in Key : Current(memory'[k]) /\ Current(disk'[k])
               /\ \A i \in Job : Current(source'[i]) /\ Current(loaded'[i])
    BY <1>3 DEF WriteFails, StartChild
  <1>4. ASSUME NEW j \in Job, ChildLoads(j)
        PROVE  /\ \A k \in Key : Current(memory'[k]) /\ Current(disk'[k])
               /\ \A i \in Job : Current(source'[i]) /\ Current(loaded'[i])
    <2>1. KeyOf(wanted[j]) \in Key
      BY <1>4, KeyOfType DEF ChildLoads, JobsFit
    <2> QED
      BY <1>4, <2>1 DEF ChildLoads, TypeOK
  <1>5. ASSUME NEW j \in Job, Forget(j)
        PROVE  /\ \A k \in Key : Current(memory'[k]) /\ Current(disk'[k])
               /\ \A i \in Job : Current(source'[i]) /\ Current(loaded'[i])
    <2>1. Current(Nothing)
      BY DEF Current
    <2> QED
      BY <1>5, <2>1 DEF Forget, TypeOK
  <1>6. ASSUME Clear
        PROVE  /\ \A k \in Key : Current(memory'[k]) /\ Current(disk'[k])
               /\ \A i \in Job : Current(source'[i]) /\ Current(loaded'[i])
    BY <1>6 DEF Clear, jobVars, Current
  <1>7. ASSUME Restart
        PROVE  /\ \A k \in Key : Current(memory'[k]) /\ Current(disk'[k])
               /\ \A i \in Job : Current(source'[i]) /\ Current(loaded'[i])
    BY <1>7 DEF Restart, Current
  <1>8. ASSUME NEW j \in Job, NEW c \in Context, OpenFails(j, c)
        PROVE  /\ \A k \in Key : Current(memory'[k]) /\ Current(disk'[k])
               /\ \A i \in Job : Current(source'[i]) /\ Current(loaded'[i])
    <2>1. KeyOf(c) \in Key
      BY KeyOfType
    <2>2. Current(SourceFor(c))
      BY <2>1 DEF SourceFor, Get, Generate, Current
    <2> QED
      BY <1>8, <2>1, <2>2 DEF OpenFails, TypeOK
  <1>9. CASE UNCHANGED vars
    BY <1>9 DEF vars, jobVars
  <1> QED
    BY <1>1, <1>2, <1>3, <1>4, <1>5, <1>6, <1>7, <1>8, <1>9 DEF Next

(* As long as no engine with another template is started on the same       *)
(* files, every child runs the very module this engine would generate:     *)
(* the template's text is the only thing that decides the bytes and is     *)
(* missing from the digest.                                                *)
THEOREM DigestDecidesWithinOneTemplate ==
  Spec /\ [][SameTemplate]_vars => []RunsThisEnginesCode
  <1>1. Init => AllCurrent
    BY DEF Init, AllCurrent, Current
  <1>2. IInv /\ AllCurrent => RunsThisEnginesCode
    <2> SUFFICES ASSUME IInv, AllCurrent, NEW j \in Job, loaded[j] \notin {Torn, Nothing}
                 PROVE  loaded[j] = Generate(wanted[j])
      BY DEF RunsThisEnginesCode
    <2>1. loaded[j] \in Module
      BY DEF IInv, TypeOK
    <2>2. loaded[j].context = wanted[j] /\ loaded[j].host = host
      BY DEF IInv, JobsFit, Fits, KeyOf
    <2>3. loaded[j].template = template
      BY DEF AllCurrent, Current
    <2> QED
      BY <2>1, <2>2, <2>3 DEF Module, Generate
  <1> QED
    BY <1>1, <1>2, NextAllCurrent, IInvHolds, PTL DEF Spec

-----------------------------------------------------------------------------
(* Restarts that leave no torn file behind.                                *)

\* No half-written module is held, and none can be taken from a file.
NoneTaken ==
    /\ \A k \in Key :
          /\ memory[k] # Torn
          /\ disk[k] = Torn => memory[k] # Nothing
    /\ \A j \in Job : source[j] # Torn

RestartsOnWholeFiles == process' # process => \A k \in Key : disk[k] # Torn

LEMMA NextNoneTaken ==
  ASSUME IInv, NoneTaken, [Next]_vars, [RestartsOnWholeFiles]_vars
  PROVE  NoneTaken'
  <1> USE DEF IInv, NoneTaken
  <1>1. ASSUME NEW j \in Job, NEW c \in Context, OpenForWrite(j, c)
        PROVE  NoneTaken'
    <2>1. KeyOf(c) \in Key
      BY KeyOfType
    <2>2. SourceFor(c) # Nothing
      BY SourceForFits
    <2>3. SourceFor(c) # Torn
      BY <2>1, GenerateFits DEF SourceFor, Get
    <2> QED
      BY <1>1, <2>1, <2>2, <2>3 DEF OpenForWrite, TypeOK
  <1>2. ASSUME NEW j \in Job, CloseFile(j)
        PROVE  NoneTaken'
    BY <1>2 DEF CloseFile, TypeOK
  <1>3. ASSUME NEW j \in Job, WriteFails(j) \/ StartChild(j) \/ ChildLoads(j)
        PROVE  NoneTaken'
    BY <1>3 DEF WriteFails, StartChild, ChildLoads
  <1>4. ASSUME NEW j \in Job, Forget(j)
        PROVE  NoneTaken'
    BY <1>4, SourceAssumption DEF Forget, TypeOK
  <1>5. ASSUME Clear
        PROVE  NoneTaken'
    BY <1>5, SourceAssumption DEF Clear, jobVars
  <1>6. ASSUME Restart
        PROVE  NoneTaken'
    <2>1. process' # process
      BY <1>6 DEF Restart, TypeOK
    <2>2. \A k \in Key : disk[k] # Torn
      BY <2>1 DEF RestartsOnWholeFiles, vars, engineVars
    <2> QED
      BY <1>6, <2>2, SourceAssumption DEF Restart
  <1>7. ASSUME NEW j \in Job, NEW c \in Context, OpenFails(j, c)
        PROVE  NoneTaken'
    <2>1. KeyOf(c) \in Key
      BY KeyOfType
    <2>2. SourceFor(c) # Nothing
      BY SourceForFits
    <2>3. SourceFor(c) # Torn
      BY <2>1, GenerateFits DEF SourceFor, Get
    <2> QED
      BY <1>7, <2>1, <2>2, <2>3 DEF OpenFails, TypeOK
  <1>8. CASE UNCHANGED vars
    BY <1>8 DEF vars, jobVars
  <1> QED
    BY <1>1, <1>2, <1>3, <1>4, <1>5, <1>6, <1>7, <1>8 DEF Next

(* A write that fails, overlaps another run or is read by a child half     *)
(* done never makes get hand out the remains of it: that takes a process   *)
(* that starts while a torn file is on the disk.                           *)
THEOREM OnlyTornRestartsHarm ==
  Spec /\ [][RestartsOnWholeFiles]_vars => []HandsOutGeneratedCode
  <1>1. Init => NoneTaken
    BY SourceAssumption DEF Init, NoneTaken
  <1>2. NoneTaken => HandsOutGeneratedCode
    BY DEF NoneTaken, HandsOutGeneratedCode
  <1> QED
    BY <1>1, <1>2, NextNoneTaken, IInvHolds, PTL DEF Spec

-----------------------------------------------------------------------------
(* The store that memory and files are together.                           *)

LEMMA StoreSteps ==
  ASSUME IInv, [Next]_vars
  PROVE  [Store!Next]_(Store!vars)
  <1> USE DEF IInv
  <1>0. SUFFICES \/ Store!Next
                 \/ UNCHANGED <<template, process>> /\ \A k \in Key : Get(k)' = Get(k)
    BY DEF Store!vars, Held
  <1>1. ASSUME NEW j \in Job, NEW c \in Context, OpenForWrite(j, c)
        PROVE  \/ Store!Next
               \/ UNCHANGED <<template, process>> /\ \A k \in Key : Get(k)' = Get(k)
    <2> DEFINE s == SourceFor(c)
               k0 == KeyOf(c)
    <2>1. s # Nothing /\ k0 \in Key
      BY SourceForFits, KeyOfType
    <2>2. /\ memory' = [memory EXCEPT ![k0] = s]
          /\ disk' = [disk EXCEPT ![k0] = Torn]
          /\ UNCHANGED <<host, template, process>>
      BY <1>1 DEF OpenForWrite, engineVars
    <2>3. s = IF Get(k0) # Nothing THEN Get(k0) ELSE Generate(c)
      BY DEF SourceFor
    <2>4. Generate(c) = Store!Module(k0)
      BY DEF Generate, Store!Module, KeyOf
    <2> HIDE DEF s, k0
    <2>5. \A k \in Key : Get(k)' = IF k = k0 THEN s ELSE Get(k)
      BY <2>1, <2>2 DEF Get, TypeOK
    <2>6. CASE Get(k0) = Nothing
      <3>1. Held' = [Held EXCEPT ![k0] = Store!Module(k0)]
        BY <2>1, <2>3, <2>4, <2>5, <2>6 DEF Held
      <3>2. Held[k0] = Nothing
        BY <2>1, <2>6 DEF Held
      <3>3. Store!Keep(k0)
        BY <2>2, <3>1, <3>2 DEF Store!Keep
      <3> QED
        BY <2>1, <3>3 DEF Store!Next
    <2>7. CASE Get(k0) # Nothing
      BY <2>2, <2>3, <2>5, <2>7
    <2> QED
      BY <2>6, <2>7
  <1>2. ASSUME NEW j \in Job, CloseFile(j)
        PROVE  UNCHANGED <<template, process>> /\ \A k \in Key : Get(k)' = Get(k)
    <2>1. /\ memory[KeyOf(wanted[j])] # Nothing
          /\ disk' = [disk EXCEPT ![KeyOf(wanted[j])] = source[j]]
          /\ UNCHANGED <<memory, template, process>>
      BY <1>2, JobAssumption DEF CloseFile, WriterHoldsTheLoop, engineVars
    <2> QED
      BY <2>1 DEF Get, TypeOK
  <1>3. ASSUME NEW j \in Job, WriteFails(j) \/ StartChild(j) \/ ChildLoads(j) \/ Forget(j)
        PROVE  UNCHANGED <<template, process>> /\ \A k \in Key : Get(k)' = Get(k)
    BY <1>3 DEF WriteFails, StartChild, ChildLoads, Forget, engineVars, Get
  <1>4. ASSUME Clear
        PROVE  Store!Next
    <2>1. \A k \in Key : Get(k)' = Nothing
      BY <1>4 DEF Clear, Get
    <2>2. Store!Clear
      BY <1>4, <2>1 DEF Clear, engineVars, Store!Clear, Held
    <2> QED
      BY <2>2 DEF Store!Next
  <1>5. ASSUME Restart
        PROVE  Store!Next
    <2> DEFINE D == {k \in Key : memory[k] # Nothing /\ disk[k] = Torn}
               L == {k \in Key : memory[k] # Nothing /\ disk[k] = Nothing}
    <2>1. \A k \in Key : Get(k)' = disk[k]
      BY <1>5 DEF Restart, Get
    <2>2. \A k \in Key : disk[k] = IF k \in D THEN Torn ELSE IF k \in L THEN Nothing ELSE Get(k)
      BY DEF WholeFileIsWhatMemoryHolds, Get
    <2>3. /\ D \in SUBSET {k \in Key : Held[k] # Nothing}
          /\ L \in SUBSET {k \in Key : Held[k] # Nothing}
      BY DEF Held, Get
    <2>4. Held' = [k \in Key |-> IF k \in D THEN Torn ELSE IF k \in L THEN Nothing ELSE Held[k]]
      BY <2>1, <2>2 DEF Held
    <2> HIDE DEF D, L
    <2>5. Store!Restart
      BY <1>5, <2>3, <2>4 DEF Restart, Store!Restart
    <2> QED
      BY <2>5 DEF Store!Next
  <1>6. ASSUME NEW j \in Job, NEW c \in Context, OpenFails(j, c)
        PROVE  \/ Store!Next
               \/ UNCHANGED <<template, process>> /\ \A k \in Key : Get(k)' = Get(k)
    <2> DEFINE s == SourceFor(c)
               k0 == KeyOf(c)
    <2>1. s # Nothing /\ k0 \in Key
      BY SourceForFits, KeyOfType
    <2>2. /\ memory' \in {memory, [memory EXCEPT ![k0] = s]}
          /\ UNCHANGED <<disk, host, template, process>>
      BY <1>6 DEF OpenFails, engineVars
    <2>3. s = IF Get(k0) # Nothing THEN Get(k0) ELSE Store!Module(k0)
      BY DEF SourceFor, Generate, Store!Module, KeyOf
    <2> HIDE DEF s, k0
    <2>4. CASE memory' = memory
      BY <2>2, <2>4 DEF Get
    <2>5. CASE memory' = [memory EXCEPT ![k0] = s]
      <3>1. \A k \in Key : Get(k)' = IF k = k0 THEN s ELSE Get(k)
        BY <2>1, <2>2, <2>5 DEF Get, TypeOK
      <3>2. CASE Get(k0) = Nothing
        <4>1. Held' = [Held EXCEPT ![k0] = Store!Module(k0)] /\ Held[k0] = Nothing
          BY <2>1, <2>3, <3>1, <3>2 DEF Held
        <4>2. Store!Keep(k0)
          BY <2>2, <4>1 DEF Store!Keep
        <4> QED
          BY <2>1, <4>2 DEF Store!Next
      <3>3. CASE Get(k0) # Nothing
        BY <2>2, <2>3, <3>1, <3>3
      <3> QED
        BY <3>2, <3>3
    <2> QED
      BY <2>2, <2>4, <2>5
  <1>7. CASE UNCHANGED vars
    BY <1>7 DEF vars, engineVars, Get
  <1> QED
    BY <1>1, <1>2, <1>3, <1>4, <1>5, <1>6, <1>7 DEF Next

(* The cache of memory and files implements the one store that Executor    *)
(* takes it for: every read, write, failure and clear of it is a step of   *)
(* ModuleStore or none, and only a restart damages or loses a module.      *)
THEOREM CacheIsOneStore == Spec => IsOneStore
  <1>1. Init => Store!Init
    <2> SUFFICES ASSUME Init PROVE Store!Init
      OBVIOUS
    <2>1. \A k \in Key : Get(k) = Nothing
      BY DEF Init, Get
    <2> QED
      BY <2>1 DEF Init, Store!Init, Held
  <1>2. IInv /\ [Next]_vars => [Store!Next]_(Store!vars)
    BY StoreSteps
  <1> QED
    BY <1>1, <1>2, IInvHolds, PTL DEF Spec, IsOneStore, Store!Spec
=============================================================================
