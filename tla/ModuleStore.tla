---------------------------- MODULE ModuleStore ----------------------------
(***************************************************************************)
(* What the code cache is meant to be, and what Executor takes it for: one *)
(* store of modules, in which a module is kept when it is first generated  *)
(* and stays as it is until the store is cleared.  That there are two      *)
(* copies, that a file is written in two steps, and that it may not be     *)
(* written at all, is not seen from here; all that it may cost is that a   *)
(* restart finds a module damaged or gone.                                 *)
(***************************************************************************)
EXTENDS Naturals

CONSTANTS
    Key,       \* records with a context and a host: what the digest covers
    Template,  \* texts of the template shipped with an engine
    Nothing,   \* no module
    Torn       \* the remains of an interrupted write

VARIABLES
    held,      \* the module kept under each key
    template,  \* the template this engine ships
    process    \* restarts so far

vars == <<held, template, process>>

Module(k) == [context |-> k.context, host |-> k.host, template |-> template]

Init ==
    /\ held = [k \in Key |-> Nothing]
    /\ template \in Template
    /\ process = 0

Keep(k) ==
    /\ held[k] = Nothing
    /\ held' = [held EXCEPT ![k] = Module(k)]
    /\ UNCHANGED <<template, process>>

Clear ==
    /\ held' = [k \in Key |-> Nothing]
    /\ UNCHANGED <<template, process>>

\* Of the modules kept, those in D were being written or their last write failed,
\* and those in L never got as far as a file.
Restart ==
    /\ process' = process + 1
    /\ template' \in Template
    /\ \E D \in SUBSET {k \in Key : held[k] # Nothing} :
       \E L \in SUBSET {k \in Key : held[k] # Nothing} :
          held' = [k \in Key |-> IF k \in D THEN Torn
                                 ELSE IF k \in L THEN Nothing ELSE held[k]]

Next == (\E k \in Key : Keep(k)) \/ Clear \/ Restart

Spec == Init /\ [][Next]_vars
=============================================================================
