------------------------------ MODULE RunTrace ------------------------------
(***************************************************************************)
(* What Executor.run promises to whoever watches its stage events: a run   *)
(* that returns has emitted exactly one of a few sequences of events, and  *)
(* the outcome it returns is the one that sequence stands for.  A run that *)
(* never returns (its sink raised, it was cancelled, its process died) has *)
(* emitted a prefix of one of them.                                        *)
(***************************************************************************)
EXTENDS Sequences, SequencesExt

CONSTANT Run

VARIABLES
    trace,    \* the events each run has emitted so far, in seq order
    outcome   \* "none" until a run ends, then its status or "aborted"

(* The surface event is sent only for a contract that declares one: then   *)
(* the tree comes right after selection and the data right after the       *)
(* result.                                                                 *)
Shown(s) == IF s THEN <<"surface">> ELSE << >>

Opening(s) == <<"contract_selected">> \o Shown(s)

Answer(s) == <<"result">> \o Shown(s)

Ran(s) == Opening(s) \o <<"code_generated", "executing">>

Story(status, events) == [status |-> status, events |-> events]

Stories ==
    {Story("error", <<"error">>)} \cup
    UNION { {Story("ok", Opening(s) \o <<"cache_hit">> \o Answer(s) \o <<"done">>),
             Story("proposed", Opening(s) \o <<"proposal", "done">>),
             Story("error", Opening(s) \o <<"error">>),
             Story("error", Ran(s) \o <<"error", "done">>),
             Story("ok", Ran(s) \o Answer(s) \o <<"done">>),
             Story("ok", Ran(s) \o Answer(s) \o <<"cache_store", "done">>)}
            : s \in BOOLEAN }

-----------------------------------------------------------------------------
Init ==
    /\ trace = [r \in Run |-> << >>]
    /\ outcome = [r \in Run |-> "none"]

Emit(r) ==
    /\ outcome[r] = "none"
    /\ \E s \in Stories :
          /\ Len(trace[r]) < Len(s.events)
          /\ IsPrefix(trace[r], s.events)
          /\ trace' = [trace EXCEPT ![r] = Append(@, s.events[Len(@) + 1])]
    /\ UNCHANGED outcome

Return(r) ==
    /\ outcome[r] = "none"
    /\ \E s \in Stories :
          /\ trace[r] = s.events
          /\ outcome' = [outcome EXCEPT ![r] = s.status]
    /\ UNCHANGED trace

\* One run is cut short, or all that are under way.
Abort(R) ==
    /\ \A r \in R : outcome[r] = "none"
    /\ outcome' = [r \in Run |-> IF r \in R THEN "aborted" ELSE outcome[r]]
    /\ UNCHANGED trace

Next ==
    \/ \E r \in Run : Emit(r) \/ Return(r)
    \/ \E R \in SUBSET Run : Abort(R)

Spec == Init /\ [][Next]_<<trace, outcome>>

=============================================================================
