---------------------------- MODULE SandboxChild ----------------------------
(***************************************************************************)
(* What Executor assumes of the child process of a run: it makes one       *)
(* request at most, says "ok" only after it made it, and may say "error",  *)
(* or be killed, at any time.  HttpTool is shown to behave like this.      *)
(***************************************************************************)

VARIABLES
    child,  \* "none", "running", or "called" once its request has left
    told    \* what run_module returned for the last child

vars == <<child, told>>

Init == child = "none" /\ told = "nothing"

StartChild ==
    /\ child = "none"
    /\ child' = "running"
    /\ told' = "nothing"

ChildCalls ==
    /\ child = "running"
    /\ child' = "called"
    /\ UNCHANGED told

SandboxSucceeds ==
    /\ child = "called"
    /\ child' = "none"
    /\ told' = "ok"

SandboxFails ==
    /\ child # "none"
    /\ child' = "none"
    /\ told' = "error"

Next == StartChild \/ ChildCalls \/ SandboxSucceeds \/ SandboxFails

Spec == Init /\ [][Next]_vars
=============================================================================
