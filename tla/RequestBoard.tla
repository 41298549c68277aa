---------------------------- MODULE RequestBoard -----------------------------
(***************************************************************************)
(* What ResourceManager.h promises of the futures it hands out: a request  *)
(* that was made resolves, once, with an answer for every file it asked    *)
(* about.                                                                  *)
(***************************************************************************)
CONSTANTS
  Requests, \* the calls made
  Files,    \* virtual paths
  Wants     \* Requests -> SUBSET Files: what each call asks about

VARIABLES
  status,   \* "new", "pending" or "resolved"
  answered  \* the files a resolved request's list has an entry for

vars == <<status, answered>>

Init ==
  /\ status = [r \in Requests |-> "new"]
  /\ answered = [r \in Requests |-> {}]

(* The call returns its future; a future over a cached resource is ready.  *)
Submit(r) ==
  /\ status[r] = "new"
  /\ \/ status' = [status EXCEPT ![r] = "pending"] /\ UNCHANGED answered
     \/ /\ status' = [status EXCEPT ![r] = "resolved"]
        /\ answered' = [answered EXCEPT ![r] = Wants[r]]

Resolve(r) ==
  /\ status[r] = "pending"
  /\ status' = [status EXCEPT ![r] = "resolved"]
  /\ answered' = [answered EXCEPT ![r] = Wants[r]]

Next == \E r \in Requests : Submit(r) \/ Resolve(r)

Spec == Init /\ [][Next]_vars /\ \A r \in Requests : WF_vars(Resolve(r))
==============================================================================
