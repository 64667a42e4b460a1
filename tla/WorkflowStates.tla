---------------------------- MODULE WorkflowStates ----------------------------
(***************************************************************************)
(* The workflow state machine of one run (app/core/states.py): the states, *)
(* the terminal ones, and the transitions the table _ALLOWED permits.      *)
(***************************************************************************)

WorkflowState ==
  { "IDLE", "INTAKE", "ARCHITECTING", "WAITING_ARCHITECT_APPROVAL",
    "EXECUTING", "WORKER_WAITING_HUMAN", "SUPERVISING",
    "WAITING_FINAL_APPROVAL", "REVISION", "COMPLETED", "REJECTED", "FAILED" }

TerminalStates == {"COMPLETED", "REJECTED", "FAILED"}

\* _ALLOWED: the legal successors of each state.
Allowed ==
  [ IDLE                       |-> {"INTAKE", "FAILED"},
    INTAKE                     |-> {"ARCHITECTING", "FAILED"},
    ARCHITECTING               |-> {"WAITING_ARCHITECT_APPROVAL", "FAILED"},
    WAITING_ARCHITECT_APPROVAL |-> {"ARCHITECTING", "EXECUTING", "REJECTED", "FAILED"},
    EXECUTING                  |-> {"EXECUTING", "WORKER_WAITING_HUMAN", "SUPERVISING", "FAILED"},
    WORKER_WAITING_HUMAN       |-> {"EXECUTING", "REVISION", "FAILED"},
    SUPERVISING                |-> {"WAITING_FINAL_APPROVAL", "REVISION", "FAILED"},
    WAITING_FINAL_APPROVAL     |-> {"REVISION", "COMPLETED", "REJECTED", "FAILED"},
    REVISION                   |-> {"ARCHITECTING", "EXECUTING", "SUPERVISING", "FAILED"},
    COMPLETED                  |-> {},
    REJECTED                   |-> {},
    FAILED                     |-> {} ]

\* Faulty: a terminal state may be left again.
TransitionAllowedReopening(current, target) ==
  target \in Allowed[current] \/ (current \in TerminalStates /\ target \notin TerminalStates)

TransitionAllowed(current, target) == target \in Allowed[current]
===============================================================================
