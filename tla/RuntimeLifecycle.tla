-------------------------- MODULE RuntimeLifecycle --------------------------
(***************************************************************************)
(* The lifecycle of a ModelRuntimeHandle: its states and the transitions   *)
(* that _transition_locked lets through.                                   *)
(***************************************************************************)
LifecycleStates ==
  {"CREATED", "LOADING", "READY", "RESET_REQUIRED", "RESETTING",
   "FAILED", "CLOSING", "CLOSED"}

\* _LEGAL_TRANSITIONS
LegalTransitions ==
  [ CREATED        |-> {"LOADING", "CLOSING"},
    LOADING        |-> {"READY", "FAILED", "CLOSING"},
    READY          |-> {"RESET_REQUIRED", "RESETTING", "FAILED", "CLOSING"},
    RESET_REQUIRED |-> {"RESETTING", "FAILED", "CLOSING"},
    RESETTING      |-> {"READY", "RESET_REQUIRED", "FAILED", "CLOSING"},
    FAILED         |-> {"CLOSING"},
    CLOSING        |-> {"CLOSED"},
    CLOSED         |-> {} ]
=============================================================================
