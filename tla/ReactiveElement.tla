-------------------------- MODULE ReactiveElement ---------------------------
(***************************************************************************)
(* The update cycle of a Lit element, as in the bundle that the broker     *)
(* serves (src/broker/internal/broker/web/agent.js): setting a reactive    *)
(* property asks for an update, the update runs in a microtask of its own  *)
(* and draws the element, and its callbacks may set properties again.      *)
(***************************************************************************)
EXTENDS FiniteSets

VARIABLES
  enabled,          \* the element has been on the page
  isUpdatePending,
  hasUpdated,
  changed           \* the properties that were set since the last update

cycleVars == <<enabled, isUpdatePending, hasUpdated, changed>>

(* The constructor: the initial values are set like any other.             *)
CycleInit(initial) ==
  /\ enabled = FALSE
  /\ isUpdatePending = TRUE
  /\ hasUpdated = FALSE
  /\ changed = initial

(* requestUpdate, for the properties whose value is another one            *)
RequestUpdate(props) ==
  /\ changed' = changed \cup props
  /\ isUpdatePending' = (isUpdatePending \/ props # {})
  /\ UNCHANGED <<enabled, hasUpdated>>

(* attributeChangedCallback: the property of the attribute is set.         *)
AttributeChanged(props) == RequestUpdate(props)

(* connectedCallback: the first update waits for it.                       *)
Connected ==
  /\ ~ enabled
  /\ enabled' = TRUE
  /\ UNCHANGED <<isUpdatePending, hasUpdated, changed>>

MayUpdate == enabled /\ isUpdatePending

(* mutant: the flag is cleared behind the callbacks, not before them *)
UpdatedForGood(setByCallbacks) ==
  /\ hasUpdated' = TRUE
  /\ changed' = setByCallbacks
  /\ isUpdatePending' = FALSE
  /\ UNCHANGED enabled

(* performUpdate: what the callbacks set is for an update of its own.      *)
Updated(setByCallbacks) ==
  /\ hasUpdated' = TRUE
  /\ changed' = setByCallbacks
  /\ isUpdatePending' = (setByCallbacks # {})
  /\ UNCHANGED enabled
=============================================================================
