---------------------------- MODULE HidOperations ----------------------------
(***************************************************************************)
(* What the driver promises about the operations HID clients start on a    *)
(* virtual device: each is offered to the user-mode client at most once,   *)
(* the client's answer counts only while the operation is on offer, and    *)
(* every operation gets exactly one outcome - the client's answer, a       *)
(* refusal by the driver before it was offered, or the cancellation of     *)
(* everything on offer in one step when the device's file closes.  After   *)
(* that nothing is offered any more and late operations are refused.       *)
(***************************************************************************)
CONSTANT Requests

VARIABLES
    state,  \* state[r]: how far operation r got
    open    \* the device still takes operations

vars == <<state, open>>

States == {"new", "asked", "offered", "answered", "refused", "cancelled"}

Init ==
    /\ state = [r \in Requests |-> "new"]
    /\ open = TRUE

Move(r, from, to) ==
    /\ state[r] = from
    /\ state' = [state EXCEPT ![r] = to]
    /\ UNCHANGED open

\* A HID client starts an operation; it may do so until the device is gone.
Ask(r) == Move(r, "new", "asked")

\* The client is handed the operation's event.
Offer(r) == open /\ Move(r, "asked", "offered")

\* The client's answer becomes the outcome.
Answer(r) == open /\ Move(r, "offered", "answered")

\* The driver cannot take the operation.
Refuse(r) == Move(r, "asked", "refused")

\* Every operation on offer is cancelled, and any number of those that are not
\* on offer yet; the others are about to be refused.
Close ==
    /\ open
    /\ open' = FALSE
    /\ \E C \in SUBSET {r \in Requests : state[r] \in {"asked", "offered"}} :
          /\ \A r \in Requests : state[r] = "offered" => r \in C
          /\ state' = [r \in Requests |-> IF r \in C THEN "cancelled" ELSE state[r]]

Next ==
    \/ \E r \in Requests :
          Ask(r) \/ Offer(r) \/ Answer(r) \/ Refuse(r)
    \/ Close

\* An operation that comes too late does get its refusal.
Spec ==
    /\ Init
    /\ [][Next]_vars
    /\ \A r \in Requests : WF_vars(~open /\ Refuse(r))

=============================================================================
