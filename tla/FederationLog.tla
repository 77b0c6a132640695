--------------------------- MODULE FederationLog ---------------------------
(***************************************************************************)
(* What federated averaging promises to the workers, whatever crashes and  *)
(* timeouts there are: global models are numbered by round, a number is    *)
(* published once and after all smaller ones, and no worker goes back to a *)
(* global model it has adopted before, or to an older one.                 *)
(***************************************************************************)
EXTENDS Integers

CONSTANTS Worker,
          Round    \* the numbers a round can have

VARIABLES
  published,  \* rounds whose global model exists
  adopted     \* the round each worker's actor last came from, -1 for none

Init == published = {} /\ adopted = [w \in Worker |-> -1]

Publish(r) ==
  /\ \A q \in published : q < r
  /\ published' = published \cup {r}
  /\ UNCHANGED adopted

Adopt(w, r) ==
  /\ r \in published /\ adopted[w] < r
  /\ adopted' = [adopted EXCEPT ![w] = r]
  /\ UNCHANGED published

Next == \/ \E r \in Round : Publish(r)
        \/ \E w \in Worker, r \in Round : Adopt(w, r)

Spec == Init /\ [][Next]_<<published, adopted>>
=============================================================================
