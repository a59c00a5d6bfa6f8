------------------------------- MODULE Ingress -------------------------------
(***************************************************************************)
(* What the bridge promises of the messages Discord delivers to it, and    *)
(* nothing of how: messages are admitted while the gate is open, each may   *)
(* lead to one turn, and the mesh connection goes away only when the gate   *)
(* has closed for good and nothing is left that could use it.  Bridge       *)
(* implements this specification.                                           *)
(***************************************************************************)
CONSTANT Arrivals              \* deliveries of messages

VARIABLES gate,                \* ingress: not open yet, open, closed for good
          turn,                \* what became of each arrival
          mesh                 \* the connection every turn works over

vars == <<gate, turn, mesh>>

Gates == {"shut", "open", "closed"}

TypeOK ==
  /\ gate \in Gates
  /\ turn \in [Arrivals -> {"new", "admitted", "running", "over"}]
  /\ mesh \in {"up", "down"}

Init ==
  /\ gate = "shut"
  /\ turn = [a \in Arrivals |-> "new"]
  /\ mesh = "up"

Open ==
  /\ gate = "shut"
  /\ gate' = "open"
  /\ UNCHANGED <<turn, mesh>>

Close ==
  /\ gate # "closed"
  /\ gate' = "closed"
  /\ UNCHANGED <<turn, mesh>>

(* A message is routed at once, or after something it has to wait for. *)
Admit(a) ==
  /\ gate = "open"
  /\ turn[a] = "new"
  /\ \E stage \in {"admitted", "running", "over"} : turn' = [turn EXCEPT ![a] = stage]
  /\ UNCHANGED <<gate, mesh>>

Begin(a) ==
  /\ mesh = "up"
  /\ turn[a] = "admitted"
  /\ turn' = [turn EXCEPT ![a] = "running"]
  /\ UNCHANGED <<gate, mesh>>

End(a) ==
  /\ turn[a] = "running"
  /\ turn' = [turn EXCEPT ![a] = "over"]
  /\ UNCHANGED <<gate, mesh>>

(* Admitted messages end one by one without a turn, or all at once. *)
GiveUp ==
  /\ \E A \in SUBSET {a \in Arrivals : turn[a] = "admitted"} :
       turn' = [a \in Arrivals |-> IF a \in A THEN "over" ELSE turn[a]]
  /\ UNCHANGED <<gate, mesh>>

Disconnect ==
  /\ gate = "closed"
  /\ \A a \in Arrivals : turn[a] \in {"new", "over"}
  /\ mesh' = "down"
  /\ UNCHANGED <<gate, turn>>

Next ==
  \/ Open \/ Close \/ GiveUp \/ Disconnect
  \/ \E a \in Arrivals : Admit(a) \/ Begin(a) \/ End(a)

Spec == Init /\ [][Next]_vars
=============================================================================
