--------------------------- MODULE MessageDelivery ---------------------------
(***************************************************************************)
(* What a team session promises about the rows of its mailbox, whatever    *)
(* the coordinator, the event loops, the senders and the canceller do in   *)
(* between: an abstract view of session.rs, event_loop.rs and mailbox.rs.  *)
(*                                                                         *)
(* A row stays unread until a turn that was prompted with it has ended, or *)
(* its work ends without one: a rejected sender, a cancelled run, a failed *)
(* runtime, a turn that could not start, a batch that claimed it after its *)
(* prompt was read.  A crash loses the turns, never a row.                 *)
(***************************************************************************)
CONSTANTS Slots, Messages

VARIABLES
  box,      \* box[s]: the unread rows of slot s
  prompt,   \* prompt[s]: the rows the turn in progress was prompted with
  ended     \* the rows whose work ended without a turn

deliveryVars == <<box, prompt, ended>>

DeliveryInit ==
  /\ box = [s \in Slots |-> {}]
  /\ prompt = [s \in Slots |-> {}]
  /\ ended = {}

Write(s, m) ==
  /\ \A t \in Slots : m \notin box[t] \cup prompt[t]
  /\ m \notin ended
  /\ box' = [box EXCEPT ![s] = @ \cup {m}]
  /\ UNCHANGED <<prompt, ended>>

(* One turn at a time, and never about a row an earlier turn has settled.  *)
(* It may be prompted with a row whose work ended while it was claimed.    *)
BeginTurn(s, S) ==
  /\ prompt[s] = {}
  /\ S # {}
  /\ S \subseteq box[s] \cup ended
  /\ prompt' = [prompt EXCEPT ![s] = S]
  /\ UNCHANGED <<box, ended>>

(* The rows are marked read, or the write fails and they are served again. *)
EndTurn(s) ==
  /\ prompt[s] # {}
  /\ prompt' = [prompt EXCEPT ![s] = {}]
  /\ \/ \E S \in SUBSET ended : box' = [box EXCEPT ![s] = @ \ (prompt[s] \cup S)]
     \/ UNCHANGED box
  /\ UNCHANGED ended

EndWork(S) ==
  /\ ended' = ended \cup S
  /\ UNCHANGED <<box, prompt>>

(* Rows whose work ended are marked read, whichever slots they are of.     *)
Drop(S) ==
  /\ S \subseteq ended
  /\ box' = [s \in Slots |-> box[s] \ S]
  /\ UNCHANGED <<prompt, ended>>

Crash ==
  /\ prompt' = [s \in Slots |-> {}]
  /\ UNCHANGED <<box, ended>>

DeliveryNext ==
  \/ \E s \in Slots, m \in Messages : Write(s, m)
  \/ \E s \in Slots, S \in SUBSET Messages : BeginTurn(s, S)
  \/ \E s \in Slots : EndTurn(s)
  \/ \E S \in SUBSET Messages : EndWork(S) \/ Drop(S)
  \/ Crash

DeliverySpec == DeliveryInit /\ [][DeliveryNext]_deliveryVars
==============================================================================
