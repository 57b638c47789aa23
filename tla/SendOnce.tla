------------------------------ MODULE SendOnce ------------------------------
(***************************************************************************)
(* What the delivery of notification rows promises of one channel, email   *)
(* or push: at any time one transaction at most has a row in hand; what it *)
(* sent counts for good once the stamp is committed, and a row whose       *)
(* transaction was lost is due again, at the price of that loss.           *)
(***************************************************************************)
EXTENDS Naturals

CONSTANT Rows

VARIABLES
  phase,  \* phase[r]: "none", "due", "handled" by a transaction still open, or "done"
  sent,   \* sent[r]: how often the channel was used for r
  lost    \* lost[r]: transactions lost after handling r

onceVars == <<phase, sent, lost>>

OnceInit ==
  /\ phase = [r \in Rows |-> "none"]
  /\ sent = [r \in Rows |-> 0] /\ lost = [r \in Rows |-> 0]

(* The rows are committed. *)
Make(S) ==
  /\ \A r \in S : phase[r] = "none"
  /\ phase' = [r \in Rows |-> IF r \in S THEN "due" ELSE phase[r]]
  /\ UNCHANGED <<sent, lost>>

(* A transaction takes care of a due row: it sends, or finds that nothing
   is wanted. *)
Handle(r) ==
  /\ phase[r] = "due"
  /\ phase' = [phase EXCEPT ![r] = "handled"]
  /\ \E n \in {0, 1} : sent' = [sent EXCEPT ![r] = @ + n]
  /\ UNCHANGED lost

(* The commit: the stamps are there to stay. *)
Stamp(S) ==
  /\ \A r \in S : phase[r] = "handled"
  /\ phase' = [r \in Rows |-> IF r \in S THEN "done" ELSE phase[r]]
  /\ UNCHANGED <<sent, lost>>

(* The rollback.  Some of the rows may have been handled for the other
   channel only. *)
Lose(S) ==
  /\ phase' = [r \in Rows |-> IF r \in S /\ phase[r] = "handled" THEN "due" ELSE phase[r]]
  /\ lost' = [r \in Rows |-> IF r \in S THEN lost[r] + 1 ELSE lost[r]]
  /\ UNCHANGED sent

OnceNext ==
  \/ \E S \in SUBSET Rows : Make(S) \/ Stamp(S) \/ Lose(S)
  \/ \E r \in Rows : Handle(r)

OnceSpec == OnceInit /\ [][OnceNext]_onceVars

(* One message for a row, and one more for each transaction lost with it. *)
AtMostOnce == \A r \in Rows : sent[r] <= 1 + lost[r]
=============================================================================
