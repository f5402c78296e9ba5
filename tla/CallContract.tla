---------------------------- MODULE CallContract ----------------------------
(***************************************************************************)
(* What a caller of api.Client may rely on, without retries, timeouts or   *)
(* connections.  A call takes effect at the server zero or more times;     *)
(* each effect is named by a token.  When the call has ended, its outcome  *)
(* says how much the caller knows:                                         *)
(*                                                                         *)
(*   "applied"      the call took effect exactly once, and never will again*)
(*   "refused"      the call took no effect, and never will                *)
(*   "atLeastOnce"  it took effect, perhaps again, perhaps again later     *)
(*   "unknown"      nothing is known, and an effect may still be on its way*)
(*                                                                         *)
(* The error values of api.Client do not spell these four out: HttpClient  *)
(* shows which of its results means which.                                 *)
(***************************************************************************)
CONSTANTS Calls, Tokens

VARIABLES outcome, effects

contractVars == <<outcome, effects>>

Ends == {"applied", "refused", "atLeastOnce", "unknown"}

ContractTypeOK ==
  /\ outcome \in [Calls -> {"idle", "open"} \cup Ends]
  /\ effects \in [Calls -> SUBSET Tokens]

ContractInit ==
  /\ outcome = [c \in Calls |-> "idle"]
  /\ effects = [c \in Calls |-> {}]

Open(c) ==
  /\ outcome[c] = "idle"
  /\ outcome' = [outcome EXCEPT ![c] = "open"]
  /\ UNCHANGED effects

(* An effect may come late, after the caller has been answered, but only   *)
(* when the answer left room for it.                                       *)
Effect(c, t) ==
  /\ outcome[c] \in {"open", "atLeastOnce", "unknown"}
  /\ t \notin effects[c]
  /\ effects' = [effects EXCEPT ![c] = @ \cup {t}]
  /\ UNCHANGED outcome

Justified(c, o) ==
  /\ o = "applied"     => \E t \in Tokens : effects[c] = {t}
  /\ o = "refused"     => effects[c] = {}
  /\ o = "atLeastOnce" => effects[c] # {}

End(c, o) ==
  /\ outcome[c] \in {"idle", "open"}
  /\ Justified(c, o)
  /\ outcome' = [outcome EXCEPT ![c] = o]
  /\ UNCHANGED effects

ContractNext ==
  \E c \in Calls :
    \/ Open(c)
    \/ \E t \in Tokens : Effect(c, t)
    \/ \E o \in Ends : End(c, o)

ContractSpec == ContractInit /\ [][ContractNext]_contractVars
=============================================================================
