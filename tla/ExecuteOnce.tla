------------------------------ MODULE ExecuteOnce ------------------------------
(***************************************************************************)
(* What the execution lease promises for one idempotency key               *)
(* (docs/IMPLEMENTATION_STATUS.md:41-42,120), however often the same work  *)
(* is asked for: its code is handed to a backend once at most, one outcome *)
(* is settled on, and every call that returns reports that outcome.        *)
(***************************************************************************)
CONSTANTS
  Calls,  \* the times the work is asked for
  None

Outcome == {"success", "failure"}

VARIABLES
  owner,    \* the call the key belongs to
  runners,  \* the calls that handed the code to a backend
  settled,  \* the outcome of the key
  told      \* told[c]: the outcome call c returned

promiseVars == <<owner, runners, settled, told>>

Init ==
  /\ owner = None
  /\ runners = {}
  /\ settled = None
  /\ told = [c \in Calls |-> None]

Claim(c) ==
  /\ owner = None
  /\ owner' = c
  /\ UNCHANGED <<runners, settled, told>>

\* The key may change hands only before the code has gone out.
GiveBack ==
  /\ runners = {}
  /\ settled = None
  /\ owner' = None
  /\ UNCHANGED <<runners, settled, told>>

Run ==
  /\ owner # None
  /\ runners = {}
  /\ settled = None
  /\ runners' = {owner}
  /\ UNCHANGED <<owner, settled, told>>

Settle(outcome) ==
  /\ owner # None
  /\ settled = None
  /\ settled' = outcome
  /\ UNCHANGED <<owner, runners, told>>

Tell(c) ==
  /\ settled # None
  /\ told' = [told EXCEPT ![c] = settled]
  /\ UNCHANGED <<owner, runners, settled>>

Next ==
  \/ \E c \in Calls : Claim(c) \/ Tell(c)
  \/ GiveBack
  \/ Run
  \/ \E outcome \in Outcome : Settle(outcome)

Spec == Init /\ [][Next]_promiseVars
===============================================================================
