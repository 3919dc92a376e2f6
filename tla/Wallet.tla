-------------------------------- MODULE Wallet --------------------------------
(***************************************************************************)
(* What the virtual wallets of the model families promise, whatever tables,*)
(* policies and processes keep them: money is staked only from what is     *)
(* free, a batch of wagers is staked whole or not at all, and each wager   *)
(* leaves the wallet once, as a pay-out or as a refund, and never returns. *)
(***************************************************************************)
EXTENDS Integers, FiniteSets, Functions

CONSTANTS
  Family,   \* the model families, one wallet each
  Wager,    \* identities of wagers
  Opening   \* the opening balance, in cents

VARIABLES
  free,     \* cents not staked, by family
  open,     \* the wagers in play
  closed    \* identities of the wagers that were paid or refunded
vars == <<free, open, closed>>

Amount(W, f) == SumFunction([w \in {x \in W : x.family = f} |-> w.stake])
Known == {w.id : w \in open} \union closed

Init == /\ free = [f \in Family |-> Opening]
        /\ open = {}
        /\ closed = {}

(* The wagers W are staked together. *)
Stake(W) ==
  /\ W # {}
  /\ \A w \in W : w.stake > 0 /\ w.id \in Wager \ Known
  /\ \A v, w \in W : v.id = w.id => v = w
  /\ \A f \in Family : Amount(W, f) <= free[f]
  /\ free' = [f \in Family |-> free[f] - Amount(W, f)]
  /\ open' = open \union W
  /\ UNCHANGED closed

(* Wagers W leave the wallet and give back some cents, none when lost; no  *)
(* other family is touched.                                                *)
Close(W) ==
  /\ W # {} /\ W \subseteq open
  /\ open' = open \ W
  /\ closed' = closed \union {w.id : w \in W}
  /\ DOMAIN free' = Family
  /\ \A f \in Family : IF \E w \in W : w.family = f THEN free'[f] >= free[f]
                                                    ELSE free'[f] = free[f]

Next == Stake(open' \ open) \/ Close(open \ open')

Spec == Init /\ [][Next]_vars
==============================================================================
