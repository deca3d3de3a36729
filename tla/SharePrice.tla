----------------------------- MODULE SharePrice -----------------------------
(***************************************************************************)
(* What the oracle updates promise, as seen from the source chain alone:   *)
(* the bot moves the price of a share up only, and never past what the     *)
(* vault's assets back.  The Safe may set any price.  Depositors pay the   *)
(* price that stands, whatever the assets are worth by then.               *)
(***************************************************************************)
EXTENDS Integers

CONSTANT ONE  \* the unit a price is counted in, 10**18 in the code

VARIABLES
  assets,  \* W0G in the SourceCore and locked in the OFT adapter
  supply,  \* shares
  price,   \* the value of the oracle
  writer   \* who wrote it last

vars == <<assets, supply, price, writer>>

\* Assets per share, rounded down: secure_value, and the contract's maxValue.
ShareValue(total, shares) == (total * ONE) \div shares

Init ==
  /\ assets \in Nat
  /\ supply \in Nat \ {0}
  /\ price \in 1 .. ShareValue(assets, supply)
  /\ writer = "safe"

Deposit ==
  /\ assets' \in Nat /\ assets' > assets
  /\ supply' = supply + ShareValue(assets' - assets, price)
  /\ UNCHANGED <<price, writer>>

Earn ==
  /\ assets' \in Nat /\ assets' > assets
  /\ UNCHANGED <<supply, price, writer>>

BotSets ==
  /\ price' \in price .. ShareValue(assets, supply)
  /\ writer' = "bot"
  /\ UNCHANGED <<assets, supply>>

SafeSets ==
  /\ price' \in Nat \ {0}
  /\ writer' = "safe"
  /\ UNCHANGED <<assets, supply>>

Next == Deposit \/ Earn \/ BotSets \/ SafeSets

Spec == Init /\ [][Next]_vars
=============================================================================
