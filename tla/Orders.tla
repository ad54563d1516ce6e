------------------------------- MODULE Orders -------------------------------
(***************************************************************************)
(* The sealed intents of a run and what the enclave and the orchestrator   *)
(* read off them.  An intent is identified with its handle; its sealed     *)
(* price and quantity are constants, known to the enclave alone, and its   *)
(* lock descriptor is derived from them at seal time.                      *)
(*                                                                         *)
(* Prices and quantities are the contract's integers, the value times the  *)
(* wire scale.  Cash is counted in products of the two, so that what a     *)
(* settlement charges is exact: one unit of cash on the wire is WireScale  *)
(* of these.                                                               *)
(***************************************************************************)
EXTENDS MatchContract

CONSTANTS
  Intents,
  Institutions,
  Assets,
  Cash,           \* the settlement asset, USDC
  InstitutionOf,  \* who submitted the intent
  SideOf,         \* "buy" or "sell"
  AssetOf,        \* the traded asset
  Quantity,
  Limit,          \* the bid or ask price
  WireScale       \* wire units in one whole unit, 10^18

ASSUME OrdersAssumption ==
  /\ Cash \in Assets
  /\ InstitutionOf \in [Intents -> Institutions]
  /\ SideOf \in [Intents -> {"buy", "sell"}]
  /\ AssetOf \in [Intents -> Assets \ {Cash}]
  /\ Quantity \in [Intents -> Nat \ {0}]
  /\ Limit \in [Intents -> Nat \ {0}]
  /\ WireScale \in Nat \ {0}

Accounts == Institutions \X Assets
CashOf(i) == <<InstitutionOf[i], Cash>>
HoldingOf(i) == <<InstitutionOf[i], AssetOf[i]>>

-----------------------------------------------------------------------------
\* An amount of cash as the wire can carry it: the product is divided by the
\* scale, and the rest dropped.
Truncated(amount) == (amount \div WireScale) * WireScale

\* The lock descriptor of seal_intent: a bid reserves quantity * price of
\* cash, as far as the wire can carry it, an ask its quantity of the asset.
ReservedAccount(i) == IF SideOf[i] = "buy" THEN CashOf(i) ELSE HoldingOf(i)
Reservation(i) ==
  IF SideOf[i] = "buy" THEN Truncated(Quantity[i] * Limit[i]) ELSE Quantity[i]

\* checked_mul: a bid whose product does not fit a word is not sealed.
Sealable(i) == SideOf[i] = "buy" => Quantity[i] * Limit[i] <= MaxWord

\* The orchestrator's local filter: another institution, the same asset, the
\* other side.
Counterparts(i, j) ==
  /\ i # j
  /\ InstitutionOf[i] # InstitutionOf[j]
  /\ AssetOf[i] = AssetOf[j]
  /\ SideOf[i] # SideOf[j]

BuyerOf(i, j) == IF SideOf[i] = "buy" THEN i ELSE j
SellerOf(i, j) == IF SideOf[i] = "sell" THEN i ELSE j

\* What the contract decides on a bid and an ask, and what settling it costs:
\* the database multiplies without truncating.
PairCrosses(b, s) == Crosses(Limit[b], Quantity[b], Limit[s], Quantity[s])
Price(b, s) == Midpoint(Limit[b], Limit[s])
Fill(b, s) == MatchedQuantity(Quantity[b], Quantity[s])
Cost(b, s) == Fill(b, s) * Price(b, s)

\* Bids and asks that may be paired at all.
Pairs == {p \in Intents \X Intents :
            /\ Counterparts(p[1], p[2])
            /\ SideOf[p[1]] = "buy"}
=============================================================================
