----------------------- MODULE NegotiationTurnsProofs -----------------------
(* What the run of NegotiationTurns checks, for any mandates, any LLM and  *)
(* any number of rounds.                                                   *)
EXTENDS NegotiationTurns, SequenceTheorems, WellFoundedInduction, TLAPS

-----------------------------------------------------------------------------
(* Rounding.                                                               *)

LEMMA RoundTen ==
  ASSUME NEW p \in Nat
  PROVE  /\ HalfUp(p, 10) \in Nat
         /\ 10 * HalfUp(p, 10) <= p + 5
         /\ p <= 10 * HalfUp(p, 10) + 4
  BY DEF HalfUp

LEMMA RoundTenExact ==
  ASSUME NEW p \in Nat
  PROVE  HalfUp(10 * p, 10) = p
  BY DEF HalfUp

\* Math.round of a quotient, by what it is multiplied with.
LEMMA DivBounds ==
  ASSUME NEW a \in Nat, NEW b \in Nat \ {0}
  PROVE  /\ a \div b \in Nat
         /\ b * (a \div b) <= a
         /\ a < b * (a \div b) + b
  BY SMTT(30)

LEMMA HalfUpBounds ==
  ASSUME NEW a \in Nat, NEW b \in Nat \ {0}
  PROVE  /\ HalfUp(a, b) \in Nat
         /\ 2 * (b * HalfUp(a, b)) <= 2 * a + b
         /\ 2 * a < 2 * (b * HalfUp(a, b)) + b
  <1> DEFINE d == (2 * a + b) \div (2 * b)
  <1>1. 2 * a + b \in Nat /\ 2 * b \in Nat \ {0}
    OBVIOUS
  <1>2. d \in Nat /\ (2 * b) * d <= 2 * a + b /\ 2 * a + b < (2 * b) * d + 2 * b
    BY <1>1, DivBounds
  <1>3. HalfUp(a, b) = d
    BY DEF HalfUp
  <1> HIDE DEF d
  <1>4. (2 * b) * d = 2 * (b * d)
    BY <1>2
  <1>5. QED  BY <1>2, <1>3, <1>4

LEMMA HalfUpLeast ==
  ASSUME NEW a \in Nat, NEW b \in Nat \ {0}, NEW k \in Nat, 2 * a + b < 2 * (b * k) + 2 * b
  PROVE  HalfUp(a, b) <= k
  <1> DEFINE h == HalfUp(a, b)
  <1>1. h \in Nat /\ 2 * (b * h) <= 2 * a + b
    BY HalfUpBounds
  <1> HIDE DEF h
  <1>2. ASSUME h >= k + 1  PROVE FALSE
    <2>1. b * h >= b * (k + 1)
      BY <1>1, <1>2
    <2>2. b * (k + 1) = b * k + b
      OBVIOUS
    <2>3. b * h \in Nat /\ b * k \in Nat
      BY <1>1
    <2>4. QED  BY <1>1, <2>1, <2>2, <2>3
  <1>3. h <= k
    BY <1>1, <1>2
  <1>4. QED  BY <1>3 DEF h

-----------------------------------------------------------------------------
(* Rails.                                                                  *)

\* No style and no urgency opens the band beyond 4% of the anchor.
LEMMA BandRange ==
  ASSUME NEW style \in Styles, NEW urgency \in Urgencies
  PROVE  PriceBandBps[style][urgency] \in 0 .. 400
  <1> DEFINE sum  == StyleLean[style] + UrgencyLean[urgency]
             lean == IF sum > 0 THEN sum ELSE 0
             band == BaseBandBps * StyleBand[style] * (1000 + 6 * lean)
  <1>1. StyleBand[style] \in {5, 6, 7, 10, 16} /\ StyleLean[style] \in -20 .. 30
    BY DEF Styles, StyleBand, StyleLean
  <1>2. UrgencyLean[urgency] \in -30 .. 60
    BY DEF Urgencies, UrgencyLean
  <1>3. lean \in 0 .. 90
    BY <1>1, <1>2
  <1> HIDE DEF sum, lean
  <1>4. band \in Nat /\ band <= 4000 * 1000
    BY <1>1, <1>3 DEF BaseBandBps
  <1>5. PriceBandBps[style][urgency] = HalfUp(band, 10000)
    BY DEF PriceBandBps, sum, lean
  <1> HIDE DEF band
  <1>6. HalfUp(band, 10000) \in 0 .. 400
    BY <1>4 DEF HalfUp
  <1>7. QED  BY <1>5, <1>6

LEMMA RailRange ==
  ASSUME NEW m, MandateOK(m)
  PROVE  /\ m.anchor \in Nat \ {0} /\ m.target \in Nat \ {0}
         /\ WalkawayMin(m) \in 1 .. m.anchor
         /\ WalkawayMax(m) \in Nat /\ m.anchor <= WalkawayMax(m)
         /\ 3 * WalkawayMax(m) <= 4 * m.anchor
  <1> DEFINE a == m.anchor
             b == PriceBandBps[m.style][m.urgency]
             ab == a * b
  <1>1. a \in Nat \ {0} /\ m.target \in Nat \ {0}
    BY DEF MandateOK
  <1>2. b \in 0 .. 400
    <2>1. m.style \in Styles /\ m.urgency \in Urgencies
      BY DEF MandateOK
    <2>2. QED  BY <2>1, BandRange
  <1>3. /\ WalkawayMin(m) = HalfUp(a * (10000 - b), 10000)
        /\ WalkawayMax(m) = HalfUp(a * (10000 + b), 10000)
    BY DEF WalkawayMin, WalkawayMax
  <1> HIDE DEF a, b
  <1>4. ab \in Nat /\ ab <= 400 * a
    BY <1>1, <1>2
  <1>5. a * (10000 - b) = 10000 * a - ab /\ a * (10000 + b) = 10000 * a + ab
    BY <1>1, <1>2
  <1> HIDE DEF ab
  <1>6. HalfUp(10000 * a - ab, 10000) \in 1 .. a
    BY <1>1, <1>4 DEF HalfUp
  <1>7. /\ HalfUp(10000 * a + ab, 10000) \in Nat
        /\ a <= HalfUp(10000 * a + ab, 10000)
        /\ 3 * HalfUp(10000 * a + ab, 10000) <= 4 * a
    BY <1>1, <1>4 DEF HalfUp
  <1>8. QED  BY <1>1, <1>3, <1>5, <1>6, <1>7 DEF a

LEMMA PriceRange ==
  ASSUME NEW m, MandateOK(m), NEW side \in Sides
  PROVE  /\ MinPrice(m, side) \in Nat \ {0} /\ MaxPrice(m, side) \in Nat
         /\ MinPrice(m, side) <= m.anchor /\ m.anchor <= MaxPrice(m, side)
         /\ 3 * MaxPrice(m, side) <= 4 * m.anchor
  BY RailRange DEF MinPrice, MaxPrice

-----------------------------------------------------------------------------
(* Bounding a move.                                                        *)

LLMActions == {"propose", "counter", "accept", "hold", "reveal",
               "request_disclosure"}

MoveOK(move) ==
  /\ move.action \in LLMActions
  /\ move.price \in Nat
  /\ move.quantity \in Nat
  /\ move.claim \in Claims \cup {None}
  /\ move.escalates \in BOOLEAN

ContextOK(ctx) ==
  /\ ctx.side \in Sides
  /\ MandateOK(ctx.mandate)
  /\ ctx.requested \in [Claims -> Nat]
  /\ ctx.revealed \in [Claims -> Nat]

Band(ctx) == MinPrice(ctx.mandate, ctx.side) .. MaxPrice(ctx.mandate, ctx.side)

LEMMA ClampPriceRange ==
  ASSUME NEW ctx, ContextOK(ctx), NEW price \in Nat
  PROVE  /\ ClampPrice(price, ctx) \in Nat \ {0}
         /\ HalfUp(ClampPrice(price, ctx), 10) \in Band(ctx)
         /\ ClampPrice(price, ctx) <= 10 * MaxPrice(ctx.mandate, ctx.side)
         /\ ClampPrice(price, ctx) \geq 10 * MinPrice(ctx.mandate, ctx.side)
  <1> DEFINE low  == MinPrice(ctx.mandate, ctx.side)
             high == MaxPrice(ctx.mandate, ctx.side)
             a    == ctx.mandate.anchor
             p    == ClampPrice(price, ctx)
  <1>1. /\ low \in Nat \ {0} /\ high \in Nat /\ a \in Nat
        /\ low <= a /\ a <= high
    BY PriceRange, RailRange DEF ContextOK
  <1>2. p = IF price = 0 THEN 10 * a
            ELSE IF price < 10 * low THEN 10 * low
            ELSE IF price > 10 * high THEN 10 * high ELSE price
    BY DEF ClampPrice
  <1>3. Band(ctx) = low .. high
    BY DEF Band
  <1> HIDE DEF low, high, a, p
  <1>4. p \in Nat /\ 10 * low <= p /\ p <= 10 * high
    BY <1>1, <1>2
  <1>5. HalfUp(p, 10) \in low .. high
    BY <1>1, <1>4 DEF HalfUp
  <1>6. QED  BY <1>1, <1>3, <1>4, <1>5 DEF p, low, high

\* A price within the band is not moved, so that rounding and clamping twice is
\* the same as once.
LEMMA ClampPriceAgain ==
  ASSUME NEW ctx, ContextOK(ctx), NEW price \in Band(ctx)
  PROVE  /\ price \in Nat \ {0}
         /\ ClampPrice(10 * price, ctx) = 10 * price
         /\ HalfUp(ClampPrice(10 * price, ctx), 10) = price
  <1> DEFINE low  == MinPrice(ctx.mandate, ctx.side)
             high == MaxPrice(ctx.mandate, ctx.side)
  <1>1. low \in Nat \ {0} /\ high \in Nat /\ price \in low .. high
    BY PriceRange DEF ContextOK, Band
  <1>2. ClampPrice(10 * price, ctx) = 
          IF 10 * price = 0 THEN 10 * ctx.mandate.anchor
          ELSE IF 10 * price < 10 * low THEN 10 * low
          ELSE IF 10 * price > 10 * high THEN 10 * high ELSE 10 * price
    BY DEF ClampPrice
  <1> HIDE DEF low, high
  <1>3. ClampPrice(10 * price, ctx) = 10 * price
    BY <1>1, <1>2
  <1>4. QED  BY <1>1, <1>3, RoundTenExact

LEMMA ClampQuantityRange ==
  ASSUME NEW ctx, ContextOK(ctx), NEW quantity \in Nat
  PROVE  /\ ClampQuantity(quantity, ctx) \in 1 .. ctx.mandate.target
         /\ quantity \in 1 .. ctx.mandate.target => ClampQuantity(quantity, ctx) = quantity
         /\ quantity = 0 => ClampQuantity(quantity, ctx) = ctx.mandate.target
  <1>1. ctx.mandate.target \in Nat \ {0}
    BY DEF ContextOK, MandateOK
  <1>2. QED  BY <1>1 DEF ClampQuantity

LEMMA CeilingRange ==
  ASSUME NEW m, MandateOK(m)
  PROVE  /\ NotionalCeiling(m) \in Nat
         /\ 2 * (m.anchor * m.target) < 2 * (QtyUnit * NotionalCeiling(m)) + QtyUnit
         /\ 10 * NotionalCeiling(m) * QtyUnit \in Nat
  <1>1. m.anchor * m.target \in Nat /\ QtyUnit \in Nat \ {0}
    BY StrategyAssumption DEF MandateOK
  <1>2. /\ NotionalCeiling(m) \in Nat
        /\ 2 * (m.anchor * m.target) < 2 * (QtyUnit * NotionalCeiling(m)) + QtyUnit
    BY <1>1, HalfUpBounds DEF NotionalCeiling
  <1>3. 10 * NotionalCeiling(m) * QtyUnit \in Nat
    BY <1>1, <1>2
  <1>4. QED  BY <1>2, <1>3

\* Shrinking to the ceiling lowers a quantity, the full block restores it.
LEMMA BoundedQuantityRange ==
  ASSUME NEW m, MandateOK(m), NEW price \in Nat \ {0}, NEW quantity \in 1 .. m.target
  PROVE  /\ BoundedQuantity(price, quantity, m) \in 0 .. m.target
         /\ m.partial => BoundedQuantity(price, quantity, m) <= quantity
         /\ ~m.partial => BoundedQuantity(price, quantity, m) = m.target
  <1> DEFINE c == 10 * NotionalCeiling(m) * QtyUnit
             shrunk == IF price * quantity > c THEN HalfUp(c, price) ELSE quantity
  <1>1. m.target \in Nat \ {0} /\ quantity \in Nat \ {0}
    BY DEF MandateOK
  <1>2. c \in Nat
    BY CeilingRange
  <1>3. BoundedQuantity(price, quantity, m) =
          IF ~m.partial /\ shrunk < m.target THEN m.target ELSE shrunk
    BY DEF BoundedQuantity
  <1> HIDE DEF c
  <1>4. price * quantity > c => HalfUp(c, price) \in Nat /\ HalfUp(c, price) <= quantity
    <2>1. HalfUp(c, price) \in Nat
      BY <1>2, HalfUpBounds
    <2>2. ASSUME price * quantity > c
          PROVE  2 * c + price < 2 * (price * quantity) + 2 * price
      <3>1. price * quantity \in Nat
        BY <1>1
      <3>2. QED  BY <1>2, <2>2, <3>1
    <2>3. QED  BY <1>1, <1>2, <2>1, <2>2, HalfUpLeast
  <1>5. shrunk \in Nat /\ shrunk <= quantity
    BY <1>1, <1>4
  <1> HIDE DEF shrunk
  <1>6. QED  BY <1>1, <1>3, <1>5

-----------------------------------------------------------------------------
(* What the validator lets through.                                        *)

\* A set of indexes has a least one.
LEMMA LeastIndex ==
  ASSUME NEW S \in SUBSET Nat, S # {}
  PROVE  \E k \in S : \A j \in S : k <= j
  <1> DEFINE R == OpToRel(<, Nat)
  <1>1. IsWellFoundedOn(R, Nat)
    BY NatLessThanWellFounded
  <1>2. \A x, y \in Nat : x < y => <<x, y>> \in R
    BY DEF OpToRel
  <1> HIDE DEF R
  <1>3. PICK k \in S : \A j \in S : <<j, k>> \notin R
    BY <1>1, WFMin, Zenon
  <1>4. \A j \in S : ~(j < k)
    BY <1>2, <1>3
  <1>5. \A j \in S : k <= j
    BY <1>4
  <1>6. QED  BY <1>5

LEMMA FirstInRange ==
  ASSUME NEW claims \in Seq(Claims), NEW set, set \cap ToSet(claims) # {}
  PROVE  FirstIn(claims, set) \in set \cap Claims
  <1> DEFINE hits == {k \in DOMAIN claims : claims[k] \in set}
             first == CHOOSE k \in hits : \A j \in hits : k <= j
  <1>1. DOMAIN claims = 1 .. Len(claims) /\ Len(claims) \in Nat
    BY LenProperties
  <1>2. hits \in SUBSET Nat
    BY <1>1
  <1>3. hits # {}
    BY DEF ToSet
  <1>4. FirstIn(claims, set) = claims[first]
    BY DEF FirstIn
  <1>5. \E k \in hits : \A j \in hits : k <= j
    <2> HIDE DEF hits
    <2>1. QED  BY <1>2, <1>3, LeastIndex
  <1>6. first \in hits
    BY <1>5
  <1>7. claims[first] \in set /\ claims[first] \in Claims
    BY <1>1, <1>6, ElementOfSeq
  <1>8. QED  BY <1>4, <1>7

Outcomes(ctx) ==
  [action : LLMActions, claim : Claims \cup {None}, price : Band(ctx),
   quantity : 0 .. ctx.mandate.target, escalates : BOOLEAN]

\* Every outcome has the price asked for, bounded, and names the claim of a
\* disclosure.
OutcomeOK(out, move, ctx) ==
  /\ out \in Outcomes(ctx)
  /\ out.price = HalfUp(ClampPrice(move.price, ctx), 10)
  /\ out.action \in {"reveal", "request_disclosure"} => out.claim \in Claims

\* A disclosure is within its cap, unless its claim is not the one asked for.
CappedOutcome(out, move, ctx) ==
  ~(out.action = move.action /\ out.claim # move.claim) =>
    /\ out.action = "request_disclosure" => ctx.requested[out.claim] < 1
    /\ out.action = "reveal" => ctx.revealed[out.claim] < 2

LEMMA RestatedRange ==
  ASSUME NEW ctx, ContextOK(ctx), NEW move, MoveOK(move),
         NEW action \in LLMActions, NEW claim \in Claims \cup {None},
         action \in {"reveal", "request_disclosure"} => claim \in Claims
  PROVE  /\ OutcomeOK(Restated(action, claim, move, ctx), move, ctx)
         /\ Restated(action, claim, move, ctx).action = action
         /\ Restated(action, claim, move, ctx).claim = claim
  <1>1. move.price \in Nat /\ move.quantity \in Nat /\ move.escalates \in BOOLEAN
    BY DEF MoveOK
  <1>2. HalfUp(ClampPrice(move.price, ctx), 10) \in Band(ctx)
    BY <1>1, ClampPriceRange
  <1>3. ClampQuantity(move.quantity, ctx) \in 1 .. ctx.mandate.target
    BY <1>1, ClampQuantityRange
  <1>4. ClampQuantity(move.quantity, ctx) \in 0 .. ctx.mandate.target
    BY <1>3
  <1>5. QED  BY <1>1, <1>2, <1>4 DEF Restated, OutcomeOK, Outcomes

LEMMA BoundedMoveRange ==
  ASSUME NEW ctx, ContextOK(ctx), NEW move, MoveOK(move),
         move.action \in PricedActions \cup {"hold"}
  PROVE  /\ OutcomeOK(BoundedMove(move, ctx), move, ctx)
         /\ BoundedMove(move, ctx).action = move.action
         /\ BoundedMove(move, ctx).claim = None
         /\ BoundedMove(move, ctx).quantity =
              BoundedQuantity(ClampPrice(move.price, ctx),
                              ClampQuantity(move.quantity, ctx), ctx.mandate)
  <1> DEFINE price == ClampPrice(move.price, ctx)
             quantity == BoundedQuantity(price, ClampQuantity(move.quantity, ctx), ctx.mandate)
             escalates == \/ move.escalates
                          \/ /\ ctx.mandate.escalates
                             /\ ~InsidePreferred(ctx.mandate, ctx.side, price, 10)
  <1>1. move.price \in Nat /\ move.quantity \in Nat /\ MandateOK(ctx.mandate)
    BY DEF MoveOK, ContextOK
  <1>2. price \in Nat \ {0} /\ HalfUp(price, 10) \in Band(ctx)
    BY <1>1, ClampPriceRange
  <1>3. ClampQuantity(move.quantity, ctx) \in 1 .. ctx.mandate.target
    BY <1>1, ClampQuantityRange
  <1>4. quantity \in 0 .. ctx.mandate.target
    BY <1>1, <1>2, <1>3, BoundedQuantityRange
  <1>5. escalates \in BOOLEAN
    <2>1. move.escalates \in BOOLEAN /\ ctx.mandate.escalates \in BOOLEAN
      BY <1>1 DEF MoveOK, MandateOK
    <2>2. QED  BY <2>1
  <1>6. BoundedMove(move, ctx) =
          [action |-> move.action, claim |-> None, price |-> HalfUp(price, 10),
           quantity |-> quantity, escalates |-> escalates]
    BY DEF BoundedMove
  <1> HIDE DEF price, quantity, escalates
  <1>7. OutcomeOK(BoundedMove(move, ctx), move, ctx)
    BY <1>2, <1>4, <1>5, <1>6 DEF OutcomeOK, Outcomes, MoveOK, PricedActions, LLMActions, price
  <1>8. QED  BY <1>6, <1>7 DEF price, quantity

LEMMA AcceptBlockedRange ==
  ASSUME NEW ctx, ContextOK(ctx), NEW move, MoveOK(move)
  PROVE  LET out == AcceptBlocked(move, ctx) IN
         /\ OutcomeOK(out, move, ctx)
         /\ out.action \in {"request_disclosure", "reveal", "propose"}
         /\ CappedOutcome(out, move, ctx)
  <1> DEFINE required == ctx.mandate.required
             ladder   == ctx.mandate.ladder
             unasked  == {c \in Outstanding(ctx) : ctx.requested[c] = 0}
             unshown  == {c \in ToSet(ladder) : ctx.revealed[c] = 0}
             out == AcceptBlocked(move, ctx)
  <1>1. required \in Seq(Claims) /\ ladder \in Seq(Claims)
    BY DEF ContextOK, MandateOK
  <1>2. CASE unasked # {}
    <2> DEFINE claim == FirstIn(required, unasked)
    <2>1. unasked \cap ToSet(required) # {}
      BY <1>2 DEF Outstanding
    <2>2. claim \in unasked /\ claim \in Claims
      <3> HIDE DEF unasked, required
      <3>1. QED  BY <1>1, <2>1, FirstInRange
    <2>3. out = Restated("request_disclosure", claim, move, ctx)
      BY <1>2 DEF AcceptBlocked
    <2>4. ctx.requested[claim] = 0
      BY <2>2
    <2> HIDE DEF claim, out, unasked
    <2>5. OutcomeOK(out, move, ctx) /\ out.action = "request_disclosure" /\ out.claim = claim
      BY <2>2, <2>3, RestatedRange DEF LLMActions
    <2>6. QED  BY <2>4, <2>5 DEF CappedOutcome, out
  <1>3. CASE unasked = {} /\ unshown # {}
    <2> DEFINE claim == FirstIn(ladder, unshown)
    <2>1. unshown \cap ToSet(ladder) # {}
      BY <1>3
    <2>2. claim \in unshown /\ claim \in Claims
      <3> HIDE DEF unshown, ladder
      <3>1. QED  BY <1>1, <2>1, FirstInRange
    <2>3. out = Restated("reveal", claim, move, ctx)
      BY <1>3 DEF AcceptBlocked
    <2>4. ctx.revealed[claim] = 0
      BY <2>2
    <2> HIDE DEF claim, out, unshown
    <2>5. OutcomeOK(out, move, ctx) /\ out.action = "reveal" /\ out.claim = claim
      BY <2>2, <2>3, RestatedRange DEF LLMActions
    <2>6. QED  BY <2>4, <2>5 DEF CappedOutcome, out
  <1>4. CASE unasked = {} /\ unshown = {}
    <2>1. out = Restated("propose", None, move, ctx)
      BY <1>4 DEF AcceptBlocked
    <2> HIDE DEF out
    <2>2. OutcomeOK(out, move, ctx) /\ out.action = "propose"
      BY <2>1, RestatedRange DEF LLMActions
    <2>3. QED  BY <2>2 DEF CappedOutcome, out
  <1>5. QED  BY <1>2, <1>3, <1>4

LEMMA DisclosureMoveRange ==
  ASSUME NEW ctx, ContextOK(ctx), NEW move, MoveOK(move),
         move.action \in {"reveal", "request_disclosure"},
         NEW allowed \in Seq(Claims), NEW done \in [Claims -> Nat], NEW cap \in Nat
  PROVE  LET out == DisclosureMove(move, ctx, allowed, done, cap) IN
         /\ OutcomeOK(out, move, ctx)
         /\ out.action \in {move.action, "propose", "hold"}
         /\ out.action = move.action /\ out.claim = move.claim => done[out.claim] < cap
  <1> DEFINE out == DisclosureMove(move, ctx, allowed, done, cap)
             known == move.claim # None /\ Contains(allowed, move.claim)
             claim == IF known THEN move.claim ELSE allowed[1]
  <1>1. CASE allowed = <<>>
    <2>1. out = Restated("hold", None, move, ctx)
      BY <1>1 DEF DisclosureMove
    <2> HIDE DEF out
    <2>2. OutcomeOK(out, move, ctx) /\ out.action = "hold"
      BY <2>1, RestatedRange DEF LLMActions
    <2>3. QED  BY <2>2 DEF out
  <1>2. CASE allowed # <<>> /\ (ctx.opening \/ (move.claim # None /\ done[move.claim] >= cap))
    <2>1. out = Restated("propose", None, move, ctx)
      BY <1>2 DEF DisclosureMove
    <2> HIDE DEF out
    <2>2. OutcomeOK(out, move, ctx) /\ out.action = "propose"
      BY <2>1, RestatedRange DEF LLMActions
    <2>3. QED  BY <2>2 DEF out
  <1>3. CASE allowed # <<>> /\ ~(ctx.opening \/ (move.claim # None /\ done[move.claim] >= cap))
    <2>1. out = Restated(move.action, claim, move, ctx)
      BY <1>3 DEF DisclosureMove
    <2>2. claim \in Claims
      <3>1. allowed[1] \in Claims
        BY <1>3, EmptySeq, LenProperties, ElementOfSeq
      <3>2. known => move.claim \in Claims
        BY DEF MoveOK
      <3>3. QED  BY <3>1, <3>2
    <2> HIDE DEF claim, out
    <2>3. OutcomeOK(out, move, ctx) /\ out.action = move.action /\ out.claim = claim
      BY <2>1, <2>2, RestatedRange DEF LLMActions
    <2>4. claim = move.claim => done[claim] < cap
      <3>1. None \notin Claims
        BY TurnsAssumption
      <3>2. ASSUME claim = move.claim  PROVE ~(done[claim] >= cap)
        BY <1>3, <2>2, <3>1, <3>2
      <3>3. done[claim] \in Nat
        BY <2>2
      <3>4. QED  BY <3>2, <3>3
    <2>5. QED  BY <2>3, <2>4 DEF out
  <1>4. QED  BY <1>1, <1>2, <1>3

LEMMA ValidateRange ==
  ASSUME NEW ctx, ContextOK(ctx), NEW move, MoveOK(move)
  PROVE  LET out == Validate(move, ctx) IN
         /\ OutcomeOK(out, move, ctx)
         /\ CappedOutcome(out, move, ctx)
         /\ out.action = "accept" => Outstanding(ctx) = {}
         /\ out.action = move.action /\ out.action \in PricedActions =>
              out = BoundedMove(move, ctx)
  <1> DEFINE out == Validate(move, ctx)
  <1>1. move.action \in LLMActions
    BY DEF MoveOK
  <1>2. CASE move.action = "accept" /\ Outstanding(ctx) # {}
    <2>1. out = AcceptBlocked(move, ctx)
      BY <1>2 DEF Validate
    <2> HIDE DEF out
    <2>2. QED  BY <1>2, <2>1, AcceptBlockedRange DEF out
  <1>3. CASE move.action = "reveal"
    <2>1. out = DisclosureMove(move, ctx, ctx.mandate.ladder, ctx.revealed, 2)
      BY <1>3 DEF Validate
    <2>2. ctx.mandate.ladder \in Seq(Claims) /\ ctx.revealed \in [Claims -> Nat]
      BY DEF ContextOK, MandateOK
    <2> HIDE DEF out
    <2>3. /\ OutcomeOK(out, move, ctx)
          /\ out.action \in {"reveal", "propose", "hold"}
          /\ out.action = "reveal" /\ out.claim = move.claim => ctx.revealed[out.claim] < 2
      BY <1>3, <2>1, <2>2, DisclosureMoveRange
    <2>4. QED  BY <1>3, <2>3 DEF out, CappedOutcome, PricedActions
  <1>4. CASE move.action = "request_disclosure"
    <2>1. out = DisclosureMove(move, ctx, ctx.mandate.required, ctx.requested, 1)
      BY <1>4 DEF Validate
    <2>2. ctx.mandate.required \in Seq(Claims) /\ ctx.requested \in [Claims -> Nat]
      BY DEF ContextOK, MandateOK
    <2> HIDE DEF out
    <2>3. /\ OutcomeOK(out, move, ctx)
          /\ out.action \in {"request_disclosure", "propose", "hold"}
          /\ out.action = "request_disclosure" /\ out.claim = move.claim =>
               ctx.requested[out.claim] < 1
      BY <1>4, <2>1, <2>2, DisclosureMoveRange
    <2>4. QED  BY <1>4, <2>3 DEF out, CappedOutcome, PricedActions
  <1>5. CASE /\ move.action \in PricedActions \cup {"hold"}
             /\ ~(move.action = "accept" /\ Outstanding(ctx) # {})
    <2>1. out = BoundedMove(move, ctx)
      BY <1>5 DEF Validate, PricedActions
    <2> HIDE DEF out
    <2>2. OutcomeOK(out, move, ctx) /\ out.action = move.action
      BY <1>5, <2>1, BoundedMoveRange
    <2>3. QED  BY <1>5, <2>1, <2>2 DEF out, CappedOutcome, PricedActions
  <1>6. QED  BY <1>1, <1>2, <1>3, <1>4, <1>5 DEF LLMActions, PricedActions

-----------------------------------------------------------------------------
(* The second validation.                                                  *)

\* A move that is validated again keeps its price.
LEMMA ValidatedAgain ==
  ASSUME NEW ctx, ContextOK(ctx), NEW decision \in Outcomes(ctx)
  PROVE  LET claim == [decision EXCEPT !.price = 10 * @]
             again == Validate(claim, ctx) IN
         /\ MoveOK(claim) /\ claim.action = decision.action
         /\ claim.quantity = decision.quantity
         /\ again \in Outcomes(ctx)
         /\ again.price = decision.price
  <1> DEFINE claim == [decision EXCEPT !.price = 10 * @]
             again == Validate(claim, ctx)
  <1>1. /\ decision.price \in Band(ctx) /\ decision.quantity \in Nat
        /\ decision.action \in LLMActions /\ decision.escalates \in BOOLEAN
        /\ decision.claim \in Claims \cup {None}
    BY RailRange DEF Outcomes, ContextOK
  <1>2. /\ claim.action = decision.action /\ claim.quantity = decision.quantity
        /\ claim.claim = decision.claim /\ claim.escalates = decision.escalates
        /\ claim.price = 10 * decision.price
    BY DEF Outcomes
  <1> HIDE DEF claim
  <1>3. /\ decision.price \in Nat
        /\ HalfUp(ClampPrice(10 * decision.price, ctx), 10) = decision.price
    BY <1>1, ClampPriceAgain
  <1>4. MoveOK(claim)
    BY <1>1, <1>2, <1>3 DEF MoveOK
  <1>5. OutcomeOK(again, claim, ctx)
    BY <1>4, ValidateRange
  <1> HIDE DEF again
  <1>6. again \in Outcomes(ctx) /\ again.price = decision.price
    BY <1>2, <1>3, <1>5 DEF OutcomeOK
  <1>7. QED  BY <1>2, <1>4, <1>6 DEF claim, again

\* A quantity shrinks to nothing only if the ceiling rounds to nothing: one of a
\* single cent is above half a unit at any price of the band.
LEMMA NothingLeft ==
  ASSUME NEW ctx, ContextOK(ctx), NEW price \in Nat \ {0},
         price <= 10 * MaxPrice(ctx.mandate, ctx.side),
         NEW quantity \in 1 .. ctx.mandate.target,
         BoundedQuantity(price, quantity, ctx.mandate) = 0
  PROVE  NotionalCeiling(ctx.mandate) = 0
  <1> DEFINE m == ctx.mandate
             c == NotionalCeiling(m)
             a == m.anchor
             t == m.target
             cq == c * QtyUnit
             high == MaxPrice(m, ctx.side)
  <1>1. MandateOK(m) /\ ctx.side \in Sides
    BY DEF ContextOK
  <1>2. /\ a \in Nat \ {0} /\ t \in Nat \ {0} /\ QtyUnit \in Nat \ {0}
        /\ high \in Nat /\ 3 * high <= 4 * a
    BY <1>1, RailRange, PriceRange, StrategyAssumption
  <1>3. c \in Nat /\ 2 * (a * t) < 2 * (QtyUnit * c) + QtyUnit /\ 10 * c * QtyUnit \in Nat
    BY <1>1, CeilingRange
  <1>4. BoundedQuantity(price, quantity, m) =
          IF ~m.partial /\ (IF price * quantity > 10 * c * QtyUnit
                            THEN HalfUp(10 * c * QtyUnit, price) ELSE quantity) < t
          THEN t
          ELSE IF price * quantity > 10 * c * QtyUnit
               THEN HalfUp(10 * c * QtyUnit, price) ELSE quantity
    BY DEF BoundedQuantity
  <1> HIDE DEF m, c, a, t, high
  <1>5. quantity \in Nat \ {0}
    BY <1>2 DEF m, t
  <1>6. HalfUp(10 * c * QtyUnit, price) = 0
    BY <1>2, <1>4, <1>5 DEF m
  <1>7. 2 * (10 * c * QtyUnit) < price
    <2>1. 2 * (10 * c * QtyUnit) < 2 * (price * 0) + price
      BY <1>3, <1>6, HalfUpBounds
    <2>2. QED  BY <1>3, <2>1
  <1>8. price <= 10 * high
    BY DEF high, m
  <1>9. ASSUME c >= 1  PROVE FALSE
    <2>1. cq \in Nat /\ QtyUnit <= cq /\ QtyUnit * c = cq /\ 10 * c * QtyUnit = 10 * cq
      BY <1>2, <1>3, <1>9
    <2> HIDE DEF cq
    <2>2. a * t \in Nat /\ a <= a * t
      BY <1>2
    <2>3. 2 * (a * t) < 3 * cq
      BY <1>2, <1>3, <2>1, <2>2
    <2>4. 20 * cq < 10 * high
      BY <1>2, <1>7, <1>8, <2>1
    <2>5. QED  BY <1>2, <2>1, <2>2, <2>3, <2>4
  <1>10. QED  BY <1>3, <1>9 DEF c, m

\* Bounded again, a move that was not restated has at most its quantity.
LEMMA QuantityAgain ==
  ASSUME NEW ctx, ContextOK(ctx), NEW move, MoveOK(move),
         move.action \in PricedActions,
         move.action = "accept" => Outstanding(ctx) = {},
         NEW decision, decision = BoundedMove(move, ctx)
  PROVE  LET claim == [decision EXCEPT !.price = 10 * @] IN
         Validate(claim, ctx).quantity <= decision.quantity
  <1> DEFINE claim == [decision EXCEPT !.price = 10 * @]
             m == ctx.mandate
             price == ClampPrice(move.price, ctx)
             quantity == ClampQuantity(move.quantity, ctx)
             again == ClampQuantity(decision.quantity, ctx)
  <1>1. /\ decision \in Outcomes(ctx) /\ decision.action = move.action
        /\ decision.price = HalfUp(price, 10)
        /\ decision.quantity = BoundedQuantity(price, quantity, m)
    BY BoundedMoveRange DEF OutcomeOK
  <1>2. /\ MoveOK(claim) /\ claim.action = move.action
        /\ claim.quantity = decision.quantity
    BY <1>1, ValidatedAgain
  <1>3. claim.price = 10 * decision.price /\ decision.price \in Band(ctx)
    BY <1>1 DEF Outcomes
  <1>4. decision.quantity \in 0 .. m.target
    BY <1>1 DEF Outcomes
  <1>5. MandateOK(m) /\ m.target \in Nat \ {0} /\ m.partial \in BOOLEAN
    BY DEF ContextOK, MandateOK
  <1>6. /\ price \in Nat \ {0} /\ price <= 10 * MaxPrice(m, ctx.side)
        /\ quantity \in 1 .. m.target
    BY ClampPriceRange, ClampQuantityRange DEF MoveOK
  <1> HIDE DEF claim
  <1>7. Validate(claim, ctx) = BoundedMove(claim, ctx)
    BY <1>2 DEF Validate, PricedActions
  <1>8. /\ 10 * decision.price \in Nat \ {0}
        /\ ClampPrice(claim.price, ctx) = 10 * decision.price
    BY <1>3, ClampPriceAgain
  <1>9. Validate(claim, ctx).quantity = BoundedQuantity(10 * decision.price, again, m)
    BY <1>2, <1>7, <1>8, BoundedMoveRange
  <1>10. /\ again \in 1 .. m.target
         /\ decision.quantity \in 1 .. m.target => again = decision.quantity
    BY <1>4, <1>5, ClampQuantityRange
  <1> HIDE DEF m, price, quantity, again
  <1>11. /\ BoundedQuantity(10 * decision.price, again, m) \in 0 .. m.target
         /\ m.partial => BoundedQuantity(10 * decision.price, again, m) <= again
    BY <1>5, <1>8, <1>10, BoundedQuantityRange
  <1>12. CASE ~m.partial
    <2>1. decision.quantity = m.target
      BY <1>1, <1>5, <1>6, <1>12, BoundedQuantityRange
    <2>2. QED  BY <1>5, <1>9, <1>11, <2>1 DEF claim
  <1>13. CASE m.partial /\ decision.quantity \in 1 .. m.target
    BY <1>9, <1>10, <1>11, <1>13 DEF claim
  <1>14. CASE m.partial /\ decision.quantity = 0
    <2>1. NotionalCeiling(m) = 0
      BY <1>1, <1>6, <1>14, NothingLeft DEF m
    <2>2. 10 * decision.price * again > 10 * NotionalCeiling(m) * QtyUnit
      <3>1. 10 * NotionalCeiling(m) * QtyUnit = 0
        BY <2>1, StrategyAssumption
      <3>2. 10 * decision.price * again > 0
        BY <1>5, <1>8, <1>10
      <3>3. QED  BY <3>1, <3>2
    <2>3. HalfUp(10 * NotionalCeiling(m) * QtyUnit, 10 * decision.price) = 0
      <3>1. 10 * NotionalCeiling(m) * QtyUnit = 0
        BY <2>1, StrategyAssumption
      <3> DEFINE b == 10 * decision.price
      <3>2. b \in Nat \ {0}
        BY <1>8
      <3> HIDE DEF b
      <3>3. 2 * 0 + b < 2 * (b * 0) + 2 * b
        BY <3>2
      <3>4. HalfUp(0, b) \in Nat /\ HalfUp(0, b) <= 0
        BY <3>2, <3>3, HalfUpLeast, HalfUpBounds
      <3>5. HalfUp(0, b) = 0
        BY <3>4
      <3>6. QED  BY <3>1, <3>5 DEF b
    <2>4. BoundedQuantity(10 * decision.price, again, m) = 0
      BY <1>14, <2>2, <2>3 DEF BoundedQuantity
    <2>5. QED  BY <1>9, <1>14, <2>4 DEF claim
  <1>15. QED  BY <1>4, <1>5, <1>12, <1>13, <1>14

\* A partial mandate's move that was not restated is under the ceiling.
LEMMA MoveUnderCeiling ==
  ASSUME NEW ctx, ContextOK(ctx), NEW move, MoveOK(move),
         move.action \in PricedActions, ctx.mandate.partial
  PROVE  UnderCeiling(BoundedMove(move, ctx).price, BoundedMove(move, ctx).quantity,
                      ctx.mandate)
  <1> DEFINE m == ctx.mandate
             p0 == ClampPrice(move.price, ctx)
             q0 == ClampQuantity(move.quantity, ctx)
             p == HalfUp(p0, 10)
             q == BoundedQuantity(p0, q0, m)
             c == NotionalCeiling(m) * QtyUnit
             long == 10 * NotionalCeiling(m) * QtyUnit
  <1>1. /\ BoundedMove(move, ctx).price = p
        /\ BoundedMove(move, ctx).quantity = q
    BY BoundedMoveRange DEF OutcomeOK
  <1>2. MandateOK(m) /\ m.target \in Nat \ {0}
    BY DEF ContextOK, MandateOK
  <1>3. p0 \in Nat \ {0} /\ q0 \in 1 .. m.target
    BY ClampPriceRange, ClampQuantityRange DEF MoveOK
  <1>4. p \in Nat /\ 10 * p <= p0 + 5 /\ p0 <= 10 * p + 4
    BY <1>3, RoundTen
  <1>5. c \in Nat /\ long = 10 * c
    BY <1>2, CeilingRange, StrategyAssumption
  <1>6. q = IF p0 * q0 > long THEN HalfUp(long, p0) ELSE q0
    BY DEF BoundedQuantity
  <1>7. q \in Nat
    BY <1>2, <1>3, BoundedQuantityRange
  <1>8. 2 * NotionalCeiling(m) * QtyUnit = 2 * c
    BY <1>2, CeilingRange, StrategyAssumption
  <1> HIDE DEF m, p0, q0, p, q, c, long
  <1>9. 2 * (p0 * q) <= 20 * c + p0
    <2>1. CASE p0 * q0 > long
      BY <1>3, <1>5, <1>6, <2>1, HalfUpBounds
    <2>2. CASE ~(p0 * q0 > long)
      <3>1. p0 * q0 \in Nat /\ q = q0
        BY <1>2, <1>3, <1>6, <2>2
      <3>2. QED  BY <1>3, <1>5, <2>2, <3>1
    <2>3. QED  BY <2>1, <2>2
  <1>10. 10 * (p * q) <= p0 * q + 5 * q
    <2>1. (10 * p) * q <= (p0 + 5) * q
      BY <1>3, <1>4, <1>7
    <2>2. QED  BY <1>3, <1>4, <1>7, <2>1
  <1>11. p * q \in Nat /\ p0 * q \in Nat
    BY <1>3, <1>4, <1>7
  <1>12. 20 * (p * q) <= 20 * c + 10 * p + 4 + 10 * q
    BY <1>3, <1>4, <1>5, <1>7, <1>9, <1>10, <1>11
  <1>13. 2 * (p * q) <= 2 * c + p + q
    BY <1>4, <1>5, <1>7, <1>11, <1>12
  <1>14. 2 * p * q = 2 * (p * q)
    BY <1>4, <1>7
  <1>15. QED  BY <1>1, <1>8, <1>13, <1>14 DEF UnderCeiling, m

-----------------------------------------------------------------------------
(* What can come of a turn.                                                *)

LEMMA ContextIsOK ==
  ASSUME TypeOK, NEW side \in Sides
  PROVE  /\ ContextOK(Context(side))
         /\ MandateOK(mandate[side])
         /\ Context(side).mandate = mandate[side] /\ Context(side).side = side
         /\ Context(side).requested = requested[side]
         /\ Context(side).revealed = revealed[side]
  <1>1. MandateOK(mandate[side])
    BY TurnsAssumption DEF TypeOK
  <1>2. requested[side] \in [Claims -> Nat] /\ revealed[side] \in [Claims -> Nat]
    BY TurnsAssumption DEF TypeOK, Rows
  <1>3. QED  BY <1>1, <1>2 DEF Context, ContextOK

LEMMA MovesAreOK ==
  ASSUME NEW move \in Moves
  PROVE  MoveOK(move)
  <1>1. LlmPrices \subseteq Nat /\ LlmQuantities \subseteq Nat
    BY TurnsAssumption
  <1>2. ASSUME NEW actions \in SUBSET LLMActions, NEW quantities \in SUBSET Nat,
               NEW claims \in SUBSET (Claims \cup {None}), NEW escalates \in SUBSET BOOLEAN,
               move \in MovesOf(actions, quantities, claims, escalates)
        PROVE  MoveOK(move)
    BY <1>1, <1>2 DEF MoveOK, MovesOf
  <1>3. /\ {"propose", "accept", "hold"} \in SUBSET LLMActions
        /\ {"reveal", "request_disclosure"} \in SUBSET LLMActions
        /\ {"counter"} \in SUBSET LLMActions
    BY DEF LLMActions
  <1>4. CASE move \in MovesOf({"propose", "accept", "hold"}, LlmQuantities, {None}, {FALSE})
    BY <1>1, <1>2, <1>3, <1>4
  <1>5. CASE move \in MovesOf({"reveal", "request_disclosure"}, LlmQuantities,
                             Claims \cup {None}, {FALSE})
    BY <1>1, <1>2, <1>3, <1>5
  <1>6. CASE move \in MovesOf({"counter"}, {0}, {None}, {TRUE})
    <2>1. /\ {0} \in SUBSET Nat /\ {TRUE} \in SUBSET BOOLEAN
          /\ {None} \in SUBSET (Claims \cup {None})
      OBVIOUS
    <2>2. QED  BY <1>2, <1>3, <1>6, <2>1
  <1>7. QED  BY <1>4, <1>5, <1>6 DEF Moves

\* What the agent seals is within its mandate, what the backend makes of it has
\* the same price, and what is not the LLM's own move is marked so.
PlayOK(play, side) ==
  LET decision == play.decision
      move == play.move IN
  /\ {decision, move} \subseteq Outcomes(Context(side))
  /\ {play.restated, play.renamed} \subseteq BOOLEAN
  /\ move.action \in {"reveal", "request_disclosure"} => move.claim \in Claims
  /\ move.action \in PricedActions =>
       /\ move.price = decision.price
       /\ ~play.restated =>
            /\ move.quantity <= decision.quantity
            /\ mandate[side].partial =>
                 UnderCeiling(decision.price, decision.quantity, mandate[side])
  /\ ~play.renamed =>
       /\ move.action = "request_disclosure" => requested[side][move.claim] < 1
       /\ move.action = "reveal" => revealed[side][move.claim] < 2

LEMMA PlaysAreOK ==
  ASSUME TypeOK, NEW side \in Sides, NEW play \in Plays(side)
  PROVE  PlayOK(play, side)
  <1> DEFINE ctx == Context(side)
  <1>1. PICK llm \in Moves :
          /\ play.decision = Decision(side, llm)
          /\ play.move = IF play.decision.action \in PricedActions
                         THEN Bounded(side, play.decision) ELSE play.decision
          /\ play.restated = (play.decision.action # llm.action)
          /\ play.renamed = (/\ play.decision.action = llm.action
                             /\ play.decision.claim # llm.claim)
    <2>1. PICK llm \in Moves :
            play = [decision |-> Decision(side, llm),
                    move |-> IF Decision(side, llm).action \in PricedActions
                             THEN Bounded(side, Decision(side, llm))
                             ELSE Decision(side, llm),
                    restated |-> Decision(side, llm).action # llm.action,
                    renamed |-> /\ Decision(side, llm).action = llm.action
                                /\ Decision(side, llm).claim # llm.claim]
      BY Zenon DEF Plays
    <2>2. QED  BY <2>1
  <1> DEFINE decision == play.decision
             move == play.move
             claim == [decision EXCEPT !.price = 10 * @]
             again == Validate(claim, ctx)
  <1>2. /\ ContextOK(ctx) /\ ctx.mandate = mandate[side]
        /\ ctx.requested = requested[side] /\ ctx.revealed = revealed[side]
    BY ContextIsOK
  <1>3. MoveOK(llm)
    BY MovesAreOK
  <1>4. decision = Validate(llm, ctx)
    BY <1>1 DEF Decision
  <1> HIDE DEF ctx, decision
  <1>5. /\ OutcomeOK(decision, llm, ctx)
        /\ CappedOutcome(decision, llm, ctx)
        /\ decision.action = "accept" => Outstanding(ctx) = {}
        /\ decision.action = llm.action /\ decision.action \in PricedActions =>
             decision = BoundedMove(llm, ctx)
    BY <1>2, <1>3, <1>4, ValidateRange
  <1>6. decision \in Outcomes(ctx)
    BY <1>5 DEF OutcomeOK
  <1>7. {play.restated, play.renamed} \subseteq BOOLEAN
    BY <1>1
  <1>8. CASE decision.action \in PricedActions
    <2>1. /\ MoveOK(claim) /\ claim.action = decision.action
          /\ again \in Outcomes(ctx) /\ again.price = decision.price
      BY <1>2, <1>6, ValidatedAgain
    <2>2. again = BoundedMove(claim, ctx)
      <3> HIDE DEF claim
      <3>1. QED  BY <1>5, <1>8, <2>1 DEF Validate, PricedActions
    <2>3. again.action = decision.action
      <3> HIDE DEF claim, again
      <3>1. QED  BY <1>2, <1>8, <2>1, <2>2, BoundedMoveRange
    <2>4. move = again
      <3>1. move = Bounded(side, decision)
        BY <1>1, <1>8 DEF decision
      <3>2. again.action # "reveal"
        BY <1>8, <2>3 DEF PricedActions
      <3>3. QED  BY <3>1, <3>2 DEF Bounded, ctx
    <2>5. ASSUME ~play.restated
          PROVE  /\ again.quantity <= decision.quantity
                 /\ mandate[side].partial =>
                      UnderCeiling(decision.price, decision.quantity, mandate[side])
      <3>1. decision.action = llm.action /\ decision = BoundedMove(llm, ctx)
        BY <1>1, <1>5, <1>8, <2>5 DEF decision
      <3>2. again.quantity <= decision.quantity
        BY <1>2, <1>3, <1>5, <1>8, <3>1, QuantityAgain
      <3>3. mandate[side].partial =>
              UnderCeiling(decision.price, decision.quantity, mandate[side])
        <4>1. ctx.mandate.partial =>
                UnderCeiling(BoundedMove(llm, ctx).price, BoundedMove(llm, ctx).quantity,
                             ctx.mandate)
          BY <1>2, <1>3, <1>8, <3>1, MoveUnderCeiling
        <4>2. QED  BY <1>2, <3>1, <4>1
      <3>4. QED  BY <3>2, <3>3
    <2> HIDE DEF again
    <2>6. move.action \notin {"reveal", "request_disclosure"}
      BY <1>8, <2>3, <2>4 DEF PricedActions
    <2> HIDE DEF move
    <2>7. QED  BY <1>6, <1>7, <2>1, <2>4, <2>5, <2>6 DEF PlayOK, ctx, decision, move
  <1>9. CASE decision.action \notin PricedActions
    <2>1. move = decision
      BY <1>1, <1>9 DEF decision
    <2>2. ~play.renamed =>
            /\ move.action = "request_disclosure" => requested[side][move.claim] < 1
            /\ move.action = "reveal" => revealed[side][move.claim] < 2
      BY <1>1, <1>2, <1>5, <2>1 DEF CappedOutcome, decision
    <2>3. move.action \in {"reveal", "request_disclosure"} => move.claim \in Claims
      BY <1>5, <2>1 DEF OutcomeOK
    <2> HIDE DEF move
    <2>4. QED  BY <1>6, <1>7, <1>9, <2>1, <2>2, <2>3 DEF PlayOK, ctx, decision, move
  <1>10. QED  BY <1>8, <1>9

-----------------------------------------------------------------------------
(* Seals, records and trades.                                              *)

\* A live seal is within its mandate's band, and under the ceiling if it was
\* not restated.
SealsInv ==
  /\ DOMAIN sealed = Sides /\ DOMAIN recorded = Sides
  /\ \A side \in Sides :
       sealed[side] # None =>
         /\ sealed[side].price >= MinPrice(mandate[side], side)
         /\ mandate[side].partial /\ ~sealed[side].restated =>
              UnderCeiling(sealed[side].price, sealed[side].quantity, mandate[side])

PricesTyped ==
  /\ mandate \in Pairs
  /\ \A side \in Sides : sealed[side] \in SealOf(side) \cup {None}
  /\ recorded \in [Sides -> [price : Nat, quantity : Nat] \cup {None}]
  /\ trade = None \/ trade \in [bid : SealOf("buy"), ask : SealOf("sell"), quantity : Nat]

PricesInv ==
  /\ PricesTyped
  /\ SealsInv
  /\ TradeWithinRails
  /\ RecordMatchesSeal
  /\ DirectTradeUnderCeiling
  /\ AnchoredPairCrosses

\* The proposal of a turn, as sealed.
LEMMA OwnSeal ==
  ASSUME TypeOK, NEW side \in Sides, NEW play \in Plays(side),
         play.move.action \in PricedActions, play.decision.quantity > 0,
         NEW own, own = [price |-> play.decision.price,
                         quantity |-> play.decision.quantity,
                         restated |-> play.restated]
  PROVE  /\ own \in SealOf(side)
         /\ own.price >= MinPrice(mandate[side], side)
         /\ mandate[side].partial /\ ~own.restated =>
              UnderCeiling(own.price, own.quantity, mandate[side])
         /\ Terms(play.move) \in [price : Nat, quantity : Nat]
         /\ Terms(play.move).price = own.price
         /\ own.restated \/ Terms(play.move).quantity <= own.quantity
  <1>1. PlayOK(play, side)
    BY PlaysAreOK
  <1>2. /\ MandateOK(mandate[side]) /\ Context(side).mandate = mandate[side]
        /\ Context(side).side = side
    BY ContextIsOK
  <1>3. /\ play.decision \in Outcomes(Context(side))
        /\ play.move \in Outcomes(Context(side))
        /\ play.restated \in BOOLEAN
    BY <1>1 DEF PlayOK
  <1>4. /\ MinPrice(mandate[side], side) \in Nat \ {0}
        /\ MaxPrice(mandate[side], side) \in Nat
        /\ mandate[side].target \in Nat
    BY <1>2, PriceRange, RailRange
  <1>5. Band(Context(side)) = MinPrice(mandate[side], side) .. MaxPrice(mandate[side], side)
    BY <1>2 DEF Band
  <1>6. /\ play.decision.price \in Band(Context(side)) /\ play.move.price \in Band(Context(side))
        /\ play.decision.quantity \in 0 .. mandate[side].target
        /\ play.move.quantity \in 0 .. mandate[side].target
    BY <1>2, <1>3 DEF Outcomes
  <1>7. own \in SealOf(side) /\ own.price >= MinPrice(mandate[side], side)
    BY <1>3, <1>4, <1>5, <1>6 DEF SealOf
  <1>8. Terms(play.move) \in [price : Nat, quantity : Nat]
    BY <1>4, <1>5, <1>6 DEF Terms
  <1>9. QED  BY <1>1, <1>7, <1>8 DEF PlayOK, Terms

LEMMA QuietPrices ==
  ASSUME PricesInv, UNCHANGED <<mandate, sealed, recorded, trade>>
  PROVE  PricesInv'
  BY DEF PricesInv, PricesTyped, SealsInv, TradeWithinRails, RecordMatchesSeal,
         DirectTradeUnderCeiling, AnchoredPairCrosses, SealOf, TradePrice

\* A bid and an ask within their bands that cross make a trade within both
\* mandates.
LEMMA CrossedTrade ==
  ASSUME NEW m, NEW n, MandateOK(m), MandateOK(n),
         NEW bid \in Nat, NEW ask \in Nat, bid >= ask,
         bid <= MaxPrice(m, "buy"), ask >= MinPrice(n, "sell")
  PROVE  /\ 2 * WalkawayMin(n) <= bid + ask
         /\ bid + ask <= 2 * WalkawayMax(m)
  <1>1. /\ WalkawayMax(m) \in Nat /\ WalkawayMin(n) \in Nat
        /\ MaxPrice(m, "buy") = WalkawayMax(m) /\ MinPrice(n, "sell") = WalkawayMin(n)
    BY RailRange DEF MaxPrice, MinPrice
  <1>2. QED  BY <1>1

\* Less of what is under the ceiling is under it.
LEMMA UnderCeilingLess ==
  ASSUME NEW m, MandateOK(m), NEW price \in Nat \ {0}, NEW most \in Nat,
         NEW quantity \in Nat, quantity <= most, UnderCeiling(price, most, m)
  PROVE  UnderCeiling(price, quantity, m)
  <1> DEFINE c == 2 * NotionalCeiling(m) * QtyUnit
             less == most - quantity
  <1>1. c \in Nat
    BY CeilingRange, StrategyAssumption
  <1>2. 2 * price * most <= c + price + most
    BY DEF UnderCeiling
  <1> HIDE DEF c
  <1>3. less \in Nat /\ most = quantity + less
    OBVIOUS
  <1> HIDE DEF less
  <1>4. 2 * price * most = 2 * price * quantity + 2 * (price * less)
    BY <1>3
  <1>5. price * less \in Nat /\ less <= price * less
    BY <1>3
  <1>6. 2 * price * quantity \in Nat
    OBVIOUS
  <1>7. 2 * price * quantity <= c + price + quantity
    BY <1>1, <1>2, <1>3, <1>4, <1>5, <1>6
  <1>8. QED  BY <1>7 DEF UnderCeiling, c

\* Two proposals that are open at once do not cross, those of a turn that crossed
\* are consumed.
LEMMA PricedPrices ==
  ASSUME TypeOK, PricesInv, NEW side \in Sides, NEW play \in Plays(side),
         play.decision.quantity > 0,
         Priced(side, play.decision, play.move, play.restated)
  PROVE  PricesInv'
  <1> DEFINE own == [price |-> play.decision.price, quantity |-> play.decision.quantity,
                     restated |-> play.restated]
             bid == IF side = "buy" THEN own ELSE sealed["buy"]
             ask == IF side = "sell" THEN own ELSE sealed["sell"]
             row == Terms(play.move)
             least == IF bid.quantity < ask.quantity THEN bid.quantity ELSE ask.quantity
  <1>1. /\ own \in SealOf(side)
        /\ own.price >= MinPrice(mandate[side], side)
        /\ mandate[side].partial /\ ~own.restated =>
             UnderCeiling(own.price, own.quantity, mandate[side])
        /\ row \in [price : Nat, quantity : Nat]
        /\ row.price = own.price
        /\ own.restated \/ row.quantity <= own.quantity
    <2>1. play.move.action \in PricedActions
      BY DEF Priced
    <2>2. QED  BY <2>1, OwnSeal
  <1>2. /\ mandate' = mandate
        /\ recorded' = [recorded EXCEPT ![side] = row]
        /\ sealed' = IF Crosses(bid, ask) THEN [s \in Sides |-> None]
                     ELSE [sealed EXCEPT ![side] = own]
        /\ \/ trade' = trade
           \/ Crosses(bid, ask) /\ trade' = [bid |-> bid, ask |-> ask, quantity |-> least]
    BY DEF Priced
  <1>3. \A s \in Sides : MandateOK(mandate[s])
    BY ContextIsOK
  <1>4. /\ PricesTyped /\ SealsInv /\ TradeWithinRails /\ RecordMatchesSeal
        /\ DirectTradeUnderCeiling /\ AnchoredPairCrosses
    BY DEF PricesInv
  <1>5. \A s \in Sides : /\ MinPrice(mandate[s], s) \in Nat \ {0}
                         /\ MaxPrice(mandate[s], s) \in Nat
                         /\ mandate[s].target \in Nat
    BY <1>3, PriceRange, RailRange
  <1>6. "buy" \in Sides /\ "sell" \in Sides /\ \A s \in Sides : s = "buy" \/ s = "sell"
    BY DEF Sides
  <1>7. /\ bid = None \/ /\ bid \in SealOf("buy")
                         /\ bid.price >= MinPrice(mandate["buy"], "buy")
                         /\ mandate["buy"].partial /\ ~bid.restated =>
                              UnderCeiling(bid.price, bid.quantity, mandate["buy"])
        /\ ask = None \/ /\ ask \in SealOf("sell")
                         /\ ask.price >= MinPrice(mandate["sell"], "sell")
    BY <1>1, <1>4, <1>6 DEF PricesTyped, SealsInv
  <1> HIDE DEF own, bid, ask, row
  <1>8. ASSUME Crosses(bid, ask)
        PROVE  /\ bid \in SealOf("buy") /\ ask \in SealOf("sell")
               /\ bid.price \in Nat \ {0} /\ bid.quantity \in Nat
               /\ ask.price \in Nat \ {0} /\ ask.quantity \in Nat
               /\ bid.price >= ask.price
               /\ bid.price <= MaxPrice(mandate["buy"], "buy")
               /\ ask.price >= MinPrice(mandate["sell"], "sell")
               /\ bid.quantity <= mandate["buy"].target
               /\ ask.quantity <= mandate["sell"].target
               /\ mandate["buy"].partial /\ ~bid.restated =>
                    UnderCeiling(bid.price, bid.quantity, mandate["buy"])
    <2>1. bid # None /\ ask # None /\ bid.price >= ask.price
      BY <1>8 DEF Crosses
    <2>2. QED  BY <2>1, <1>5, <1>6, <1>7 DEF SealOf
  <1>9. SealOf("buy")' = SealOf("buy") /\ SealOf("sell")' = SealOf("sell")
        /\ SealOf(side)' = SealOf(side)
    BY <1>2 DEF SealOf
  <1>10. ASSUME trade' = trade
        PROVE  /\ TradeWithinRails' /\ DirectTradeUnderCeiling'
               /\ \/ trade' = None
                  \/ trade' \in [bid : SealOf("buy"), ask : SealOf("sell"),
                                 quantity : Nat]'
    <2>1. TradeWithinRails' /\ DirectTradeUnderCeiling'
      BY <1>2, <1>4, <1>10 DEF TradeWithinRails, DirectTradeUnderCeiling, TradePrice
    <2>2. trade' = None \/ trade' \in [bid : SealOf("buy"), ask : SealOf("sell"), quantity : Nat]'
      BY <1>4, <1>9, <1>10 DEF PricesTyped
    <2>3. QED  BY <2>1, <2>2
  <1>11. ASSUME Crosses(bid, ask),
                trade' = [bid |-> bid, ask |-> ask, quantity |-> least]
        PROVE  /\ TradeWithinRails' /\ DirectTradeUnderCeiling'
               /\ \/ trade' = None
                  \/ trade' \in [bid : SealOf("buy"), ask : SealOf("sell"),
                                 quantity : Nat]'
    <2>1. /\ least \in Nat /\ least <= bid.quantity /\ least <= ask.quantity
      BY <1>8, <1>11
    <2> HIDE DEF least
    <2>2. trade' \in [bid : SealOf("buy"), ask : SealOf("sell"), quantity : Nat]
      BY <1>8, <1>11, <2>1
    <2>3. /\ 2 * WalkawayMin(mandate["sell"]) <= bid.price + ask.price
          /\ bid.price + ask.price <= 2 * WalkawayMax(mandate["buy"])
      BY <1>3, <1>6, <1>8, <1>11, CrossedTrade
    <2>4. least <= mandate["buy"].target /\ least <= mandate["sell"].target
      BY <1>5, <1>6, <1>8, <1>11, <2>1
    <2>5. TradeWithinRails'
      BY <1>2, <1>6, <1>11, <2>3, <2>4 DEF TradeWithinRails, TradePrice
    <2>6. mandate["buy"].partial /\ ~bid.restated =>
            UnderCeiling(bid.price, least, mandate["buy"])
      BY <1>3, <1>6, <1>8, <1>11, <2>1, UnderCeilingLess
    <2>7. DirectTradeUnderCeiling'
      BY <1>2, <1>11, <2>6 DEF DirectTradeUnderCeiling, UnderCeiling, NotionalCeiling
    <2>8. QED  BY <1>9, <2>2, <2>5, <2>7
  <1>12. ASSUME Crosses(bid, ask)
        PROVE  /\ \A s \in Sides : sealed'[s] \in SealOf(s)' \cup {None}
               /\ SealsInv' /\ RecordMatchesSeal' /\ AnchoredPairCrosses'
    <2>1. sealed' = [s \in Sides |-> None]
      BY <1>2, <1>12
    <2>2. /\ \A s \in Sides : sealed'[s] \in SealOf(s)' \cup {None}
          /\ SealsInv' /\ RecordMatchesSeal' /\ AnchoredPairCrosses'
      BY <1>2, <1>4, <1>6, <2>1 DEF SealsInv, RecordMatchesSeal, AnchoredPairCrosses
    <2>3. QED  BY <2>2
  <1>13. ASSUME ~Crosses(bid, ask)
        PROVE  /\ \A s \in Sides : sealed'[s] \in SealOf(s)' \cup {None}
               /\ SealsInv' /\ RecordMatchesSeal' /\ AnchoredPairCrosses'
    <2>1. sealed' = [sealed EXCEPT ![side] = own] /\ DOMAIN sealed = Sides
      BY <1>2, <1>4, <1>13 DEF SealsInv
    <2>2. DOMAIN recorded = Sides /\ DOMAIN recorded' = Sides /\ DOMAIN sealed' = Sides
      BY <1>2, <1>4, <2>1 DEF SealsInv
    <2>3. /\ sealed'[side] = own /\ recorded'[side] = row
          /\ \A s \in Sides \ {side} : sealed'[s] = sealed[s] /\ recorded'[s] = recorded[s]
      BY <1>2, <2>1, <2>2
    <2>4. \A s \in Sides : sealed'[s] \in SealOf(s)' \cup {None}
      BY <1>1, <1>2, <1>4, <2>3 DEF PricesTyped, SealOf
    <2>5. SealsInv'
      BY <1>1, <1>2, <1>4, <2>2, <2>3 DEF SealsInv, UnderCeiling, NotionalCeiling
    <2>6. RecordMatchesSeal'
      BY <1>1, <1>4, <2>3 DEF RecordMatchesSeal
    <2>7. AnchoredPairCrosses'
      <3>1. SUFFICES ASSUME mandate["buy"].anchor >= mandate["sell"].anchor,
                            sealed'["buy"] # None, sealed'["sell"] # None
                     PROVE  FALSE
        BY <1>2, <1>6 DEF AnchoredPairCrosses
      <3>2. bid = sealed'["buy"] /\ ask = sealed'["sell"]
        BY <1>6, <2>3 DEF bid, ask
      <3>3. /\ bid \in SealOf("buy") /\ ask \in SealOf("sell")
            /\ bid.price >= MinPrice(mandate["buy"], "buy")
        BY <1>7, <3>1, <3>2
      <3>4. /\ bid.price \in Nat /\ ask.price \in Nat
            /\ ask.price <= MaxPrice(mandate["sell"], "sell")
        BY <1>5, <1>6, <3>3 DEF SealOf
      <3>5. /\ MinPrice(mandate["buy"], "buy") = mandate["buy"].anchor
            /\ MaxPrice(mandate["sell"], "sell") = mandate["sell"].anchor
        BY DEF MinPrice, MaxPrice
      <3>6. mandate["buy"].anchor \in Nat /\ mandate["sell"].anchor \in Nat
        BY <1>3, <1>6, RailRange
      <3>7. bid.price >= ask.price
        BY <3>1, <3>3, <3>4, <3>5, <3>6
      <3>8. QED  BY <1>13, <3>1, <3>2, <3>7 DEF Crosses
    <2>8. QED  BY <2>4, <2>5, <2>6, <2>7
  <1>14. /\ mandate' \in Pairs
         /\ recorded' \in [Sides -> [price : Nat, quantity : Nat] \cup {None}]
    BY <1>1, <1>2, <1>4 DEF PricesTyped
  <1>15. /\ TradeWithinRails' /\ DirectTradeUnderCeiling'
         /\ trade' = None \/ trade' \in [bid : SealOf("buy"), ask : SealOf("sell"), quantity : Nat]'
    BY <1>2, <1>10, <1>11
  <1>16. /\ \A s \in Sides : sealed'[s] \in SealOf(s)' \cup {None}
         /\ SealsInv' /\ RecordMatchesSeal' /\ AnchoredPairCrosses'
    BY <1>12, <1>13
  <1>17. QED  BY <1>14, <1>15, <1>16 DEF PricesInv, PricesTyped

-----------------------------------------------------------------------------
(* Rows and disclosures.                                                   *)

ClaimsTyped ==
  /\ status \in {"active", "awaiting_approval", "settled", "walked_away", "expired"}
  /\ turn \in Sides
  /\ round \in 0 .. MaxRounds
  /\ standing \in [Sides -> [price : Nat, quantity : Nat] \cup {None}]
  /\ requested \in [Sides -> Rows]
  /\ revealed \in [Sides -> Rows]
  /\ verified \in [Sides -> SUBSET Claims]
  /\ unnamed \subseteq Sides

\* A row takes a round.
CountInv ==
  \A side \in Sides : \A c \in Claims :
    requested[side][c] <= round /\ revealed[side][c] <= round

ClaimsInv == ClaimsTyped /\ CountInv /\ DisclosuresCapped

LEMMA TypeOKParts == TypeOK <=> PricesTyped /\ ClaimsTyped
  BY DEF TypeOK, PricesTyped, ClaimsTyped

LEMMA OtherSide ==
  ASSUME NEW side \in Sides
  PROVE  Other(side) \in Sides
  BY DEF Other, Sides

\* One more row for a claim of a side.
Counted(count, side, claim) == [count EXCEPT ![side][claim] = @ + 1]

LEMMA OneMore ==
  ASSUME NEW count \in [Sides -> Rows], NEW side \in Sides, NEW claim \in Claims,
         round \in Nat, round < MaxRounds,
         \A s \in Sides : \A c \in Claims : count[s][c] <= round,
         NEW next, next = Counted(count, side, claim)
  PROVE  /\ next \in [Sides -> Rows]
         /\ \A s \in Sides : \A c \in Claims :
              /\ next[s][c] <= round + 1
              /\ next[s][c] = IF s = side /\ c = claim THEN count[s][c] + 1
                              ELSE count[s][c]
  <1> DEFINE row == [count[side] EXCEPT ![claim] = @ + 1]
             more == [count EXCEPT ![side] = row]
  <1>1. MaxRounds \in Nat
    BY TurnsAssumption
  <1>2. \A s \in Sides : count[s] \in [Claims -> 0 .. MaxRounds]
    BY DEF Rows
  <1>3. /\ row \in [Claims -> 0 .. MaxRounds]
        /\ \A c \in Claims : /\ row[c] <= round + 1
                             /\ row[c] = IF c = claim THEN count[side][c] + 1
                                         ELSE count[side][c]
    BY <1>1, <1>2
  <1> HIDE DEF row
  <1>4. /\ more \in [Sides -> Rows]
        /\ \A s \in Sides : more[s] = IF s = side THEN row ELSE count[s]
    BY <1>3 DEF Rows
  <1>5. \A s \in Sides : \A c \in Claims : count[s][c] <= round + 1
    BY <1>1, <1>2
  <1>6. next = more
    BY DEF row, Counted
  <1> HIDE DEF more
  <1>7. QED  BY <1>3, <1>4, <1>5, <1>6

LEMMA TermsTyped ==
  ASSUME TypeOK, NEW side \in Sides, NEW move \in Outcomes(Context(side))
  PROVE  Terms(move) \in [price : Nat, quantity : Nat]
  <1>1. /\ MandateOK(mandate[side]) /\ Context(side).mandate = mandate[side]
        /\ Context(side).side = side
    BY ContextIsOK
  <1>2. /\ MinPrice(mandate[side], side) \in Nat /\ MaxPrice(mandate[side], side) \in Nat
        /\ mandate[side].target \in Nat
    BY <1>1, PriceRange, RailRange
  <1>3. move.price \in Nat /\ move.quantity \in Nat
    BY <1>1, <1>2 DEF Outcomes, Band
  <1>4. QED  BY <1>3 DEF Terms

\* A step that adds no disclosure keeps the counts, if the rounds do not shrink.
LEMMA SameCounts ==
  ASSUME ClaimsInv, round' \in 0 .. MaxRounds, round <= round',
         UNCHANGED <<requested, revealed, verified, unnamed>>
  PROVE  /\ CountInv' /\ DisclosuresCapped'
         /\ requested' \in [Sides -> Rows] /\ revealed' \in [Sides -> Rows]
         /\ verified' \in [Sides -> SUBSET Claims] /\ unnamed' \subseteq Sides
  <1>1. \A s \in Sides : \A c \in Claims :
          requested[s][c] \in Nat /\ revealed[s][c] \in Nat /\ round \in Nat
    BY TurnsAssumption DEF ClaimsInv, ClaimsTyped, Rows
  <1>2. CountInv'
    BY <1>1, TurnsAssumption DEF ClaimsInv, CountInv
  <1>3. QED  BY <1>2 DEF ClaimsInv, ClaimsTyped, DisclosuresCapped

LEMMA RevealClaims ==
  ASSUME TypeOK, ClaimsInv, NEW side \in Sides, round < MaxRounds,
         NEW play \in Plays(side), Reveal(side, play.move, play.renamed)
  PROVE  ClaimsInv'
  <1> DEFINE move == play.move
  <1>1. /\ PlayOK(play, side) /\ move.action = "reveal"
    BY PlaysAreOK DEF Reveal
  <1>2. /\ move \in Outcomes(Context(side)) /\ move.claim \in Claims
        /\ play.renamed \/ revealed[side][move.claim] < 2
    BY <1>1 DEF PlayOK
  <1>3. Terms(move) \in [price : Nat, quantity : Nat]
    BY <1>2, TermsTyped
  <1> HIDE DEF move
  <1>4. /\ revealed' = [revealed EXCEPT ![side][move.claim] = @ + 1]
        /\ verified' = IF side \in Signers
                       THEN [verified EXCEPT ![side] = @ \cup {move.claim}] ELSE verified
        /\ unnamed' = IF play.renamed THEN unnamed \cup {side} ELSE unnamed
        /\ standing' = [standing EXCEPT ![side] = Terms(move)]
        /\ turn' = Other(side) /\ round' = round + 1
        /\ status' = status /\ requested' = requested
    BY DEF Reveal, NoteDisclosure, RecordRow, PassTurn, move
  <1>5. /\ ClaimsTyped /\ CountInv /\ DisclosuresCapped /\ round \in Nat /\ MaxRounds \in Nat
    BY TurnsAssumption DEF ClaimsInv, ClaimsTyped
  <1>6. /\ revealed' \in [Sides -> Rows]
        /\ \A s \in Sides : \A c \in Claims :
             /\ revealed'[s][c] <= round + 1
             /\ revealed'[s][c] = IF s = side /\ c = move.claim THEN revealed[s][c] + 1
                                  ELSE revealed[s][c]
    <2>1. /\ revealed \in [Sides -> Rows]
          /\ \A s \in Sides : \A c \in Claims : revealed[s][c] <= round
      BY <1>5 DEF ClaimsTyped, CountInv
    <2>2. revealed' = Counted(revealed, side, move.claim)
      BY <1>4 DEF Counted
    <2>3. QED  BY <1>2, <1>5, <2>1, <2>2, OneMore
  <1>7. \A s \in Sides : \A c \in Claims :
          requested[s][c] \in Nat /\ revealed[s][c] \in Nat
    BY <1>5 DEF ClaimsTyped, Rows
  <1>8. CountInv'
    BY <1>4, <1>5, <1>6, <1>7 DEF CountInv
  <1>9. DisclosuresCapped'
    <2>1. SUFFICES ASSUME NEW s \in Sides \ unnamed', NEW c \in Claims
                   PROVE  requested'[s][c] <= 1 /\ revealed'[s][c] <= 2
      BY DEF DisclosuresCapped
    <2>2. s \in Sides \ unnamed /\ (s = side => ~play.renamed)
      BY <1>4
    <2>3. requested[s][c] <= 1 /\ revealed[s][c] <= 2
      BY <1>5, <2>2 DEF DisclosuresCapped
    <2>4. revealed'[s][c] <= 2
      BY <1>2, <1>6, <1>7, <2>2, <2>3
    <2>5. QED  BY <1>4, <2>3, <2>4
  <1>10. ClaimsTyped'
    <2>1. verified' \in [Sides -> SUBSET Claims] /\ unnamed' \subseteq Sides
      BY <1>2, <1>4, <1>5 DEF ClaimsTyped
    <2>2. standing' \in [Sides -> [price : Nat, quantity : Nat] \cup {None}]
      BY <1>3, <1>4, <1>5 DEF ClaimsTyped
    <2>3. turn' \in Sides /\ round' \in 0 .. MaxRounds
      BY <1>4, <1>5, OtherSide
    <2>4. QED  BY <1>4, <1>5, <1>6, <2>1, <2>2, <2>3 DEF ClaimsTyped
  <1>11. QED  BY <1>8, <1>9, <1>10 DEF ClaimsInv

LEMMA RequestClaims ==
  ASSUME TypeOK, ClaimsInv, NEW side \in Sides, round < MaxRounds,
         NEW play \in Plays(side), RequestDisclosure(side, play.move, play.renamed)
  PROVE  ClaimsInv'
  <1> DEFINE move == play.move
  <1>1. /\ PlayOK(play, side) /\ move.action = "request_disclosure"
    BY PlaysAreOK DEF RequestDisclosure
  <1>2. /\ move \in Outcomes(Context(side)) /\ move.claim \in Claims
        /\ play.renamed \/ requested[side][move.claim] < 1
    BY <1>1 DEF PlayOK
  <1>3. Terms(move) \in [price : Nat, quantity : Nat]
    BY <1>2, TermsTyped
  <1> HIDE DEF move
  <1>4. /\ requested' = [requested EXCEPT ![side][move.claim] = @ + 1]
        /\ unnamed' = IF play.renamed THEN unnamed \cup {side} ELSE unnamed
        /\ standing' = [standing EXCEPT ![side] = Terms(move)]
        /\ turn' = Other(side) /\ round' = round + 1
        /\ status' = status /\ revealed' = revealed /\ verified' = verified
    BY DEF RequestDisclosure, NoteDisclosure, RecordRow, PassTurn, move
  <1>5. /\ ClaimsTyped /\ CountInv /\ DisclosuresCapped /\ round \in Nat /\ MaxRounds \in Nat
    BY TurnsAssumption DEF ClaimsInv, ClaimsTyped
  <1>6. /\ requested' \in [Sides -> Rows]
        /\ \A s \in Sides : \A c \in Claims :
             /\ requested'[s][c] <= round + 1
             /\ requested'[s][c] = IF s = side /\ c = move.claim THEN requested[s][c] + 1
                                   ELSE requested[s][c]
    <2>1. /\ requested \in [Sides -> Rows]
          /\ \A s \in Sides : \A c \in Claims : requested[s][c] <= round
      BY <1>5 DEF ClaimsTyped, CountInv
    <2>2. requested' = Counted(requested, side, move.claim)
      BY <1>4 DEF Counted
    <2>3. QED  BY <1>2, <1>5, <2>1, <2>2, OneMore
  <1>7. \A s \in Sides : \A c \in Claims :
          requested[s][c] \in Nat /\ revealed[s][c] \in Nat
    BY <1>5 DEF ClaimsTyped, Rows
  <1>8. CountInv'
    BY <1>4, <1>5, <1>6, <1>7 DEF CountInv
  <1>9. DisclosuresCapped'
    <2>1. SUFFICES ASSUME NEW s \in Sides \ unnamed', NEW c \in Claims
                   PROVE  requested'[s][c] <= 1 /\ revealed'[s][c] <= 2
      BY DEF DisclosuresCapped
    <2>2. s \in Sides \ unnamed /\ (s = side => ~play.renamed)
      BY <1>4
    <2>3. requested[s][c] <= 1 /\ revealed[s][c] <= 2
      BY <1>5, <2>2 DEF DisclosuresCapped
    <2>4. requested'[s][c] <= 1
      BY <1>2, <1>6, <1>7, <2>2, <2>3
    <2>5. QED  BY <1>4, <2>3, <2>4
  <1>10. ClaimsTyped'
    <2>1. unnamed' \subseteq Sides
      BY <1>4, <1>5 DEF ClaimsTyped
    <2>2. standing' \in [Sides -> [price : Nat, quantity : Nat] \cup {None}]
      BY <1>3, <1>4, <1>5 DEF ClaimsTyped
    <2>3. turn' \in Sides /\ round' \in 0 .. MaxRounds
      BY <1>4, <1>5, OtherSide
    <2>4. QED  BY <1>4, <1>5, <1>6, <2>1, <2>2, <2>3 DEF ClaimsTyped
  <1>11. QED  BY <1>8, <1>9, <1>10 DEF ClaimsInv

LEMMA HoldClaims ==
  ASSUME TypeOK, ClaimsInv, NEW side \in Sides, round < MaxRounds,
         NEW play \in Plays(side), Hold(side, play.move)
  PROVE  ClaimsInv'
  <1>1. play.move \in Outcomes(Context(side))
    BY PlaysAreOK DEF PlayOK
  <1>2. Terms(play.move) \in [price : Nat, quantity : Nat]
    BY <1>1, TermsTyped
  <1>3. /\ standing' = [standing EXCEPT ![side] = Terms(play.move)]
        /\ turn' = Other(side) /\ round' = round + 1 /\ status' = status
        /\ UNCHANGED <<requested, revealed, verified, unnamed>>
    BY DEF Hold, RecordRow, PassTurn
  <1>4. ClaimsTyped /\ round \in Nat /\ MaxRounds \in Nat
    BY TurnsAssumption DEF ClaimsInv, ClaimsTyped
  <1>5. round' \in 0 .. MaxRounds /\ round <= round'
    BY <1>3, <1>4
  <1>6. /\ CountInv' /\ DisclosuresCapped'
        /\ requested' \in [Sides -> Rows] /\ revealed' \in [Sides -> Rows]
        /\ verified' \in [Sides -> SUBSET Claims] /\ unnamed' \subseteq Sides
    BY <1>3, <1>5, SameCounts
  <1>7. /\ standing' \in [Sides -> [price : Nat, quantity : Nat] \cup {None}]
        /\ turn' \in Sides
    BY <1>2, <1>3, <1>4, OtherSide DEF ClaimsTyped
  <1>8. QED  BY <1>3, <1>4, <1>5, <1>6, <1>7 DEF ClaimsInv, ClaimsTyped

LEMMA PricedClaims ==
  ASSUME TypeOK, ClaimsInv, NEW side \in Sides, round < MaxRounds,
         NEW play \in Plays(side),
         Priced(side, play.decision, play.move, play.restated)
  PROVE  ClaimsInv'
  <1>1. play.move \in Outcomes(Context(side))
    BY PlaysAreOK DEF PlayOK
  <1>2. Terms(play.move) \in [price : Nat, quantity : Nat]
    BY <1>1, TermsTyped
  <1>3. /\ standing' = [standing EXCEPT ![side] = Terms(play.move)]
        /\ turn' \in {turn, Other(side)} /\ round' \in {round, round + 1}
        /\ status' \in {status, "awaiting_approval", "settled"}
        /\ UNCHANGED <<requested, revealed, verified, unnamed>>
    BY DEF Priced, PassTurn
  <1>4. ClaimsTyped /\ round \in Nat /\ MaxRounds \in Nat
    BY TurnsAssumption DEF ClaimsInv, ClaimsTyped
  <1>5. round' \in 0 .. MaxRounds /\ round <= round'
    BY <1>3, <1>4 DEF ClaimsTyped
  <1>6. /\ CountInv' /\ DisclosuresCapped'
        /\ requested' \in [Sides -> Rows] /\ revealed' \in [Sides -> Rows]
        /\ verified' \in [Sides -> SUBSET Claims] /\ unnamed' \subseteq Sides
    BY <1>3, <1>5, SameCounts
  <1>7. /\ standing' \in [Sides -> [price : Nat, quantity : Nat] \cup {None}]
        /\ turn' \in Sides
        /\ status' \in {"active", "awaiting_approval", "settled", "walked_away", "expired"}
    BY <1>2, <1>3, <1>4, OtherSide DEF ClaimsTyped
  <1>8. QED  BY <1>5, <1>6, <1>7 DEF ClaimsInv, ClaimsTyped

LEMMA OutOfBandClaims ==
  ASSUME TypeOK, ClaimsInv, NEW side \in Sides, round < MaxRounds,
         NEW play \in Plays(side), OutOfBand(side, play.move)
  PROVE  ClaimsInv'
  <1>1. /\ standing' = [standing EXCEPT ![side] = None]
        /\ turn' = Other(side) /\ round' = round + 1 /\ status' = status
        /\ UNCHANGED <<requested, revealed, verified, unnamed>>
    BY DEF OutOfBand, PassTurn
  <1>2. ClaimsTyped /\ round \in Nat /\ MaxRounds \in Nat
    BY TurnsAssumption DEF ClaimsInv, ClaimsTyped
  <1>3. round' \in 0 .. MaxRounds /\ round <= round'
    BY <1>1, <1>2
  <1>4. /\ CountInv' /\ DisclosuresCapped'
        /\ requested' \in [Sides -> Rows] /\ revealed' \in [Sides -> Rows]
        /\ verified' \in [Sides -> SUBSET Claims] /\ unnamed' \subseteq Sides
    BY <1>1, <1>3, SameCounts
  <1>5. /\ standing' \in [Sides -> [price : Nat, quantity : Nat] \cup {None}]
        /\ turn' \in Sides
    BY <1>1, <1>2, OtherSide DEF ClaimsTyped
  <1>6. QED  BY <1>1, <1>2, <1>3, <1>4, <1>5 DEF ClaimsInv, ClaimsTyped

\* A session that ends without a trade.
LEMMA EndClaims ==
  ASSUME ClaimsInv, status' \in {"walked_away", "expired"},
         round' \in 0 .. MaxRounds, round <= round',
         UNCHANGED <<turn, standing, requested, revealed, verified, unnamed>>
  PROVE  ClaimsInv'
  <1>1. /\ CountInv' /\ DisclosuresCapped'
        /\ requested' \in [Sides -> Rows] /\ revealed' \in [Sides -> Rows]
        /\ verified' \in [Sides -> SUBSET Claims] /\ unnamed' \subseteq Sides
    BY SameCounts
  <1>2. QED  BY <1>1 DEF ClaimsInv, ClaimsTyped

-----------------------------------------------------------------------------
(* The invariant.                                                          *)

Inv == PricesInv /\ ClaimsInv

LEMMA InvTyped == Inv => TypeOK
  BY TypeOKParts DEF Inv, PricesInv, ClaimsInv

LEMMA InvInit == Init => Inv
  <1> SUFFICES ASSUME Init  PROVE Inv
    OBVIOUS
  <1>1. MaxRounds \in Nat
    BY TurnsAssumption
  <1>2. "buy" \in Sides /\ "sell" \in Sides
    BY DEF Sides
  <1>3. NoClaims \in Rows /\ \A c \in Claims : NoClaims[c] = 0
    BY <1>1 DEF NoClaims, Rows
  <1>4. PricesTyped
    BY DEF Init, PricesTyped
  <1>5. SealsInv /\ RecordMatchesSeal /\ AnchoredPairCrosses
    BY <1>2 DEF Init, SealsInv, RecordMatchesSeal, AnchoredPairCrosses
  <1>6. TradeWithinRails /\ DirectTradeUnderCeiling
    BY DEF Init, TradeWithinRails, DirectTradeUnderCeiling
  <1>7. ClaimsTyped
    BY <1>1, <1>2, <1>3 DEF Init, ClaimsTyped
  <1>8. CountInv /\ DisclosuresCapped
    BY <1>3 DEF Init, CountInv, DisclosuresCapped
  <1>9. QED  BY <1>4, <1>5, <1>6, <1>7, <1>8 DEF Inv, PricesInv, ClaimsInv

LEMMA InvTurn ==
  ASSUME Inv, NEW side \in Sides, Turn(side)
  PROVE  Inv'
  <1>1. TypeOK /\ PricesInv /\ ClaimsInv /\ round < MaxRounds
    BY InvTyped DEF Inv, Turn
  <1>2. ASSUME NEW play \in Plays(side), Reveal(side, play.move, play.renamed)
        PROVE  Inv'
    <2>1. UNCHANGED <<mandate, sealed, recorded, trade>>
      BY <1>2 DEF Reveal, RecordRow
    <2>2. QED  BY <1>1, <1>2, <2>1, QuietPrices, RevealClaims DEF Inv
  <1>3. ASSUME NEW play \in Plays(side), RequestDisclosure(side, play.move, play.renamed)
        PROVE  Inv'
    <2>1. UNCHANGED <<mandate, sealed, recorded, trade>>
      BY <1>3 DEF RequestDisclosure, RecordRow
    <2>2. QED  BY <1>1, <1>3, <2>1, QuietPrices, RequestClaims DEF Inv
  <1>4. ASSUME NEW play \in Plays(side), Hold(side, play.move)
        PROVE  Inv'
    <2>1. UNCHANGED <<mandate, sealed, recorded, trade>>
      BY <1>4 DEF Hold, RecordRow
    <2>2. QED  BY <1>1, <1>4, <2>1, QuietPrices, HoldClaims DEF Inv
  <1>5. ASSUME NEW play \in Plays(side), play.decision.quantity > 0,
               Priced(side, play.decision, play.move, play.restated)
        PROVE  Inv'
    BY <1>1, <1>5, PricedPrices, PricedClaims DEF Inv
  <1>6. ASSUME NEW play \in Plays(side), OutOfBand(side, play.move)
        PROVE  Inv'
    <2>1. UNCHANGED <<mandate, sealed, recorded, trade>>
      BY <1>6 DEF OutOfBand
    <2>2. QED  BY <1>1, <1>6, <2>1, QuietPrices, OutOfBandClaims DEF Inv
  <1>7. CASE WalkAway(side)
    <2>1. /\ UNCHANGED <<mandate, sealed, recorded, trade>>
          /\ status' = "walked_away" /\ round' = round + 1
          /\ UNCHANGED <<turn, standing, requested, revealed, verified, unnamed>>
      BY <1>7 DEF WalkAway
    <2>2. round' \in 0 .. MaxRounds /\ round <= round'
      BY <1>1, <2>1, TurnsAssumption DEF ClaimsInv, ClaimsTyped
    <2>3. QED  BY <1>1, <2>1, <2>2, QuietPrices, EndClaims DEF Inv
  <1>8. QED  BY <1>2, <1>3, <1>4, <1>5, <1>6, <1>7 DEF Turn

LEMMA InvNext == Inv /\ [Next]_vars => Inv'
  <1> SUFFICES ASSUME Inv, [Next]_vars  PROVE Inv'
    OBVIOUS
  <1>1. CASE \E side \in Sides : Turn(side)
    BY <1>1, InvTurn
  <1>2. CASE Expire
    <2>1. /\ UNCHANGED <<mandate, sealed, recorded, trade>>
          /\ status' = "expired" /\ round' = round
          /\ UNCHANGED <<turn, standing, requested, revealed, verified, unnamed>>
      BY <1>2 DEF Expire
    <2>2. round' \in 0 .. MaxRounds /\ round <= round'
      BY <2>1, TurnsAssumption DEF Inv, ClaimsInv, ClaimsTyped
    <2>3. QED  BY <2>1, <2>2, QuietPrices, EndClaims DEF Inv
  <1>3. CASE UNCHANGED vars
    BY <1>3 DEF vars, Inv, PricesInv, PricesTyped, SealsInv, TradeWithinRails,
         RecordMatchesSeal, DirectTradeUnderCeiling, AnchoredPairCrosses, SealOf,
         TradePrice, ClaimsInv, ClaimsTyped, CountInv, DisclosuresCapped
  <1>4. QED  BY <1>1, <1>2, <1>3 DEF Next

LEMMA InvAlways == Spec => []Inv
  BY InvInit, InvNext, PTL DEF Spec

\* Prices, quantities and counts stay in their ranges, the sealed ones in the
\* band and the target of their mandate.
THEOREM TypeCorrect == Spec => []TypeOK
  BY InvAlways, InvTyped, PTL

\* No LLM can make its agent trade outside the walk-away prices or the target
\* of either mandate.
THEOREM RailsHold == Spec => []TradeWithinRails
  <1>1. Inv => TradeWithinRails
    BY DEF Inv, PricesInv
  <1>2. QED  BY InvAlways, <1>1, PTL

\* The backend's record of a live proposal has the sealed price, and at most the
\* sealed quantity unless the runtime restated the move.
THEOREM RecordsMatch == Spec => []RecordMatchesSeal
  <1>1. Inv => RecordMatchesSeal
    BY DEF Inv, PricesInv
  <1>2. QED  BY InvAlways, <1>1, PTL

\* What a partial buyer's LLM proposed itself trades under the notional ceiling.
THEOREM CeilingHolds == Spec => []DirectTradeUnderCeiling
  <1>1. Inv => DirectTradeUnderCeiling
    BY DEF Inv, PricesInv
  <1>2. QED  BY InvAlways, <1>1, PTL

\* Two proposals are never open at once when the anchors meet.
THEOREM AnchorsCross == Spec => []AnchoredPairCrosses
  <1>1. Inv => AnchoredPairCrosses
    BY DEF Inv, PricesInv
  <1>2. QED  BY InvAlways, <1>1, PTL

\* A claim is requested once and revealed twice at most.
THEOREM DisclosuresEnd == Spec => []DisclosuresCapped
  <1>1. Inv => DisclosuresCapped
    BY DEF Inv, ClaimsInv
  <1>2. QED  BY InvAlways, <1>1, PTL
=============================================================================
