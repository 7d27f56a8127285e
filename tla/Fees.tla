-------------------------------- MODULE Fees --------------------------------
(***************************************************************************)
(* What a transaction offers to pay: the estimates of four speeds          *)
(* (evm/src/gas/estimator.ts), the type and the fee fields that a write    *)
(* takes from them, the caller's overrides and the policy (tx/fees.ts,     *)
(* contract/pipeline/internal/prepare.ts), and the higher offer of each    *)
(* transaction that replaces it (tx/replacement.ts).                       *)
(*                                                                         *)
(* Outside the code are the chain, which may answer every read with        *)
(* another amount, and the nodes, which take a transaction only if its     *)
(* fields fit its type, and a replacement only if it outbids the last.     *)
(***************************************************************************)
EXTENDS Integers

CONSTANTS
    Amounts,     \* amounts of fees that the chain may answer with
    Overrides,   \* the caller's overrides
    Policies,    \* the policies
    MaxBumps,    \* bound on replacements
    Unset

Speeds == {"slow", "standard", "fast", "instant"}
Multiplier == [slow |-> 90, standard |-> 100, fast |-> 125, instant |-> 150]
Fields == {"gasPrice", "maxFeePerGas", "maxPriorityFeePerGas"}
Offer == [Fields -> Nat \union {Unset}]

ASSUME FeesAssumption ==
    /\ Amounts \subseteq Nat /\ Unset \notin Nat /\ MaxBumps \in Nat
    /\ Overrides \subseteq [type : {Unset, "legacy", "eip2930", "eip1559"}, offer : Offer]
    /\ Policies \subseteq [txType : {Unset, "legacy", "eip1559"}, speed : Speeds,
                           maxFeePerGas : Nat \union {Unset}, maxPriorityFeePerGas : Nat \union {Unset}]

VARIABLES
    override, policy,
    hasBaseFee,  \* the chain's latest block has a base fee; a pending one may lack it
    feeAt,       \* "deriving", "sent", or "failed" for want of an estimate
    txType, offer, \* of the transaction sent last
    lastOffer,   \* history: of the one that it replaced
    bumps

feeVars == <<override, policy, hasBaseFee, feeAt, txType, offer, lastOffer, bumps>>

NoOffer == [f \in Fields |-> Unset]
Legacy(price) == [NoOffer EXCEPT !["gasPrice"] = price]
Dynamic(fee, tip) == [NoOffer EXCEPT !["maxFeePerGas"] = fee, !["maxPriorityFeePerGas"] = tip]

----------------------------------------------------------------------------
(* Estimates. *)

(* Mutant: rounded down. *)
tipForFloor(tip, speed) == (tip * Multiplier[speed]) \div 100

tipFor(tip, speed) == (tip * Multiplier[speed] + 99) \div 100

getLegacyFeeEstimates(price, speed) ==
    LET scaled == (price * Multiplier[speed]) \div 100
    IN [gasPrice |-> scaled, maxFeePerGas |-> scaled, maxPriorityFeePerGas |-> 0]

makeEstimate(base, tip, speed) ==
    [gasPrice |-> Unset, maxFeePerGas |-> 2 * base + tipFor(tip, speed),
     maxPriorityFeePerGas |-> tipFor(tip, speed)]

(* The estimates that the chain's answers can lead to: of the gas price, where
   there is no base fee or the node suggests no tip. *)
getAllFeeEstimates(speed) ==
    {getLegacyFeeEstimates(price, speed) : price \in Amounts}
    \union (IF hasBaseFee THEN {makeEstimate(base, tip, speed) : base, tip \in Amounts} ELSE {})

----------------------------------------------------------------------------
(* The first transaction. *)

cap(value, limit) == IF limit # Unset /\ value > limit THEN limit ELSE value

deriveTxType ==
    IF override.type # Unset THEN override.type
    ELSE IF policy.txType # Unset THEN policy.txType
    ELSE IF override.offer["gasPrice"] # Unset THEN "legacy"
    ELSE IF hasBaseFee THEN "eip1559" ELSE "legacy"

orElse(value, other) == IF value # Unset THEN value ELSE other

deriveFeeOverrides(estimate) ==
    LET given == override.offer
    IN IF given["gasPrice"] # Unset THEN Legacy(given["gasPrice"])
       ELSE IF given["maxFeePerGas"] # Unset
         THEN Dynamic(given["maxFeePerGas"], given["maxPriorityFeePerGas"])
       ELSE IF deriveTxType \in {"legacy", "eip2930"}
         THEN Legacy(cap(orElse(estimate.gasPrice, estimate.maxFeePerGas), policy.maxFeePerGas))
       ELSE Dynamic(cap(estimate.maxFeePerGas, policy.maxFeePerGas),
                    orElse(given["maxPriorityFeePerGas"],
                           cap(estimate.maxPriorityFeePerGas, policy.maxPriorityFeePerGas)))

(* The caller's fields stay where the derived ones have none: the fields derived
   are laid over them. *)
deriveBaseOverrides(estimate) ==
    LET derived == deriveFeeOverrides(estimate)
        named(f) == IF derived["gasPrice"] # Unset THEN f = "gasPrice" ELSE f # "gasPrice"
    IN [f \in Fields |-> IF named(f) THEN derived[f] ELSE override.offer[f]]

(* What the nodes, and viem before them, take. *)
fits(type, o) ==
    IF type = "eip1559"
      THEN /\ o["gasPrice"] = Unset
           /\ o["maxFeePerGas"] # Unset /\ o["maxPriorityFeePerGas"] # Unset
             => o["maxPriorityFeePerGas"] <= o["maxFeePerGas"]
      ELSE o["maxFeePerGas"] = Unset /\ o["maxPriorityFeePerGas"] = Unset

FeesInit ==
    /\ override \in Overrides /\ policy \in Policies /\ hasBaseFee \in BOOLEAN
    /\ feeAt = "deriving" /\ txType = Unset
    /\ offer = NoOffer /\ lastOffer = NoOffer /\ bumps = 0

(* Reads of the chain may fail, unless the caller's overrides spare them. *)
asksChain ==
    \/ override.type = Unset /\ policy.txType = Unset /\ override.offer["gasPrice"] = Unset
    \/ override.offer["gasPrice"] = Unset /\ override.offer["maxFeePerGas"] = Unset

Derive ==
    /\ feeAt = "deriving"
    /\ \/ /\ asksChain /\ feeAt' = "failed"
          /\ UNCHANGED <<txType, offer>>
       \/ \E estimate \in getAllFeeEstimates(policy.speed) :
            /\ feeAt' = "sent" /\ txType' = deriveTxType
            /\ offer' = deriveBaseOverrides(estimate)
    /\ UNCHANGED <<override, policy, hasBaseFee, lastOffer, bumps>>

----------------------------------------------------------------------------
(* Replacements. *)

bumpByPercent(value) == (value * 11250 + 9999) \div 10000

(* Mutant: rounded down. *)
bumpByPercentFloor(value) == (value * 11250) \div 10000

larger(x, y) == IF x >= y THEN x ELSE y

computeFeeBump(estimate) ==
    LET bumped(old, suggested, limit) ==
          cap(larger(bumpByPercent(orElse(old, suggested)), suggested), limit)
        price == orElse(estimate.gasPrice, estimate.maxFeePerGas)
    IN IF txType # "eip1559" THEN Legacy(bumped(offer["gasPrice"], price, policy.maxFeePerGas))
       ELSE Dynamic(bumped(offer["maxFeePerGas"], estimate.maxFeePerGas, policy.maxFeePerGas),
                    bumped(offer["maxPriorityFeePerGas"], estimate.maxPriorityFeePerGas,
                           policy.maxPriorityFeePerGas))

(* What was sent is in the pool, so it fits and has every field of its type; one
   that has a field of the wallet's choice is left out. *)
Replace ==
    /\ feeAt = "sent" /\ fits(txType, offer) /\ bumps < MaxBumps
    /\ txType = "eip1559" => offer["maxFeePerGas"] # Unset /\ offer["maxPriorityFeePerGas"] # Unset
    /\ \E estimate \in getAllFeeEstimates(policy.speed) : offer' = computeFeeBump(estimate)
    /\ lastOffer' = offer /\ bumps' = bumps + 1
    /\ txType' = IF txType = "eip1559" THEN "eip1559" ELSE "legacy"
    /\ UNCHANGED <<override, policy, hasBaseFee, feeAt>>

FeesNext == Derive \/ Replace

FeesSpec == FeesInit /\ [][FeesNext]_feeVars

----------------------------------------------------------------------------
(* A caller who leaves the fees to the library, or sets type and fee so that they
   fit, gets a transaction that the nodes take. *)
Consistent ==
    \/ override.offer = NoOffer
    \/ /\ override.type # Unset /\ fits(override.type, override.offer)
       /\ override.offer["gasPrice"] # Unset \/ override.offer["maxFeePerGas"] # Unset

(* The policy's cap on the whole fee has cut the offer; it does not know of the tip. *)
CutShort == policy.maxFeePerGas # Unset /\ offer["maxFeePerGas"] = policy.maxFeePerGas
capOf(f) == IF f = "maxPriorityFeePerGas" THEN policy.maxPriorityFeePerGas ELSE policy.maxFeePerGas

Outbids(f) == offer[f] > lastOffer[f] /\ 100 * offer[f] >= 110 * lastOffer[f]

(* Of a consistent caller, the nodes take every transaction for its fields, but
   where a cap on the fee falls below the tip.  Every replacement offers as much
   more, in each of its fields, as nodes ask for (a tenth, and not nothing), unless
   that field has reached the policy's cap, or was a tip of zero and no tip is
   suggested.  Offers of the library's own making keep to the caps.  And a node's
   suggestion, however small, stays a tip at every speed. *)
FeesSound ==
    /\ feeAt = "sent" /\ Consistent => fits(txType, offer) \/ CutShort
    /\ bumps > 0 => \A f \in Fields : lastOffer[f] # Unset =>
         Outbids(f) \/ offer[f] = capOf(f) \/ (offer[f] = 0 /\ lastOffer[f] = 0)
    /\ feeAt = "sent" /\ (bumps > 0 \/ override.offer = NoOffer) =>
         \A f \in Fields : offer[f] # Unset /\ capOf(f) # Unset => offer[f] <= capOf(f)
    /\ \A tip \in Amounts, speed \in Speeds : tip > 0 => tipFor(tip, speed) > 0
=============================================================================
