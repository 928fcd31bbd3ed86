-------------------------------- MODULE Fees --------------------------------
(***************************************************************************)
(* apps/config/fee: how the nominal of a purchase or a payout is split     *)
(* among the provider, the house, the agents and the merchant.             *)
(*                                                                         *)
(* A percentage is a number of parts of Whole, an amount is a number of    *)
(* the smallest unit.  Before it is rounded, an amount is counted in parts *)
(* of that unit.                                                           *)
(***************************************************************************)
EXTENDS Integers, FiniteSets

CONSTANTS
    Agents,     \* ids of the agents
    Whole       \* the parts that make 100 per cent

ASSUME FeeAssumption == Whole \in Nat \ {0} /\ Agents \subseteq Nat /\ IsFiniteSet(Agents)

\* A fee, in fixed units and in parts of the nominal.
Price == [fixed : Nat, part : Nat]

\* A MerchantFee row: what the house and the agents together charge.
MerchantFee == [internal : Price, agent : Price]

\* The AgentShareholder rows of a merchant: each agent's part of the agents' fee.
Shares == UNION {[A -> 0 .. Whole] : A \in SUBSET Agents}

NoShares == [a \in {} |-> 0]

\* toFixed(2) of x parts, `unit` of which are one: half is rounded away from zero.
ToFixed(x, unit) ==
    IF x >= 0 THEN (2 * x + unit) \div (2 * unit) ELSE -((unit - 2 * x) \div (2 * unit))

\* Fixed and percentage, in Whole-ths of a unit.
Exact(price, nominal) == price.fixed * Whole + price.part * nominal

\* isMerchantHaveAgents
HasAgents(fee) == fee.agent.fixed # 0 \/ fee.agent.part # 0

\* Each agent's share is taken of the agents' fee before that is rounded.
AgentNominals(fee, shares, nominal) ==
    [a \in DOMAIN shares |-> ToFixed(Exact(fee.agent, nominal) * shares[a], Whole * Whole)]

\* Mutant: the agents' fee is left with the merchant.
FeesButAgents(base, fee, nominal) ==
    Exact(base, nominal) + Exact(fee.internal, nominal)

FeesOf(base, fee, nominal) ==
    Exact(base, nominal) + Exact(fee.internal, nominal) + Exact(fee.agent, nominal)

\* What the merchant is left with, or has to pay: rounded from the exact fees.
NetNominal(kind, base, fee, nominal) ==
    LET fees == FeesOf(base, fee, nominal)
    IN  ToFixed(IF kind = "PURCHASE" THEN nominal * Whole - fees ELSE nominal * Whole + fees, Whole)

\* calculate
Calculate(kind, base, fee, shares, nominal) ==
    [provider |-> ToFixed(Exact(base, nominal), Whole),
     internal |-> ToFixed(Exact(fee.internal, nominal), Whole),
     agent    |-> ToFixed(Exact(fee.agent, nominal), Whole),
     agents   |-> AgentNominals(fee, shares, nominal),
     parts    |-> shares,
     net      |-> NetNominal(kind, base, fee, nominal)]

\* The type of what calculate returns.
CalculationOK(c) ==
    /\ {c.provider, c.internal, c.agent} \subseteq Nat
    /\ c.parts \in Shares
    /\ c.agents \in [DOMAIN c.parts -> Nat]
    /\ c.net \in Int

=============================================================================
