--------------------------- MODULE AccrualPricing ---------------------------
(***************************************************************************)
(* What a period owes (accrual.ts, config.ts, and the two queries that say *)
(* what was earned: usage.ts, credits.ts).  Two layers, confirmed spend    *)
(* and credits, are priced apart, each with its ceiling and its rate, and  *)
(* what an address is owed is added up.  Amounts are base units, so        *)
(* division is floor division.  A whole period is a function of its rows,  *)
(* the wallets on file and the configuration.                              *)
(*                                                                         *)
(* Definitions called Bug... are variants of the one that follows them, as *)
(* a plausible mistake in the code would make it; nothing here uses them.  *)
(***************************************************************************)
EXTENDS Naturals, FiniteSets, FiniteSetsExt

CONSTANTS
  Workspaces,
  Payees,       \* addresses that can be paid
  BasisPoints,  \* the cap is so many of these
  MinutesPerDay,
  MaxUnits,     \* bound: units a workspace earns in a period
  Ceilings,     \* bound: daily ceilings tried
  Rates, Caps,  \* bound: rates and caps tried
  Minutes       \* bound: lengths of a period tried

ASSUME PricingAssumption ==
  /\ IsFiniteSet(Workspaces) /\ IsFiniteSet(Payees)
  /\ BasisPoints \in Nat \ {0} /\ MinutesPerDay \in Nat \ {0} /\ MaxUnits \in Nat
  /\ Ceilings \subseteq Nat /\ Rates \subseteq Nat /\ Caps \subseteq Nat /\ Minutes \subseteq Nat

\* Why nobody is paid for a workspace: no wallet, an unusable one, no row.
Reasons == {"no-wallet", "unusable-wallet", "workspace-missing"}
ASSUME ReasonsAreNoAddresses == Payees \cap Reasons = {}
Wallets == [Workspaces -> Payees \cup Reasons]
Units == [Workspaces -> 0..MaxUnits]

Lesser(a, b) == IF a < b THEN a ELSE b
SumOf(f, S) == MapThenSumSet(LAMBDA x : f[x], S)
Added(f) == SumOf(f, DOMAIN f)

(***************************************************************************)
(* spendInWindow and creditsInWindow: windows are half-open.               *)
(***************************************************************************)
UnitsOf(rows) ==
  [w \in Workspaces |-> Added([r \in {q \in rows : q.workspace = w} |-> r.units])]
BugSpendInWindow(rows, since, until) ==
  UnitsOf({r \in rows : r.status = "verified" /\ since <= r.at /\ r.at <= until})
SpendInWindow(rows, since, until) ==
  UnitsOf({r \in rows : r.status = "verified" /\ since <= r.at /\ r.at < until})
CreditsInWindow(rows, since, until) ==
  UnitsOf({r \in rows : since <= r.at /\ r.at < until})

(***************************************************************************)
(* assertUsableConfig: periods tile a day, and a cap is a part of a pool.  *)
(***************************************************************************)
BugUsableConfig(layer) == layer.minutes > 0 /\ 0 < layer.cap /\ layer.cap <= BasisPoints
UsableConfig(layer) ==
  /\ layer.minutes > 0 /\ MinutesPerDay % layer.minutes = 0
  /\ 0 < layer.cap /\ layer.cap <= BasisPoints

(***************************************************************************)
(* priceLayer: one layer's pool, split.                                    *)
(***************************************************************************)
CeilingPerPeriod(layer) == layer.ceiling \div (MinutesPerDay \div layer.minutes)

\* Every unit that was earned counts, also those nobody is paid for.
BugTotal(units, wallets) == SumOf(units, {w \in Workspaces : wallets[w] \in Payees})
Total(units, wallets) == SumOf(units, Workspaces)

\* The cap divides a pool that the ceiling decided; no other.
Cap(pool, layer) == (pool * layer.cap) \div BasisPoints
BugCapFor(pool, atRate, layer) == Cap(pool, layer)
CapFor(pool, atRate, layer) == IF atRate > pool THEN Cap(pool, layer) ELSE pool

\* Floor division: the remainders stay where they are.
ProRata(pool, units, total) == IF units = 0 THEN 0 ELSE (pool * units) \div total

PriceLayer(layer, units, wallets) ==
  LET total == Total(units, wallets)
      atRate == total * layer.rate
      pool == Lesser(atRate, CeilingPerPeriod(layer))
      proRata == [w \in Workspaces |-> ProRata(pool, units[w], total)]
      cap == CapFor(pool, atRate, layer)
  IN [pool |-> pool, contested |-> atRate > pool, cap |-> cap, wallets |-> wallets,
      proRata |-> proRata, share |-> [w \in Workspaces |-> Lesser(proRata[w], cap)],
      skipped |-> {w \in Workspaces : units[w] > 0 /\ wallets[w] \in Reasons}]

(***************************************************************************)
(* accrueWindow: the cap again, on the payee, and the sum of both layers.  *)
(***************************************************************************)
WorkspacesOf(p, a) == {w \in Workspaces : p.wallets[w] = a}
BugPaid(p, a) == SumOf(p.share, WorkspacesOf(p, a))
Paid(p, a) == Lesser(SumOf(p.share, WorkspacesOf(p, a)), p.cap)

\* An address owed nothing on both layers is left out.
Amounts(spend, memory) ==
  LET owed == [a \in Payees |-> [amount |-> Paid(spend, a) + Paid(memory, a),
                                 spend |-> Paid(spend, a), memory |-> Paid(memory, a)]]
  IN [a \in {b \in Payees : owed[b].amount > 0} |-> owed[a]]

Distributed(p) == Added([a \in Payees |-> Paid(p, a)])
Undistributed(p) == p.pool - Distributed(p)

\* Who is listed as held at a layer's cap: whoever a cap took something off, on
\* either layer, and was paid as much as this layer's cap.
CappedAddresses(p, spend, memory) ==
  {a \in Payees : /\ \E l \in {spend, memory} : SumOf(l.proRata, WorkspacesOf(l, a)) > l.cap
                  /\ Paid(p, a) > 0 /\ Paid(p, a) = p.cap}

(***************************************************************************)
(* accrualsFor: what the console shows of one address's rows.  The oldest  *)
(* were settled before there was a memory layer, and have no parts.        *)
(***************************************************************************)
BugSplitOf(row) == row
SplitOf(row) == IF row.spend = 0 /\ row.memory = 0 THEN [row EXCEPT !.spend = row.amount] ELSE row
AccrualsFor(rows) ==
  [cumulative |-> Added([i \in DOMAIN rows |-> rows[i].amount]),
   spend |-> Added([i \in DOMAIN rows |-> SplitOf(rows[i]).spend]),
   memory |-> Added([i \in DOMAIN rows |-> SplitOf(rows[i]).memory]),
   periods |-> Cardinality(DOMAIN rows)]

(***************************************************************************)
(* Properties, over every input within the bounds.                         *)
(***************************************************************************)
Layers == {layer \in [ceiling : Ceilings, rate : Rates, cap : Caps, minutes : Minutes] :
             UsableConfig(layer)}
PeriodsBegunInADay(layer) == Cardinality({t \in 0..(MinutesPerDay - 1) : t % layer.minutes = 0})
Tried == [Workspaces -> Payees \cup {"no-wallet"}]

(***************************************************************************)
(* "The pool is a ceiling": what a layer pays, everybody together, is      *)
(* within its pool, a day of pools is within the daily ceiling, and no     *)
(* payee takes more than the cap of a contested pool, however many         *)
(* workspaces pay to it (priceLayer, accrueWindow).                        *)
(***************************************************************************)
PoolIsACeiling == \A layer \in Layers, units \in Units, wallets \in Tried :
  LET p == PriceLayer(layer, units, wallets)
  IN /\ Distributed(p) <= p.pool /\ PeriodsBegunInADay(layer) * p.pool <= layer.ceiling
     /\ p.contested => \A a \in Payees : BasisPoints * Paid(p, a) <= layer.cap * p.pool

(***************************************************************************)
(* A wallet connected by one owner moves no other payee's amount, so a     *)
(* workspace nobody is paid for makes nobody else's payment larger         *)
(* (priceLayer's denominator).                                             *)
(***************************************************************************)
OthersDoNotMove == \A layer \in Layers, units \in Units, wallets \in Tried :
  LET before == PriceLayer(layer, units, wallets)
  IN \A w \in {v \in Workspaces : wallets[v] \in Reasons}, a \in Payees :
       LET after == PriceLayer(layer, units, [wallets EXCEPT ![w] = a])
       IN \A b \in Payees : IF b = a THEN Paid(after, b) >= Paid(before, b)
                            ELSE Paid(after, b) = Paid(before, b)

(***************************************************************************)
(* While no ceiling binds, a payee is paid the rate for each confirmed row *)
(* and each credit, once over consecutive periods, whoever else earned and *)
(* however little: nothing is capped and nothing is lost to rounding.  And *)
(* the console shows just that, split into what each layer paid, together  *)
(* with a row from before there were two (accrueWindow, accrualsFor).      *)
(***************************************************************************)
Reports(n) == [workspace : Workspaces, at : 0..1, units : {n}, status : {"verified", "pending"}]
Credits == [workspace : Workspaces, at : 0..1, units : {1}]
Before == [amount |-> 1, spend |-> 0, memory |-> 0]
Earned(rows, wallets, a) == Added([r \in {q \in rows : wallets[q.workspace] = a} |-> r.units])
SpendOf(layer, reports, wallets) ==
  [i \in 1..2 |-> PriceLayer(layer, SpendInWindow(reports, i - 1, i), wallets)]
MemoryOf(layer, credits, wallets) ==
  [i \in 1..2 |-> PriceLayer(layer, CreditsInWindow(credits, i - 1, i), wallets)]
Quiet(spend, memory) == \A i \in 1..2 : ~spend[i].contested /\ ~memory[i].contested
RowsOf(spend, memory, a) ==
  LET paying == {i \in 1..2 : a \in DOMAIN Amounts(spend[i], memory[i])}
  IN [i \in paying \cup {0} |-> IF i = 0 THEN Before ELSE Amounts(spend[i], memory[i])[a]]
QuietPeriodsPayTheRate ==
  \A r1 \in Reports(1), r2 \in Reports(2), c \in Credits, wallets \in Tried, layer \in Layers :
    LET reports == {r1, r2}
        spend == SpendOf(layer, reports, wallets)
        memory == MemoryOf(layer, {c}, wallets)
        verified == {r \in reports : r.status = "verified"}
    IN Quiet(spend, memory) =>
         \A a \in Payees : LET shown == AccrualsFor(RowsOf(spend, memory, a)) IN
           /\ shown.spend = 1 + layer.rate * Earned(verified, wallets, a)
           /\ shown.memory = layer.rate * Earned({c}, wallets, a)
           /\ shown.cumulative = shown.spend + shown.memory

(***************************************************************************)
(* "a spender held at the spend cap is not capped on a memory layer they   *)
(* were paid in full on" (accrual.ts).  It fails: what was taken off on    *)
(* the other layer counts, and in a quiet layer the cap is the pool.       *)
(***************************************************************************)
CappedMeansWithheld ==
  \A points, credits \in Units, wallets \in Tried, layer \in Layers :
    LET spend == PriceLayer(layer, points, wallets)
        memory == PriceLayer(layer, credits, wallets)
    IN \A a \in CappedAddresses(memory, spend, memory) :
         Paid(memory, a) < SumOf(memory.proRata, WorkspacesOf(memory, a))

=============================================================================
