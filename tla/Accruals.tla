------------------------------ MODULE Accruals ------------------------------
(***************************************************************************)
(* The ledger of what was accrued, the pricing that says what a period     *)
(* owes, and the tree over what the ledger adds up to.                     *)
(***************************************************************************)
EXTENDS AccrualLedger, AccrualPricing, Merkle

(***************************************************************************)
(* The functions have no state of their own, so what is said of them for   *)
(* every input is looked at once: before anything is called, with nothing  *)
(* owed.                                                                   *)
(***************************************************************************)
AtFirst == calls = 0 /\ changes = 0 /\ \A w \in Windows, a \in Addresses : owed[w][a] = 0

\* AccrualPricing.PoolIsACeiling: nobody is paid past a pool, a cap or a day.
PoolBounds == AtFirst => PoolIsACeiling

\* AccrualPricing.OthersDoNotMove: one owner's wallet is nobody else's business.
WalletsAreIndependent == AtFirst => OthersDoNotMove

\* AccrualPricing.QuietPeriodsPayTheRate: below the ceiling a row is paid in full.
QuietPeriodsPay == AtFirst => QuietPeriodsPayTheRate

\* Merkle.RootsProveTheirEntries: a root proves its entries, and nothing else.
RootsProve == AtFirst => RootsProveTheirEntries

=============================================================================
