--------------------------- MODULE OffcutRewards ---------------------------
(***************************************************************************)
(* The distributor contract (OffcutRewards.sol) and those who call it.     *)
(*                                                                         *)
(* A root is the tree it commits to: what each account has ever earned,    *)
(* zero for an account that is not in it.  A proof verifies exactly when   *)
(* the root gives the account that amount.  A call that reverts changes    *)
(* nothing and is no step; a claim that reverts after the token was called *)
(* takes its effects back.                                                 *)
(*                                                                         *)
(* claim() calls the token, and a token may call back: `frames' holds the  *)
(* claims in progress of one transaction, innermost last.  Within it only  *)
(* claim() is reachable, since owner and publisher are keys, not tokens.   *)
(*                                                                         *)
(* Definitions called Bug... are variants of the one that follows them, as *)
(* a plausible mistake in the code would make it; nothing here uses them.  *)
(***************************************************************************)
EXTENDS Naturals, Sequences, FiniteSets
LOCAL INSTANCE FiniteSetsExt

CONSTANTS
  Accounts,   \* who may be owed
  Keys,       \* who may sign: the owner, the publisher and anybody else
  None,       \* address(0) or bytes32(0)
  Token,      \* the ERC-20
  MaxAmount,  \* bound: the most a root gives an account
  MaxRoots,   \* bound: how many roots are published
  MaxFunds,   \* bound: how much is ever sent in
  MaxDepth    \* bound: claims nested in one transaction

ASSUME RewardsAssumption ==
  /\ IsFiniteSet(Accounts)
  /\ None \notin Keys /\ None # Token
  /\ None \notin [Accounts -> 0..MaxAmount]
  /\ MaxAmount \in Nat /\ MaxRoots \in Nat /\ MaxFunds \in Nat
  /\ MaxDepth \in Nat

VARIABLES
  owner, pendingOwner, publisher, token, merkleRoot, rootIndex,
  claimed, totalClaimed, paused,
  balance,   \* token.balanceOf(this)
  received,  \* what claims delivered to each account
  funded,    \* what was ever sent in
  taxed,     \* the token keeps a cut of what it moves
  frames,    \* claims in progress
  promised   \* history variable: the most any root gave each account

roles   == <<owner, pendingOwner, publisher>>
roots   == <<merkleRoot, rootIndex, promised>>
counted == <<claimed, totalClaimed>>
coins   == <<balance, received, funded, taxed>>
vars    == <<roles, token, roots, counted, paused, coins, frames>>

Trees == {t \in [Accounts -> 0..MaxAmount] : \E a \in Accounts : t[a] > 0}
Verifies(root, a, amount) == amount > 0 /\ root[a] = amount
Idle  == frames = <<>>

\* Deployed behind a proxy and initialised in the same transaction.
Init ==
  /\ owner \in Keys /\ pendingOwner = None
  /\ publisher \in Keys
  /\ token \in {None, Token}
  /\ merkleRoot = None /\ rootIndex = 0
  /\ promised = [a \in Accounts |-> 0]
  /\ claimed = [a \in Accounts |-> 0] /\ totalClaimed = 0
  /\ paused = FALSE
  /\ balance = 0 /\ received = [a \in Accounts |-> 0]
  /\ funded = 0 /\ taxed \in BOOLEAN
  /\ frames = <<>>

\* Any root: that each gives at least what those before it gave is the
\* publisher's promise (RewardBook), and nothing here enforces it.
PublishRoot(key, root) ==
  /\ Idle /\ key = publisher /\ ~paused
  /\ rootIndex < MaxRoots
  /\ merkleRoot' = root
  /\ rootIndex' = rootIndex + 1
  /\ promised' = [a \in Accounts |-> IF root[a] > promised[a] THEN root[a]
                                                         ELSE promised[a]]
  /\ UNCHANGED <<roles, token, counted, paused, coins, frames>>

(***************************************************************************)
(* claim(), up to the call of the token: the checks, then the books, then  *)
(* balanceBefore.  It needs no particular caller.                          *)
(***************************************************************************)
BugDifference(a, amount) == amount
Difference(a, amount) == amount - claimed[a]

Frame(a, amount) ==
  [account |-> a, amount |-> Difference(a, amount), before |-> received[a],
   moved |-> FALSE,
   undo |-> [claimed |-> claimed, totalClaimed |-> totalClaimed,
             balance |-> balance, received |-> received]]

BugCovered(amount) == amount < balance
Covered(amount) == amount <= balance

BugClaimable(a, amount) ==
  /\ ~paused
  /\ token # None
  /\ merkleRoot # None
  /\ Verifies(merkleRoot, a, amount)
  /\ amount >= claimed[a]
  /\ Covered(Difference(a, amount))
Claimable(a, amount) ==
  /\ ~paused
  /\ token # None
  /\ merkleRoot # None
  /\ Verifies(merkleRoot, a, amount)
  /\ amount > claimed[a]
  /\ Covered(Difference(a, amount))

BeginClaim(a, amount) ==
  /\ Claimable(a, amount) /\ Len(frames) < MaxDepth
  /\ claimed' = [claimed EXCEPT ![a] = amount]
  /\ totalClaimed' = totalClaimed + Difference(a, amount)
  /\ frames' = Append(frames, Frame(a, amount))
  /\ UNCHANGED <<roles, token, roots, paused, coins>>

Top == frames[Len(frames)]
Pop == SubSeq(frames, 1, Len(frames) - 1)

\* The token moves the amount, or one unit less when it is taxed.
Tax == IF taxed THEN 1 ELSE 0
MoveTokens ==
  /\ ~Idle /\ ~Top.moved
  /\ Top.amount <= balance
  /\ balance' = balance - Top.amount
  /\ received' = [received EXCEPT ![Top.account] = @ + (Top.amount - Tax)]
  /\ frames' = [frames EXCEPT ![Len(frames)].moved = TRUE]
  /\ UNCHANGED <<roles, token, roots, counted, paused, funded, taxed>>

BugDeliveredInFull == Top.moved
DeliveredInFull == Top.moved /\ received[Top.account] - Top.before >= Top.amount

FinishClaim ==
  /\ ~Idle /\ DeliveredInFull
  /\ frames' = Pop
  /\ UNCHANGED <<roles, token, roots, counted, paused, coins>>

\* The transfer fails, or it delivers less than it was asked to move.
RevertClaim ==
  /\ ~Idle
  /\ IF Top.moved THEN ~DeliveredInFull ELSE Top.amount > balance
  /\ claimed' = Top.undo.claimed
  /\ totalClaimed' = Top.undo.totalClaimed
  /\ balance' = Top.undo.balance
  /\ received' = Top.undo.received
  /\ frames' = Pop
  /\ UNCHANGED <<roles, token, roots, paused, funded, taxed>>

(***************************************************************************)
(* The owner.                                                              *)
(***************************************************************************)
SetToken(key) ==
  /\ Idle /\ key = owner
  /\ token = None
  /\ token' = Token
  /\ UNCHANGED <<roles, roots, counted, paused, coins, frames>>

SetPublisher(key, next) ==
  /\ Idle /\ key = owner
  /\ publisher' = next
  /\ UNCHANGED <<owner, pendingOwner, token, roots, counted, paused, coins,
                 frames>>

Withdraw(key, amount) ==
  /\ Idle /\ key = owner
  /\ token # None
  /\ amount <= balance
  /\ balance' = balance - amount
  /\ UNCHANGED <<roles, token, roots, counted, paused, received, funded,
                 taxed, frames>>

Pause(key) ==
  /\ Idle /\ key = owner /\ ~paused
  /\ paused' = TRUE
  /\ UNCHANGED <<roles, token, roots, counted, coins, frames>>

Unpause(key) ==
  /\ Idle /\ key = owner /\ paused
  /\ paused' = FALSE
  /\ UNCHANGED <<roles, token, roots, counted, coins, frames>>

\* Ownable2Step: the new owner has to accept; None takes the offer back.
TransferOwnership(key, next) ==
  /\ Idle /\ key = owner
  /\ pendingOwner' = next
  /\ UNCHANGED <<owner, publisher, token, roots, counted, paused, coins,
                 frames>>

AcceptOwnership(key) ==
  /\ Idle /\ key = pendingOwner
  /\ owner' = key /\ pendingOwner' = None
  /\ UNCHANGED <<publisher, token, roots, counted, paused, coins, frames>>

RenounceOwnership(key) ==
  /\ Idle /\ key = owner
  /\ owner' = None /\ pendingOwner' = None
  /\ UNCHANGED <<publisher, token, roots, counted, paused, coins, frames>>

\* Anybody sends the token in; whoever runs the token changes its tax.
Fund ==
  /\ Idle /\ token # None /\ funded < MaxFunds
  /\ balance' = balance + 1 /\ funded' = funded + 1
  /\ UNCHANGED <<roles, token, roots, counted, paused, received, taxed,
                 frames>>

ChangeTax ==
  /\ Idle
  /\ taxed' = ~taxed
  /\ UNCHANGED <<roles, token, roots, counted, paused, balance, received,
                 funded, frames>>

Claim(a) == \E amount \in 1..MaxAmount : BeginClaim(a, amount)
Transfer == MoveTokens \/ FinishClaim \/ RevertClaim

Owning(key) ==
  \/ SetToken(key) \/ Pause(key) \/ Unpause(key)
  \/ AcceptOwnership(key) \/ RenounceOwnership(key)
  \/ \E next \in Keys : SetPublisher(key, next)
  \/ \E next \in Keys \cup {None} : TransferOwnership(key, next)
  \/ \E amount \in 1..MaxFunds : Withdraw(key, amount)

Next ==
  \/ \E key \in Keys, root \in Trees : PublishRoot(key, root)
  \/ \E a \in Accounts : Claim(a)
  \/ Transfer
  \/ \E key \in Keys : Owning(key)
  \/ Fund \/ ChangeTax

Spec == Init /\ [][Next]_vars

(***************************************************************************)
(* Fairness: somebody keeps claiming for an account that has something to  *)
(* claim, and a transaction once started is executed to its end.           *)
(***************************************************************************)
FairSpec ==
  /\ Spec
  /\ \A a \in Accounts : WF_vars(Claim(a))
  /\ WF_vars(Transfer)

(***************************************************************************)
(* Properties.                                                             *)
(***************************************************************************)
Amounts == [Accounts -> Nat]
Frames  == [account : Accounts, amount : Nat \ {0}, before : Nat,
            moved : BOOLEAN,
            undo : [claimed : Amounts, totalClaimed : Nat, balance : Nat,
                    received : Amounts]]
TypeOK ==
  /\ owner \in Keys \cup {None} /\ pendingOwner \in Keys \cup {None}
  /\ publisher \in Keys
  /\ token \in {None, Token}
  /\ merkleRoot \in {None} \cup Trees /\ rootIndex \in 0..MaxRoots
  /\ promised \in Amounts
  /\ claimed \in Amounts /\ totalClaimed \in Nat
  /\ paused \in BOOLEAN
  /\ balance \in Nat /\ received \in Amounts /\ funded \in Nat
  /\ taxed \in BOOLEAN
  /\ frames \in Seq(Frames)

(***************************************************************************)
(* Between transactions the books say what was delivered: `claimed' is     *)
(* what each account really received, whatever tax the token takes and     *)
(* however its callbacks nest claims inside one another (claim).           *)
(***************************************************************************)
BooksMatchDeliveries == Idle => claimed = received

\* totalClaimed is the sum of every claim ever paid (claim).
TotalMatchesClaims ==
  totalClaimed = MapThenSumSet(LAMBDA a : claimed[a], Accounts)

(***************************************************************************)
(* Nobody is ever handed more than the largest total a published root gave *)
(* them, not even inside a transaction (claim).                            *)
(***************************************************************************)
NeverPaidPastPromise == \A a \in Accounts : received[a] <= promised[a]

(***************************************************************************)
(* With a cumulative root a recipient can have ignored any number of roots *)
(* and claim once: what they have plus what the current root still owes    *)
(* them is all they were ever promised ("a new root never invalidates an   *)
(* unclaimed one", publishRoot and claim).                                 *)
(***************************************************************************)
Owed(a) == IF merkleRoot = None \/ merkleRoot[a] <= claimed[a]
           THEN 0 ELSE merkleRoot[a] - claimed[a]
Cumulative == merkleRoot \in {None, promised}
NothingPromisedIsLost ==
  Idle /\ Cumulative =>
    \A a \in Accounts : received[a] + Owed(a) = promised[a]

(***************************************************************************)
(* Once the contract stays open, the token named and untaxed, and the pool *)
(* covers what is owed, everybody is paid in full (claim).                 *)
(***************************************************************************)
Payable ==
  /\ ~paused /\ ~taxed /\ token # None
  /\ Idle => balance >= MapThenSumSet(Owed, Accounts)
EverybodyIsPaid ==
  <>[]Payable => <>[](\A a \in Accounts : Idle => Owed(a) = 0)

=============================================================================
