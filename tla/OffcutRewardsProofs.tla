------------------------- MODULE OffcutRewardsProofs -------------------------
(***************************************************************************)
(* Proofs about OffcutRewards, for any accounts and keys, any sequence of  *)
(* roots and any depth of nested claims.                                   *)
(***************************************************************************)
EXTENDS OffcutRewards, SequenceTheorems, TLAPS

(***************************************************************************)
(* The inductive invariant.  With n claims in progress, `claimed' equals   *)
(* `received' for every account no frame is about; for the account of a    *)
(* frame it is already what the frame will have made `received', and no    *)
(* two frames are about one account, which is what writing the books       *)
(* before calling the token buys.  A frame's undo is the state the frames  *)
(* below it are in.                                                        *)
(***************************************************************************)
Settled(n, paid, got) ==
  /\ \A a \in Accounts :
       (\A i \in 1..n : frames[i].account # a) => paid[a] = got[a]
  /\ \A i \in 1..n :
       LET f == frames[i] IN
       /\ merkleRoot # None
       /\ f.before + f.amount = merkleRoot[f.account]
       /\ paid[f.account] = merkleRoot[f.account]
       /\ ~f.moved => got[f.account] = f.before
       /\ got[f.account] <= f.before + f.amount

FramesApart ==
  \A i, j \in 1..Len(frames) :
    i # j => frames[i].account # frames[j].account

UndoSettled ==
  \A i \in 1..Len(frames) :
    Settled(i - 1, frames[i].undo.claimed, frames[i].undo.received)

BooksInv == /\ TypeOK
            /\ FramesApart
            /\ Settled(Len(frames), claimed, received)
            /\ UndoSettled

LEMMA InitBooks == Init => BooksInv
<1> SUFFICES ASSUME Init PROVE BooksInv
  OBVIOUS
<1>1. frames = <<>> /\ Len(frames) = 0 /\ frames \in Seq(Frames)
  BY EmptySeq DEF Init
<1>2. TypeOK
  <2>1. [a \in Accounts |-> 0] \in Amounts /\ 0 \in 0..MaxRoots
    BY RewardsAssumption DEF Amounts
  <2>2. paused \in BOOLEAN /\ taxed \in BOOLEAN
    BY DEF Init
  <2>3. QED
    BY <1>1, <2>1, <2>2 DEF Init, TypeOK
<1>3. FramesApart /\ UndoSettled
  BY <1>1 DEF FramesApart, UndoSettled
<1>4. Settled(Len(frames), claimed, received)
  BY <1>1 DEF Settled, Init
<1>5. QED
  BY <1>2, <1>3, <1>4 DEF BooksInv

\* The frames under the top one, and what popping it leaves.
LEMMA Popping ==
  ASSUME TypeOK, ~Idle
  PROVE  /\ Len(frames) \in Nat \ {0} /\ Top \in Frames
         /\ Pop \in Seq(Frames) /\ Len(Pop) = Len(frames) - 1
         /\ \A i \in 1..(Len(frames) - 1) : Pop[i] = frames[i]
<1>1. frames \in Seq(Frames) /\ frames # <<>>
  BY DEF TypeOK, Idle
<1>2. Len(frames) \in Nat \ {0}
  BY <1>1, EmptySeq, LenProperties
<1>3. Top \in Frames
  BY <1>1, <1>2, ElementOfSeq DEF Top
<1>4. \A i \in 1..(Len(frames) - 1) : frames[i] \in Frames
  BY <1>1, <1>2, ElementOfSeq
<1> DEFINE m == Len(frames) - 1
<1>5. /\ m \in Int /\ 1 \in Int /\ m >= 0
      /\ (IF 1 <= m THEN m - 1 + 1 ELSE 0) = m /\ m - 1 + 1 = m
      /\ \A i \in 1..m : 1 + i - 1 = i
  <2>1. m \in Int /\ m >= 0
    BY <1>2
  <2> HIDE DEF m
  <2>2. QED
    BY <2>1
<1>6. /\ SubSeq(frames, 1, m) \in Seq(Frames)
      /\ Len(SubSeq(frames, 1, m)) = m
      /\ \A i \in 1..m : SubSeq(frames, 1, m)[i] = frames[i]
  <2> HIDE DEF m
  <2>1. \A i \in 1..m : frames[i] \in Frames
    BY <1>4 DEF m
  <2>2. /\ SubSeq(frames, 1, m) \in Seq(Frames)
        /\ Len(SubSeq(frames, 1, m)) = IF 1 <= m THEN m - 1 + 1 ELSE 0
        /\ \A i \in 1..(m - 1 + 1) : SubSeq(frames, 1, m)[i] = frames[1 + i - 1]
    BY <1>5, <2>1, SubSeqProperties
  <2>3. QED
    BY <1>5, <2>2
<1>7. QED
  BY <1>2, <1>3, <1>6 DEF Pop

\* No step gives a variable a value the contract could not.
LEMMA BooksTypeStep == BooksInv /\ [Next]_vars => TypeOK'
<1> SUFFICES ASSUME BooksInv, [Next]_vars PROVE TypeOK'
  OBVIOUS
<1>1. TypeOK
  BY DEF BooksInv
<1> USE <1>1, RewardsAssumption DEF TypeOK, Amounts
<1>2. ASSUME NEW key \in Keys, NEW root \in Trees, PublishRoot(key, root)
      PROVE  TypeOK'
  <2>1. root \in [Accounts -> 0..MaxAmount]
    BY DEF Trees
  <2>2. promised' \in [Accounts -> Nat]
    BY <1>2, <2>1 DEF PublishRoot
  <2>3. QED
    BY <1>2, <2>2 DEF PublishRoot, roles, counted, coins
<1>3. ASSUME NEW a \in Accounts, NEW amount \in 1..MaxAmount,
             BeginClaim(a, amount)
      PROVE  TypeOK'
  <2>1. amount \in Nat /\ Difference(a, amount) \in Nat \ {0}
    BY <1>3 DEF BeginClaim, Claimable, Difference
  <2>2. Frame(a, amount) \in Frames
    BY <2>1 DEF Frame, Frames
  <2>3. frames' \in Seq(Frames)
    BY <1>3, <2>2, AppendProperties DEF BeginClaim
  <2>4. claimed' \in [Accounts -> Nat] /\ totalClaimed' \in Nat
    BY <1>3, <2>1 DEF BeginClaim
  <2>5. QED
    BY <1>3, <2>3, <2>4 DEF BeginClaim, roles, roots, coins
<1>4. CASE MoveTokens
  <2>1. Top \in Frames /\ Len(frames) \in Nat \ {0}
    BY <1>4, Popping DEF MoveTokens
  <2>2. balance' \in Nat /\ received' \in [Accounts -> Nat]
    <3>1. Top.amount \in Nat \ {0} /\ Top.account \in Accounts
      BY <2>1 DEF Frames
    <3>2. Top.amount - Tax \in Nat
      BY <3>1 DEF Tax
    <3>3. received[Top.account] + (Top.amount - Tax) \in Nat
      BY <3>1, <3>2
    <3>4. received' \in [Accounts -> Nat]
      BY <1>4, <3>3 DEF MoveTokens
    <3>5. balance' \in Nat
      BY <1>4, <3>1 DEF MoveTokens
    <3>6. QED
      BY <3>4, <3>5
  <2>3. frames' \in Seq(Frames)
    <3>1. frames' = [frames EXCEPT ![Len(frames)] = [Top EXCEPT !.moved = TRUE]]
      BY <1>4 DEF MoveTokens, Top
    <3>2. [Top EXCEPT !.moved = TRUE] \in Frames
      BY <2>1 DEF Frames
    <3>3. QED
      BY <2>1, <3>1, <3>2, ExceptSeq
  <2>4. QED
    BY <1>4, <2>2, <2>3 DEF MoveTokens, roles, roots, counted
<1>5. CASE FinishClaim
  BY <1>5, Popping DEF FinishClaim, roles, roots, counted, coins
<1>6. CASE RevertClaim
  <2>1. Top \in Frames /\ Pop \in Seq(Frames)
    BY <1>6, Popping DEF RevertClaim
  <2>2. QED
    BY <1>6, <2>1 DEF RevertClaim, Frames, roles, roots
<1>7. ASSUME NEW key \in Keys, Owning(key)
      PROVE  TypeOK'
  <2>1. CASE SetToken(key) \/ Pause(key) \/ Unpause(key)
             \/ AcceptOwnership(key) \/ RenounceOwnership(key)
    BY <2>1
    DEF SetToken, Pause, Unpause, AcceptOwnership, RenounceOwnership, roles,
        roots, counted, coins
  <2>2. ASSUME NEW next \in Keys \cup {None},
               TransferOwnership(key, next)
        PROVE  TypeOK'
    BY <2>2 DEF TransferOwnership, roots, counted, coins
  <2>3. ASSUME NEW next \in Keys, SetPublisher(key, next)
        PROVE  TypeOK'
    BY <2>3 DEF SetPublisher, roots, counted, coins
  <2>4. ASSUME NEW amount \in 1..MaxFunds, Withdraw(key, amount)
        PROVE  TypeOK'
    BY <2>4 DEF Withdraw, roles, roots, counted
  <2>5. QED
    BY <1>7, <2>1, <2>2, <2>3, <2>4 DEF Owning
<1>8. CASE Fund
  BY <1>8 DEF Fund, roles, roots, counted
<1>9. CASE ChangeTax
  <2>1. taxed' \in BOOLEAN
    BY <1>9 DEF ChangeTax
  <2>2. QED
    BY <1>9, <2>1 DEF ChangeTax, roles, roots, counted
<1>10. CASE UNCHANGED vars
  BY <1>10 DEF vars, roles, roots, counted, coins
<1>11. QED
  BY <1>2, <1>3, <1>4, <1>5, <1>6, <1>7, <1>8, <1>9, <1>10
  DEF Next, Claim, Transfer

\* Nothing but a claim happens inside a transaction, and nothing but a claim
\* touches the books.
LEMMA QuietStep ==
  ASSUME BooksInv, frames = <<>>, UNCHANGED <<frames, claimed, received>>
  PROVE  FramesApart' /\ Settled(Len(frames), claimed, received)' /\ UndoSettled'
<1>1. Len(frames) = 0 /\ Len(frames') = 0
  OBVIOUS
<1>2. \A a \in Accounts : claimed[a] = received[a]
  BY <1>1 DEF BooksInv, Settled
<1>3. QED
  BY <1>1, <1>2 DEF FramesApart, Settled, UndoSettled

\* A claim is only begun for an account no claim in progress is about.
LEMMA BeginStep ==
  ASSUME BooksInv, NEW a \in Accounts, NEW amount \in 1..MaxAmount,
         BeginClaim(a, amount)
  PROVE  FramesApart' /\ Settled(Len(frames), claimed, received)' /\ UndoSettled'
<1>a. PICK n : n = Len(frames)
  OBVIOUS
<1>b. PICK f : f = Frame(a, amount)
  OBVIOUS
<1>1. /\ frames \in Seq(Frames) /\ n \in Nat
      /\ claimed \in [Accounts -> Nat] /\ received \in [Accounts -> Nat]
  BY <1>a, LenProperties DEF BooksInv, TypeOK, Amounts
<1>2. /\ amount \in Nat /\ amount > claimed[a] /\ merkleRoot[a] = amount
      /\ merkleRoot # None
      /\ claimed' = [claimed EXCEPT ![a] = amount]
      /\ UNCHANGED <<received, merkleRoot>>
      /\ frames' = Append(frames, f)
  BY <1>b, RewardsAssumption
  DEF BeginClaim, Claimable, Verifies, roots, coins
<1>3. /\ Len(frames') = n + 1
      /\ \A i \in 1..n : frames'[i] = frames[i]
      /\ frames'[n + 1] = f
  BY <1>a, <1>1, <1>2, AppendProperties
<1>4. /\ f.account = a /\ f.amount = amount - claimed[a]
      /\ f.before = received[a] /\ f.moved = FALSE
      /\ f.undo.claimed = claimed /\ f.undo.received = received
  BY <1>b DEF Frame, Difference
<1>5. /\ Settled(n, claimed, received) /\ FramesApart /\ UndoSettled
  BY <1>a DEF BooksInv
<1>6. \A i \in 1..n : frames[i].account # a
  BY <1>1, <1>2, <1>5 DEF Settled
<1>7. \A i \in 1..(n + 1) : i \in 1..n \/ i = n + 1
  BY <1>1
<1>8. FramesApart'
  BY <1>1, <1>3, <1>4, <1>5, <1>6, <1>7, <1>a DEF FramesApart
<1>9. \A i \in 1..n : frames[i].account \in Accounts
  <2>1. \A i \in 1..n : frames[i] \in Frames
    BY <1>a, <1>1, ElementOfSeq
  <2>2. QED
    BY <2>1 DEF Frames
<1>10. claimed[a] = received[a]
  BY <1>5, <1>6 DEF Settled
<1>11. Settled(n + 1, claimed, received)'
  <2>1. ASSUME NEW b \in Accounts,
               \A i \in 1..(n + 1) : frames'[i].account # b
        PROVE  claimed'[b] = received'[b]
    <3>1. n + 1 \in 1..(n + 1) /\ \A i \in 1..n : i \in 1..(n + 1)
      BY <1>1
    <3>2. b # a /\ \A i \in 1..n : frames[i].account # b
      BY <1>3, <1>4, <2>1, <3>1
    <3>3. QED
      BY <1>1, <1>2, <1>5, <3>2 DEF Settled
  <2>2. ASSUME NEW i \in 1..n
        PROVE  /\ merkleRoot # None
               /\ frames'[i].before + frames'[i].amount
                    = merkleRoot[frames'[i].account]
               /\ claimed'[frames'[i].account] = merkleRoot[frames'[i].account]
               /\ ~frames'[i].moved =>
                    received[frames'[i].account] = frames'[i].before
               /\ received[frames'[i].account]
                    <= frames'[i].before + frames'[i].amount
    BY <1>1, <1>2, <1>3, <1>5, <1>6, <1>9 DEF Settled
  <2>3. /\ f.before + f.amount = merkleRoot[a]
        /\ claimed'[a] = merkleRoot[a]
        /\ received[a] <= f.before + f.amount
    <3>1. claimed[a] \in Nat /\ received[a] \in Nat
      BY <1>1
    <3>2. QED
      BY <1>1, <1>2, <1>4, <1>10, <3>1
  <2>4. QED
    BY <1>2, <1>3, <1>4, <1>7, <2>1, <2>2, <2>3 DEF Settled
<1>12. UndoSettled'
  <2>1. ASSUME NEW i \in 1..n
        PROVE  Settled(i - 1, frames[i].undo.claimed,
                       frames[i].undo.received)'
    <3>1. Settled(i - 1, frames[i].undo.claimed, frames[i].undo.received)
      BY <1>5, <1>a DEF UndoSettled
    <3>2. \A j \in 1..(i - 1) : j \in 1..n /\ frames'[j] = frames[j]
      BY <1>1, <1>3
    <3>3. frames'[i] = frames[i]
      BY <1>3
    <3>4. QED
      BY <1>2, <3>1, <3>2, <3>3 DEF Settled
  <2>2. Settled(n, frames[n + 1].undo.claimed, frames[n + 1].undo.received)'
    <3>1. Settled(n, claimed, received)
      BY <1>5
    <3>2. frames'[n + 1].undo.claimed = claimed
          /\ frames'[n + 1].undo.received = received
      BY <1>3, <1>4
    <3>3. QED
      BY <1>2, <1>3, <3>1, <3>2 DEF Settled
  <2>3. n + 1 - 1 = n
    BY <1>1
  <2>4. ASSUME NEW i \in 1..(n + 1)
        PROVE  Settled(i - 1, frames[i].undo.claimed,
                       frames[i].undo.received)'
    <3>1. CASE i \in 1..n
      BY <2>1, <3>1
    <3>2. CASE i = n + 1
      <4>1. i - 1 = n
        BY <1>1, <3>2
      <4>2. QED
        BY <1>1, <2>2, <3>2, <4>1 DEF Settled
    <3>3. QED
      BY <1>7, <3>1, <3>2
  <2>5. Len(frames') = n + 1
    BY <1>3
  <2>6. QED
    BY <2>4, <2>5 DEF UndoSettled
<1>13. QED
  BY <1>3, <1>8, <1>11, <1>12

\* The token moves what the innermost claim asked for, or less.
LEMMA MoveStep ==
  ASSUME BooksInv, MoveTokens
  PROVE  FramesApart' /\ Settled(Len(frames), claimed, received)' /\ UndoSettled'
<1>a. PICK n : n = Len(frames)
  OBVIOUS
<1>b. PICK f : f = Top
  OBVIOUS
<1>1. /\ frames \in Seq(Frames) /\ n \in Nat \ {0} /\ f \in Frames
      /\ received \in [Accounts -> Nat]
      /\ Settled(n, claimed, received) /\ FramesApart /\ UndoSettled
  BY <1>a, <1>b, Popping DEF BooksInv, TypeOK, Amounts, MoveTokens
<1>2. /\ f = frames[n] /\ ~f.moved
      /\ f.account \in Accounts /\ f.amount \in Nat \ {0} /\ f.before \in Nat
      /\ received' = [received EXCEPT ![f.account] = @ + (f.amount - Tax)]
      /\ UNCHANGED <<claimed, merkleRoot>>
      /\ frames' = [frames EXCEPT ![n] = [f EXCEPT !.moved = TRUE]]
  BY <1>a, <1>b, <1>1 DEF MoveTokens, Top, Frames, roots, counted
<1>3. PICK g : g = [f EXCEPT !.moved = TRUE]
  OBVIOUS
<1>4. /\ g \in Frames /\ g.moved /\ g.account = f.account
      /\ g.amount = f.amount /\ g.before = f.before /\ g.undo = f.undo
  BY <1>1, <1>3 DEF Frames
<1>5. /\ Len(frames') = n /\ frames'[n] = g
      /\ \A i \in 1..n : i # n => frames'[i] = frames[i]
  <2>1. frames' = [frames EXCEPT ![n] = g]
    BY <1>2, <1>3
  <2>2. n \in 1..Len(frames)
    BY <1>a, <1>1
  <2>3. QED
    BY <1>a, <1>1, <1>4, <2>1, <2>2, ExceptSeq
<1>6. n \in 1..n /\ \A i \in 1..n : i < n => i # n
  BY <1>1
<1>7. FramesApart'
  BY <1>a, <1>1, <1>2, <1>4, <1>5 DEF FramesApart
<1>8. \A i \in 1..n : frames[i].account \in Accounts
  <2>1. \A i \in 1..n : frames[i] \in Frames
    BY <1>a, <1>1, ElementOfSeq
  <2>2. QED
    BY <2>1 DEF Frames
<1>9. \A i \in 1..n : i # n => frames[i].account # f.account
  BY <1>a, <1>1, <1>2, <1>6 DEF FramesApart
<1>10. Settled(n, claimed, received)'
  <2>1. ASSUME NEW a \in Accounts, \A i \in 1..n : frames'[i].account # a
        PROVE  claimed'[a] = received'[a]
    <3>1. \A i \in 1..n : frames[i].account # a
      BY <1>2, <1>4, <1>5, <2>1
    <3>2. a # f.account
      BY <1>2, <1>6, <3>1
    <3>3. QED
      BY <1>1, <1>2, <3>1, <3>2 DEF Settled
  <2>2. ASSUME NEW i \in 1..n, i # n
        PROVE  /\ frames'[i] = frames[i]
               /\ received'[frames[i].account] = received[frames[i].account]
    BY <1>1, <1>2, <1>5, <1>8, <1>9, <2>2
  <2>3. /\ received[f.account] = f.before
        /\ f.before + f.amount = merkleRoot[f.account]
        /\ claimed[f.account] = merkleRoot[f.account]
        /\ merkleRoot # None
    BY <1>1, <1>2, <1>6 DEF Settled
  <2>4. received'[f.account] <= f.before + f.amount
    <3>1. received'[f.account] = f.before + (f.amount - Tax)
      BY <1>1, <1>2, <2>3
    <3>2. QED
      BY <1>2, <3>1 DEF Tax
  <2>5. QED
    BY <1>1, <1>2, <1>4, <1>5, <2>1, <2>2, <2>3, <2>4 DEF Settled
<1>11. UndoSettled'
  <2>1. ASSUME NEW i \in 1..n
        PROVE  Settled(i - 1, frames[i].undo.claimed,
                       frames[i].undo.received)'
    <3>1. Settled(i - 1, frames[i].undo.claimed, frames[i].undo.received)
      BY <1>a, <1>1 DEF UndoSettled
    <3>2. \A j \in 1..(i - 1) : j \in 1..n /\ frames'[j] = frames[j]
      BY <1>1, <1>5
    <3>3. frames'[i].undo = frames[i].undo
      BY <1>2, <1>4, <1>5
    <3>4. QED
      BY <1>2, <3>1, <3>2, <3>3 DEF Settled
  <2>2. QED
    BY <1>5, <2>1 DEF UndoSettled
<1>12. QED
  BY <1>5, <1>7, <1>10, <1>11

(***************************************************************************)
(* Taking the innermost claim off keeps the books settled when what is     *)
(* left agrees with the frames below it.                                   *)
(***************************************************************************)
LEMMA PopStep ==
  ASSUME BooksInv, ~Idle, frames' = Pop, merkleRoot' = merkleRoot,
         Settled(Len(frames) - 1, claimed', received')
  PROVE  FramesApart' /\ Settled(Len(frames), claimed, received)' /\ UndoSettled'
<1>a. PICK n : n = Len(frames)
  OBVIOUS
<1>1. /\ n \in Nat \ {0} /\ FramesApart /\ UndoSettled
      /\ Len(frames') = n - 1
      /\ \A i \in 1..(n - 1) : frames'[i] = frames[i] /\ i \in 1..n
  BY <1>a, Popping DEF BooksInv
<1>2. FramesApart'
  BY <1>a, <1>1 DEF FramesApart
<1>3. Settled(n - 1, claimed, received)'
  BY <1>a, <1>1 DEF Settled
<1>4. UndoSettled'
  <2>1. ASSUME NEW i \in 1..(n - 1)
        PROVE  Settled(i - 1, frames[i].undo.claimed,
                       frames[i].undo.received)'
    <3>1. Settled(i - 1, frames[i].undo.claimed, frames[i].undo.received)
      BY <1>a, <1>1 DEF UndoSettled
    <3>2. \A j \in 1..(i - 1) : j \in 1..(n - 1)
      BY <1>1
    <3>3. QED
      BY <1>1, <3>1, <3>2 DEF Settled
  <2>2. QED
    BY <1>1, <2>1 DEF UndoSettled
<1>5. QED
  BY <1>1, <1>2, <1>3, <1>4

\* A claim ends: delivered in full, or undone.
LEMMA EndStep ==
  ASSUME BooksInv, FinishClaim \/ RevertClaim
  PROVE  FramesApart' /\ Settled(Len(frames), claimed, received)' /\ UndoSettled'
<1>a. PICK n : n = Len(frames)
  OBVIOUS
<1>1. /\ ~Idle /\ frames' = Pop /\ merkleRoot' = merkleRoot
      /\ n \in Nat \ {0} /\ Top = frames[n] /\ Top \in Frames
      /\ received \in [Accounts -> Nat] /\ claimed \in [Accounts -> Nat]
      /\ Settled(n, claimed, received) /\ UndoSettled
      /\ n \in 1..n
  BY <1>a, Popping
  DEF FinishClaim, RevertClaim, roots, BooksInv, TypeOK, Amounts, Top
<1>2. CASE FinishClaim
  <2>1. /\ Top.moved /\ received[Top.account] - Top.before >= Top.amount
        /\ UNCHANGED <<claimed, received>>
    BY <1>2 DEF FinishClaim, DeliveredInFull, counted, coins
  <2>2. /\ received[Top.account] <= Top.before + Top.amount
        /\ Top.before + Top.amount = merkleRoot[Top.account]
        /\ claimed[Top.account] = merkleRoot[Top.account]
    BY <1>1 DEF Settled
  <2>3. claimed[Top.account] = received[Top.account]
    <3>1. /\ Top.account \in Accounts /\ Top.before \in Nat
          /\ Top.amount \in Nat
      BY <1>1 DEF Frames
    <3>2. received[Top.account] \in Nat
      BY <1>1, <3>1
    <3>3. QED
      BY <2>1, <2>2, <3>1, <3>2
  <2>4. \A i \in 1..n : i \in 1..(n - 1) \/ i = n
    BY <1>1
  <2>5. \A i \in 1..(n - 1) : i \in 1..n
    BY <1>1
  <2>6. ASSUME NEW a \in Accounts,
               \A i \in 1..(n - 1) : frames[i].account # a
        PROVE  claimed[a] = received[a]
    <3>1. CASE a = Top.account
      BY <2>3, <3>1
    <3>2. CASE a # Top.account
      <4>1. \A i \in 1..n : frames[i].account # a
        BY <1>1, <2>4, <2>6, <3>2
      <4>2. QED
        BY <1>1, <4>1 DEF Settled
    <3>3. QED
      BY <3>1, <3>2
  <2>7. Settled(n - 1, claimed, received)
    BY <1>1, <2>5, <2>6 DEF Settled
  <2>8. QED
    BY <1>a, <1>1, <2>1, <2>7, PopStep
<1>3. CASE RevertClaim
  <2>1. claimed' = Top.undo.claimed /\ received' = Top.undo.received
    BY <1>3 DEF RevertClaim
  <2>2. Settled(n - 1, frames[n].undo.claimed, frames[n].undo.received)
    BY <1>a, <1>1 DEF UndoSettled
  <2>3. Settled(n - 1, claimed', received')
    BY <1>1, <2>1, <2>2 DEF Settled
  <2>4. QED
    BY <1>a, <1>1, <2>3, PopStep
<1>4. QED
  BY <1>2, <1>3

LEMMA BooksStep ==
  BooksInv /\ [Next]_vars =>
    FramesApart' /\ Settled(Len(frames), claimed, received)' /\ UndoSettled'
<1> SUFFICES ASSUME BooksInv, [Next]_vars
             PROVE  /\ FramesApart'
                    /\ Settled(Len(frames), claimed, received)'
                    /\ UndoSettled'
  OBVIOUS
<1>1. CASE \E a \in Accounts : Claim(a)
  BY <1>1, BeginStep DEF Claim
<1>2. CASE Transfer
  BY <1>2, MoveStep, EndStep DEF Transfer
<1>3. CASE frames = <<>> /\ UNCHANGED <<frames, claimed, received>>
  BY <1>3, QuietStep
<1>4. ASSUME NEW key \in Keys,
             Owning(key) \/ \E root \in Trees : PublishRoot(key, root)
      PROVE  frames = <<>> /\ UNCHANGED <<frames, claimed, received>>
  BY <1>4
  DEF Owning, PublishRoot, SetToken, Pause, Unpause, AcceptOwnership,
      RenounceOwnership, SetPublisher, TransferOwnership, Withdraw, Idle,
      counted, coins
<1>5. CASE Fund \/ ChangeTax
  BY <1>3, <1>5 DEF Fund, ChangeTax, Idle, counted
<1>6. CASE UNCHANGED vars
  BY <1>6
  DEF vars, roots, counted, coins, BooksInv, FramesApart, Settled, UndoSettled
<1>7. QED
  BY <1>1, <1>2, <1>3, <1>4, <1>5, <1>6 DEF Next

\* The inductive invariant holds in every behaviour of the contract.
THEOREM BooksInvariant == Spec => []BooksInv
<1>1. BooksInv /\ [Next]_vars => BooksInv'
  BY BooksTypeStep, BooksStep DEF BooksInv
<1>2. QED
  BY InitBooks, <1>1, PTL DEF Spec

\* Every variable of the contract always holds a value of its type.
THEOREM RewardsTypeCorrect == Spec => []TypeOK
<1>1. BooksInv => TypeOK
  BY DEF BooksInv
<1>2. QED
  BY <1>1, BooksInvariant, PTL

(***************************************************************************)
(* Between transactions `claimed' is exactly what was delivered, whatever  *)
(* roots the publisher's key publishes, however the token taxes transfers  *)
(* and however deeply its callbacks nest claims (claim).                   *)
(***************************************************************************)
THEOREM BooksAlwaysMatch == Spec => []BooksMatchDeliveries
<1>1. BooksInv => BooksMatchDeliveries
  <2> SUFFICES ASSUME BooksInv, frames = <<>>
               PROVE  claimed = received
    BY DEF BooksMatchDeliveries, Idle
  <2>1. Len(frames) = 0
    OBVIOUS
  <2>2. \A a \in Accounts : claimed[a] = received[a]
    BY <2>1 DEF BooksInv, Settled
  <2>3. claimed \in [Accounts -> Nat] /\ received \in [Accounts -> Nat]
    BY DEF BooksInv, TypeOK, Amounts
  <2>4. QED
    BY <2>2, <2>3
<1>2. QED
  BY <1>1, BooksInvariant, PTL

-----------------------------------------------------------------------------
(***************************************************************************)
(* What the roots promised bounds what is claimed, now and in every state  *)
(* a claim in progress may be taken back to; and before the first root     *)
(* nothing is promised.                                                    *)
(***************************************************************************)
Promised(paid) == \A a \in Accounts : paid[a] <= promised[a]
PromiseInv ==
  /\ BooksInv
  /\ Promised(claimed)
  /\ \A i \in 1..Len(frames) : Promised(frames[i].undo.claimed)
  /\ IF merkleRoot = None THEN \A a \in Accounts : promised[a] = 0
     ELSE Promised(merkleRoot)

LEMMA InitPromise == Init => PromiseInv
<1> SUFFICES ASSUME Init PROVE PromiseInv
  OBVIOUS
<1>1. frames = <<>> /\ Len(frames) = 0
  BY DEF Init
<1>2. QED
  BY <1>1, InitBooks DEF Init, PromiseInv, Promised

LEMMA PromiseStep == PromiseInv /\ [Next]_vars => PromiseInv'
<1> SUFFICES ASSUME PromiseInv, [Next]_vars PROVE PromiseInv'
  OBVIOUS
<1>1. BooksInv /\ BooksInv' /\ TypeOK
  BY BooksTypeStep, BooksStep DEF PromiseInv, BooksInv
<1>2. /\ promised \in [Accounts -> Nat] /\ claimed \in [Accounts -> Nat]
      /\ frames \in Seq(Frames) /\ Len(frames) \in Nat
  BY <1>1, LenProperties DEF TypeOK, Amounts
<1>3. ASSUME UNCHANGED <<promised, merkleRoot, claimed, frames>> PROVE PromiseInv'
  BY <1>1, <1>3 DEF PromiseInv, Promised
<1>4. ASSUME NEW key \in Keys, NEW root \in Trees, PublishRoot(key, root)
      PROVE  PromiseInv'
  <2>1. root \in [Accounts -> 0..MaxAmount] /\ root # None
    BY RewardsAssumption DEF Trees
  <2>2. /\ \A a \in Accounts : promised[a] <= promised'[a] /\ root[a] <= promised'[a]
        /\ promised' \in [Accounts -> Nat]
    <3>1. \A a \in Accounts : root[a] \in Nat /\ promised[a] \in Nat
      BY <1>2, <2>1, RewardsAssumption
    <3>2. QED
      BY <1>4, <3>1 DEF PublishRoot
  <2>3. merkleRoot' = root /\ UNCHANGED <<claimed, frames>> /\ frames = <<>>
    BY <1>4 DEF PublishRoot, counted, Idle
  <2>4. Promised(claimed)'
    <3>1. \A a \in Accounts : claimed[a] <= promised[a]
      BY DEF PromiseInv, Promised
    <3>2. \A a \in Accounts : claimed[a] <= promised'[a]
      BY <1>2, <2>2, <3>1
    <3>3. QED
      BY <2>3, <3>2 DEF Promised
  <2>5. QED
    BY <1>1, <2>1, <2>2, <2>3, <2>4 DEF PromiseInv, Promised
<1>5. ASSUME NEW a \in Accounts, NEW amount \in 1..MaxAmount, BeginClaim(a, amount)
      PROVE  PromiseInv'
  <2>1. /\ merkleRoot # None /\ merkleRoot[a] = amount
        /\ claimed' = [claimed EXCEPT ![a] = amount]
        /\ frames' = Append(frames, Frame(a, amount))
        /\ UNCHANGED <<promised, merkleRoot>>
    BY <1>5 DEF BeginClaim, Claimable, Verifies, roots
  <2>2. amount <= promised[a]
    BY <2>1 DEF PromiseInv, Promised
  <2>3. Promised(claimed)'
    BY <1>2, <2>1, <2>2 DEF PromiseInv, Promised
  <2>4. PICK f : f = Frame(a, amount)
    OBVIOUS
  <2>5. /\ Len(frames') = Len(frames) + 1
        /\ \A i \in 1..Len(frames) : frames'[i] = frames[i]
        /\ frames'[Len(frames) + 1] = f
    BY <1>2, <2>1, <2>4, AppendProperties
  <2>6. f.undo.claimed = claimed
    BY <2>4 DEF Frame
  <2>7. ASSUME NEW i \in 1..Len(frames') PROVE Promised(frames[i].undo.claimed)'
    <3>1. i \in 1..Len(frames) \/ i = Len(frames) + 1
      BY <1>2, <2>5
    <3>2. QED
      BY <2>1, <2>5, <2>6, <3>1 DEF PromiseInv, Promised
  <2>8. QED
    BY <1>1, <2>1, <2>3, <2>7 DEF PromiseInv, Promised
<1>6. CASE MoveTokens
  <2>1. /\ frames' = [frames EXCEPT ![Len(frames)].moved = TRUE]
        /\ UNCHANGED <<promised, merkleRoot, claimed>>
    BY <1>6 DEF MoveTokens, roots, counted
  <2>2. /\ Len(frames') = Len(frames)
        /\ \A i \in 1..Len(frames) : frames'[i].undo = frames[i].undo
    <3>1. Top \in Frames /\ Len(frames) \in Nat \ {0}
      BY <1>1, <1>6, Popping DEF MoveTokens
    <3>2. frames' = [frames EXCEPT ![Len(frames)] = [Top EXCEPT !.moved = TRUE]]
      BY <2>1 DEF Top
    <3>3. PICK g : g = [Top EXCEPT !.moved = TRUE]
      OBVIOUS
    <3>4. g \in Frames /\ g.undo = Top.undo
      BY <3>1, <3>3 DEF Frames
    <3>5. /\ Len(frames') = Len(frames) /\ frames'[Len(frames)] = g
          /\ \A i \in 1..Len(frames) : i # Len(frames) => frames'[i] = frames[i]
      <4>1. Len(frames) \in 1..Len(frames)
        BY <3>1
      <4>2. QED
        BY <1>2, <3>2, <3>3, <3>4, <4>1, ExceptSeq
    <3>6. QED
      BY <3>4, <3>5 DEF Top
  <2>3. QED
    BY <1>1, <2>1, <2>2 DEF PromiseInv, Promised
<1>7. CASE FinishClaim \/ RevertClaim
  <2>1. /\ ~Idle /\ frames' = Pop /\ UNCHANGED <<promised, merkleRoot>>
        /\ claimed' = claimed \/ claimed' = Top.undo.claimed
    BY <1>7 DEF FinishClaim, RevertClaim, roots, counted
  <2>2. /\ Len(frames) \in 1..Len(frames) /\ Len(frames') = Len(frames) - 1
        /\ \A i \in 1..(Len(frames) - 1) : i \in 1..Len(frames) /\ frames'[i] = frames[i]
    <3>1. PICK n : n = Len(frames)
      OBVIOUS
    <3>2. n \in Nat \ {0} /\ Len(Pop) = n - 1 /\ \A i \in 1..(n - 1) : Pop[i] = frames[i]
      BY <1>1, <2>1, <3>1, Popping
    <3>3. n \in 1..n /\ \A i \in 1..(n - 1) : i \in 1..n
      BY <3>2
    <3>4. QED
      BY <2>1, <3>1, <3>2, <3>3
  <2>3. Promised(claimed)'
    BY <2>1, <2>2 DEF PromiseInv, Promised, Top
  <2>4. \A i \in 1..Len(frames') : Promised(frames[i].undo.claimed)'
    BY <2>1, <2>2 DEF PromiseInv, Promised
  <2>5. QED
    BY <1>1, <2>1, <2>3, <2>4 DEF PromiseInv, Promised
<1>8. ASSUME NEW key \in Keys, Owning(key)
      PROVE  UNCHANGED <<promised, merkleRoot, claimed, frames>>
  BY <1>8
  DEF Owning, SetToken, Pause, Unpause, AcceptOwnership, RenounceOwnership,
      SetPublisher, TransferOwnership, Withdraw, roots, counted
<1>9. CASE Fund \/ ChangeTax \/ UNCHANGED vars
  BY <1>3, <1>9 DEF Fund, ChangeTax, vars, roots, counted
<1>10. QED
  BY <1>3, <1>4, <1>5, <1>6, <1>7, <1>8, <1>9 DEF Next, Claim, Transfer

THEOREM PromiseInvariant == Spec => []PromiseInv
BY InitPromise, PromiseStep, PTL DEF Spec

\* Nothing delivered exceeds what is claimed, inside a transaction or out.
LEMMA DeliveredIsClaimed ==
  ASSUME BooksInv, NEW a \in Accounts
  PROVE  received[a] <= claimed[a]
<1>1. received[a] \in Nat /\ Settled(Len(frames), claimed, received)
  BY DEF BooksInv, TypeOK, Amounts
<1>2. CASE \E i \in 1..Len(frames) : frames[i].account = a
  BY <1>1, <1>2 DEF Settled
<1>3. CASE ~\E i \in 1..Len(frames) : frames[i].account = a
  BY <1>1, <1>3 DEF Settled
<1>4. QED
  BY <1>2, <1>3

(***************************************************************************)
(* Nobody is ever handed more than the largest total a published root gave *)
(* them, inside a transaction or out, whatever roots the publisher's key   *)
(* publishes and however claims nest (publishRoot, claim).                 *)
(***************************************************************************)
THEOREM NeverPastPromise == Spec => []NeverPaidPastPromise
<1>1. PromiseInv => NeverPaidPastPromise
  <2> SUFFICES ASSUME PromiseInv, NEW a \in Accounts
               PROVE  received[a] <= promised[a]
    BY DEF NeverPaidPastPromise
  <2>1. received[a] <= claimed[a] /\ claimed[a] <= promised[a]
    BY DeliveredIsClaimed DEF PromiseInv, Promised
  <2>2. received[a] \in Nat /\ claimed[a] \in Nat /\ promised[a] \in Nat
    BY DEF PromiseInv, BooksInv, TypeOK, Amounts
  <2>3. QED
    BY <2>1, <2>2
<1>2. QED
  BY <1>1, PromiseInvariant, PTL

(***************************************************************************)
(* With cumulative roots what an account has and what the current root     *)
(* still owes it are all it was ever promised, however many roots it let   *)
(* pass and however many claims were refused ("a new root never            *)
(* invalidates an unclaimed one", publishRoot and claim).                  *)
(***************************************************************************)
THEOREM NothingIsLost == Spec => []NothingPromisedIsLost
<1>1. PromiseInv => NothingPromisedIsLost
  <2> SUFFICES ASSUME PromiseInv, frames = <<>>, merkleRoot \in {None, promised},
                      NEW a \in Accounts
               PROVE  received[a] + Owed(a) = promised[a]
    BY DEF NothingPromisedIsLost, Idle, Cumulative
  <2>1. claimed[a] = received[a]
    BY DEF PromiseInv, BooksInv, Settled
  <2>2. received[a] \in Nat /\ claimed[a] \in Nat /\ promised[a] \in Nat
    BY DEF PromiseInv, BooksInv, TypeOK, Amounts
  <2>3. claimed[a] <= promised[a]
    BY DEF PromiseInv, Promised
  <2>4. merkleRoot = None => promised[a] = 0
    BY DEF PromiseInv
  <2>5. QED
    BY <2>1, <2>2, <2>3, <2>4 DEF Owed
<1>2. QED
  BY <1>1, PromiseInvariant, PTL

=============================================================================
