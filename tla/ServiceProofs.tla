---------------------------- MODULE ServiceProofs ----------------------------
(***************************************************************************)
(* Proofs about the API process and the store it opens (Service): the      *)
(* doors to an account, the gate of every operation, the opening of the    *)
(* file, the reward pages, the rate limiter and the live feed.  Each part  *)
(* keeps to its own variables, whatever else the process does, its death   *)
(* included.                                                               *)
(***************************************************************************)
EXTENDS Service, SequenceTheorems, FiniteSetTheorems, WellFoundedInduction, TLAPS

-----------------------------------------------------------------------------
(***************************************************************************)
(* Accounts: one nonce buys one attempt, one address reaches one account,  *)
(* and nobody's door is taken by a payout address: for any number of       *)
(* callers, tabs, nonces and addresses.                                    *)
(***************************************************************************)

Account == [email : Emails \cup {None}, wallet : Addresses \cup {None},
            proven : Addresses \cup {None}, opened : Addresses \cup {None}]
EmailCall == [at : {"registering"}, email : Emails]
WalletCall ==
  [at : {"verified", "sweeping", "signed", "unproven", "known", "creating", "pinning"},
   nonce : Nonces, attempt : Nat, account : Nat, address : Addresses]

\* What has a value of which kind.
Typed ==
  /\ accounts \in Seq(Account)
  /\ calls \in [Callers -> {None} \cup EmailCall \cup WalletCall]
  /\ now \in Nat
  /\ \E k \in Nat : k <= MaxNonces /\ issued \in [1..k -> [until : Nat, signer : Addresses]]
  /\ attempts \in [Nonces -> Nat]

\* A nonce that bought an attempt is on file as long as its cookie runs.
NoncesCount ==
  /\ \A n \in Nonces : attempts[n] > 0 =>
       n \in DOMAIN issued /\ (n \in spent \/ issued[n].until < now)
  /\ \A n \in Nonces \ late : attempts[n] <= 1
  /\ \A c \in Callers : calls[c] \in WalletCall /\ calls[c] # None => calls[c].nonce \in DOMAIN issued

\* Who has signed in with an address has its account; nobody else has it.
DoorsStand ==
  /\ \A i \in Ids : accounts[i].email = None =>
       accounts[i].proven = accounts[i].opened /\ accounts[i].opened # None
  /\ \A i \in Ids : accounts[i].proven # None => <<accounts[i].proven, i>> \in reached
  /\ \A i, j \in Ids : accounts[i].proven = accounts[j].proven /\ accounts[i].proven # None => i = j
  /\ \A x \in reached : /\ x[1] \in Addresses /\ x[2] \in Ids
                        /\ x[1] \in displaced \/ accounts[x[2]].proven = x[1]

\* A request is on its way to an account that is its own, or has an email.
CallsPoint == \A c \in Callers :
  /\ At(c, "known") =>
       /\ calls[c].account \in Ids
       /\ calls[c].address \in displaced \/ accounts[calls[c].account].proven = calls[c].address
  /\ At(c, "pinning") => calls[c].account \in Ids /\ accounts[calls[c].account].email # None

\* The inductive invariant.
AInv == Typed /\ NoncesCount /\ DoorsStand /\ CallsPoint

\* An account more.
LEMMA OneMore ==
  ASSUME accounts \in Seq(Account), NEW a \in Account, accounts' = Append(accounts, a)
  PROVE  /\ accounts' \in Seq(Account)
         /\ Len(accounts) \in Nat /\ Len(accounts') = Len(accounts) + 1
         /\ \A i \in Ids : accounts'[i] = accounts[i]
         /\ accounts'[Len(accounts) + 1] = a
         /\ Ids' = Ids \cup {Len(accounts) + 1} /\ Len(accounts) + 1 \notin Ids
<1>1. /\ accounts' \in Seq(Account) /\ Len(accounts') = Len(accounts) + 1
      /\ \A i \in 1..Len(accounts) : accounts'[i] = accounts[i]
      /\ accounts'[Len(accounts) + 1] = a
  BY AppendProperties
<1>2. Len(accounts) \in Nat
  BY LenProperties
<1>3. QED
  BY <1>1, <1>2 DEF Ids

\* An account changed.
LEMMA OneChanged ==
  ASSUME accounts \in Seq(Account), NEW i \in Ids, NEW a \in Account,
         accounts' = [accounts EXCEPT ![i] = a]
  PROVE  /\ accounts' \in Seq(Account)
         /\ Ids' = Ids /\ accounts'[i] = a
         /\ \A j \in Ids : j # i => accounts'[j] = accounts[j]
<1>1. accounts' \in Seq(Account) /\ Len(accounts') = Len(accounts)
      /\ \A j \in 1..Len(accounts) : accounts'[j] = IF j = i THEN a ELSE accounts[j]
  BY ExceptSeq DEF Ids
<1>2. QED
  BY <1>1 DEF Ids

LEMMA AccountOf ==
  ASSUME accounts \in Seq(Account), NEW i \in Ids
  PROVE  accounts[i] \in Account
  BY ElementOfSeq DEF Ids

\* Of some numbers one is the least.
LEMMA LeastOf ==
  ASSUME NEW I \in SUBSET Nat, I # {}
  PROVE  \E n \in I : \A j \in I : n <= j
<1>1. IsWellFoundedOn(OpToRel(<, Nat), Nat)
  BY NatLessThanWellFounded
<1>2. PICK n \in I : \A j \in I : ~(<<j, n>> \in OpToRel(<, Nat))
  BY <1>1, WFMin
<1>3. \A j \in I : ~(j < n)
  BY <1>2 DEF OpToRel
<1>4. QED
  BY <1>3

\* Nothing has happened yet.
LEMMA InitAccounts == Init => AInv
<1> SUFFICES ASSUME Init PROVE AInv
  OBVIOUS
<1>1. accounts = <<>> /\ issued = <<>> /\ reached = {} /\ now = 0
      /\ calls = [c \in Callers |-> None] /\ attempts = [n \in Nonces |-> 0]
  BY DEF Init, AccountsInit
<1>2. accounts \in Seq(Account) /\ Ids = {}
  BY <1>1, EmptySeq DEF Ids
<1>3. issued \in [1..0 -> [until : Nat, signer : Addresses]]
  BY <1>1
<1>4. Typed
  BY <1>1, <1>2, <1>3, AccountsAssumption DEF Typed
<1>5. NoncesCount
  BY <1>1 DEF NoncesCount
<1>6. DoorsStand /\ CallsPoint
  BY <1>1, <1>2 DEF DoorsStand, CallsPoint, At
<1>7. QED
  BY <1>4, <1>5, <1>6 DEF AInv

\* A request goes on, or ends, and nothing is written.
LEMMA GoesOn ==
  ASSUME AInv, NEW c \in Callers, NEW next \in {None} \cup EmailCall \cup WalletCall,
         calls' = [calls EXCEPT ![c] = next],
         next # None /\ next \in WalletCall => next.nonce \in DOMAIN issued,
         next # None => next.at # "known" /\ next.at # "pinning",
         UNCHANGED <<accounts, issued, spent, now, attempts, late, reached, displaced>>
  PROVE  AInv'
<1>1. Typed /\ NoncesCount /\ DoorsStand /\ CallsPoint
  BY DEF AInv
<1>2. calls'[c] = next /\ \A d \in Callers : d # c => calls'[d] = calls[d]
  BY <1>1 DEF Typed
<1>3. Typed'
  BY <1>1 DEF Typed
<1>4. NoncesCount'
  BY <1>1, <1>2 DEF NoncesCount
<1>5. DoorsStand'
  BY <1>1 DEF DoorsStand, Ids
<1>6. CallsPoint'
  BY <1>1, <1>2 DEF CallsPoint, At, Ids
<1>7. QED
  BY <1>3, <1>4, <1>5, <1>6 DEF AInv

LEMMA RegisterStep ==
  ASSUME AInv, NEW c \in Callers, NEW email \in Emails, Register(c, email)
  PROVE  AInv'
<1>1. Typed
  BY DEF AInv
<1>2. PICK next : next = [at |-> "registering", email |-> email]
  OBVIOUS
<1>3. next \in EmailCall /\ next \notin WalletCall /\ next.at = "registering"
  BY <1>2 DEF EmailCall, WalletCall
<1>4. calls' = [calls EXCEPT ![c] = next] \/ calls' = [calls EXCEPT ![c] = calls[c]]
  BY <1>1, <1>2 DEF Register, Typed
<1>5. UNCHANGED <<accounts, issued, spent, now, attempts, late, reached, displaced>>
      /\ calls[c] = None
  BY DEF Register, history
<1>6. QED
  BY <1>3, <1>4, <1>5, GoesOn

LEMMA PresentStep ==
  ASSUME AInv, NEW c \in Callers, NEW n \in Nonces, Present(c, n)
  PROVE  AInv'
<1>1. Typed /\ n \in DOMAIN issued
  BY DEF AInv, Present
<1>2. PICK next : next = [at |-> "verified", nonce |-> n, attempt |-> 1, account |-> 0,
                          address |-> issued[n].signer]
  OBVIOUS
<1>3. issued[n].signer \in Addresses
  BY <1>1 DEF Typed
<1>4. next \in WalletCall /\ next.at = "verified" /\ next.nonce = n
  BY <1>2, <1>3 DEF WalletCall
<1>5. calls' = [calls EXCEPT ![c] = next]
      /\ UNCHANGED <<accounts, issued, spent, now, attempts, late, reached, displaced>>
  BY <1>2 DEF Present, history
<1>6. QED
  BY <1>1, <1>4, <1>5, GoesOn

\* A call that goes from one place to the next, its account and attempt aside.
LEMMA Moved ==
  ASSUME AInv, NEW c \in Callers, calls[c] # None, calls[c].at # "registering"
  PROVE  /\ calls[c] \in WalletCall /\ calls[c].nonce \in DOMAIN issued
         /\ calls[c].nonce \in Nonces /\ calls[c].address \in Addresses
         /\ calls[c].attempt \in Nat /\ calls[c].account \in Nat
<1>1. calls[c] \in {None} \cup EmailCall \cup WalletCall /\ calls[c] # None
  BY DEF AInv, Typed
<1>2. calls[c] \in WalletCall
  BY <1>1 DEF EmailCall
<1>3. QED
  BY <1>1, <1>2 DEF AInv, NoncesCount, WalletCall

\* The row is written at most once while the cookie runs.
LEMMA SpendNonceStep ==
  ASSUME AInv, NEW c \in Callers, SpendNonce(c)
  PROVE  AInv'
<1>1. Typed /\ NoncesCount /\ DoorsStand /\ CallsPoint /\ At(c, "verified")
  BY DEF AInv, SpendNonce
<1>2. PICK n : n = calls[c].nonce
  OBVIOUS
<1>3. n \in Nonces /\ n \in DOMAIN issued /\ calls[c] \in WalletCall
  BY <1>1, <1>2, Moved DEF At
<1>4. CASE n \in spent
  <2>1. calls' = [calls EXCEPT ![c] = None]
        /\ UNCHANGED <<accounts, issued, spent, now, attempts, late, reached, displaced>>
    BY <1>2, <1>4 DEF SpendNonce, Spends, Ends
  <2>2. QED
    BY <2>1, GoesOn
<1>5. CASE n \notin spent
  <2>1. PICK next : next = [calls[c] EXCEPT !.at = "sweeping"]
    OBVIOUS
  <2>2. next \in WalletCall /\ next.at = "sweeping" /\ next.nonce = n
    BY <1>2, <1>3, <2>1 DEF WalletCall
  <2>3. /\ calls' = [calls EXCEPT ![c] = next] /\ spent' = spent \cup {n}
        /\ attempts' = [attempts EXCEPT ![n] = @ + 1]
        /\ late' = IF Fresh(n) THEN late ELSE late \cup {n}
        /\ UNCHANGED <<accounts, issued, now, reached, displaced>>
    BY <1>2, <1>5, <2>1 DEF SpendNonce, Spends, Goes
  <2>4. calls'[c] = next /\ \A d \in Callers : d # c => calls'[d] = calls[d]
    BY <1>1, <2>3 DEF Typed
  <2>5. attempts' \in [Nonces -> Nat] /\ attempts'[n] = attempts[n] + 1 /\ attempts[n] \in Nat
        /\ \A m \in Nonces : m # n => attempts'[m] = attempts[m]
    BY <1>1, <1>3, <2>3 DEF Typed
  <2>6. Typed'
    BY <1>1, <2>2, <2>3, <2>5 DEF Typed
  <2>7. attempts[n] > 0 => n \in late'
    <3>1. attempts[n] > 0 => issued[n].until < now
      BY <1>1, <1>3, <1>5 DEF NoncesCount
    <3>2. issued[n].until \in Nat /\ now \in Nat
      BY <1>1, <1>3 DEF Typed
    <3>3. QED
      BY <2>3, <3>1, <3>2 DEF Fresh
  <2>8. NoncesCount'
    <3>1. \A m \in Nonces : attempts'[m] > 0 =>
            m \in DOMAIN issued' /\ (m \in spent' \/ issued'[m].until < now')
      BY <1>1, <1>3, <2>3, <2>5 DEF NoncesCount
    <3>2. \A m \in Nonces \ late' : attempts'[m] <= 1
      BY <1>1, <1>3, <2>3, <2>5, <2>7 DEF NoncesCount
    <3>3. QED
      BY <1>1, <1>3, <2>2, <2>3, <2>4, <3>1, <3>2 DEF NoncesCount
  <2>9. DoorsStand'
    BY <1>1, <2>3 DEF DoorsStand, Ids
  <2>10. CallsPoint'
    BY <1>1, <2>2, <2>3, <2>4 DEF CallsPoint, At, Ids
  <2>11. QED
    BY <2>6, <2>8, <2>9, <2>10 DEF AInv
<1>6. QED
  BY <1>4, <1>5

\* What a sweep takes has run out.
LEMMA SweepStep ==
  ASSUME AInv, NEW c \in Callers, SweepAndVerify(c)
  PROVE  AInv'
<1>1. Typed /\ NoncesCount /\ DoorsStand /\ CallsPoint /\ At(c, "sweeping")
  BY DEF AInv, SweepAndVerify
<1>2. calls[c] \in WalletCall /\ calls[c].nonce \in DOMAIN issued
  BY <1>1, Moved DEF At
<1>3. PICK next \in {None} \cup WalletCall :
        /\ calls' = [calls EXCEPT ![c] = next]
        /\ next = None \/ next = [calls[c] EXCEPT !.at = "signed"]
  <2>1. [calls[c] EXCEPT !.at = "signed"] \in WalletCall
    BY <1>2 DEF WalletCall
  <2>2. QED
    BY <2>1 DEF SweepAndVerify, Goes, Ends
<1>4. next = None \/ (next.at = "signed" /\ next.nonce \in DOMAIN issued)
  BY <1>2, <1>3 DEF WalletCall
<1>5. calls'[c] = next /\ \A d \in Callers : d # c => calls'[d] = calls[d]
  BY <1>1, <1>3 DEF Typed
<1>6. UNCHANGED <<accounts, issued, now, attempts, late, reached, displaced>>
      /\ \A n \in spent : n \in spent' \/ issued[n].until < now
  BY DEF SweepAndVerify, history, Swept
<1>7. Typed'
  BY <1>1, <1>3, <1>6 DEF Typed
<1>8. NoncesCount'
  BY <1>1, <1>4, <1>5, <1>6 DEF NoncesCount
<1>9. DoorsStand'
  BY <1>1, <1>6 DEF DoorsStand, Ids
<1>10. CallsPoint'
  BY <1>1, <1>4, <1>5, <1>6 DEF CallsPoint, At, Ids
<1>11. QED
  BY <1>7, <1>8, <1>9, <1>10 DEF AInv

\* A nonce is handed out.
LEMMA IssueStep ==
  ASSUME AInv, NEW n \in Nonces, NEW address \in Addresses, IssueNonce(n, address)
  PROVE  AInv'
<1>1. Typed /\ NoncesCount /\ DoorsStand /\ CallsPoint
  BY DEF AInv
<1>2. PICK k \in Nat : k <= MaxNonces /\ issued \in [1..k -> [until : Nat, signer : Addresses]]
  BY <1>1 DEF Typed
<1>3. n = k + 1
  <2>1. Cardinality(1..k) = k
    BY FS_Interval
  <2>2. QED
    BY <1>2, <2>1 DEF IssueNonce
<1>4. [until |-> now + NonceLife, signer |-> address] \in [until : Nat, signer : Addresses]
  BY <1>1, AccountsAssumption DEF Typed
<1>5. /\ issued' \in [1..n -> [until : Nat, signer : Addresses]]
      /\ \A m \in 1..k : m \in 1..n /\ issued'[m] = issued[m]
  BY <1>2, <1>3, <1>4 DEF IssueNonce
<1>6. n \in Nat /\ n <= MaxNonces
  BY <1>3, AccountsAssumption DEF Nonces
<1>7. UNCHANGED <<accounts, spent, calls, now, attempts, late, reached, displaced>>
  BY DEF IssueNonce, history
<1>8. Typed'
  BY <1>1, <1>5, <1>6, <1>7 DEF Typed
<1>9. \A m \in DOMAIN issued : m \in DOMAIN issued' /\ issued'[m] = issued[m]
  BY <1>2, <1>5
<1>10. NoncesCount'
  BY <1>1, <1>7, <1>9 DEF NoncesCount
<1>11. DoorsStand' /\ CallsPoint'
  BY <1>1, <1>7 DEF DoorsStand, CallsPoint, At, Ids
<1>12. QED
  BY <1>8, <1>10, <1>11 DEF AInv

\* A payout address is nobody's door.
LEMMA PayoutStep ==
  ASSUME AInv, NEW i \in Ids, NEW address \in Addresses \cup {None},
         accounts' = [accounts EXCEPT ![i].wallet = address],
         UNCHANGED <<issued, spent, calls, now, attempts, late, reached, displaced>>
  PROVE  AInv'
<1>1. Typed /\ NoncesCount /\ DoorsStand /\ CallsPoint
  BY DEF AInv
<1>2. accounts[i] \in Account
  BY <1>1, AccountOf DEF Typed
<1>3. PICK a : a = [accounts[i] EXCEPT !.wallet = address]
  OBVIOUS
<1>4. /\ a \in Account /\ a.email = accounts[i].email
      /\ a.proven = accounts[i].proven /\ a.opened = accounts[i].opened
  BY <1>2, <1>3 DEF Account
<1>5. accounts' = [accounts EXCEPT ![i] = a]
  BY <1>3
<1>6. /\ accounts' \in Seq(Account) /\ Ids' = Ids /\ accounts'[i] = a
      /\ \A j \in Ids : j # i => accounts'[j] = accounts[j]
  BY <1>1, <1>4, <1>5, OneChanged DEF Typed
<1>7. \A j \in Ids : /\ accounts'[j].email = accounts[j].email
                     /\ accounts'[j].proven = accounts[j].proven
                     /\ accounts'[j].opened = accounts[j].opened
  BY <1>4, <1>6
<1>8. Typed'
  BY <1>1, <1>6 DEF Typed
<1>9. NoncesCount'
  BY <1>1 DEF NoncesCount
<1>10. DoorsStand'
  BY <1>1, <1>6, <1>7 DEF DoorsStand
<1>11. CallsPoint'
  BY <1>1, <1>6, <1>7 DEF CallsPoint, At
<1>12. QED
  BY <1>8, <1>9, <1>10, <1>11 DEF AInv

\* An account is opened by email.
LEMMA OpenByEmailStep ==
  ASSUME AInv, NEW c \in Callers, OpenByEmail(c)
  PROVE  AInv'
<1>1. Typed /\ NoncesCount /\ DoorsStand /\ CallsPoint /\ At(c, "registering")
  BY DEF AInv, OpenByEmail
<1>2. calls[c].email \in Emails
  BY <1>1 DEF Typed, At, EmailCall, WalletCall
<1>3. calls' = [calls EXCEPT ![c] = None]
      /\ UNCHANGED <<issued, spent, now, attempts, late, reached, displaced>>
  BY DEF OpenByEmail, Ends, history
<1>4. CASE UNCHANGED accounts
  BY <1>3, <1>4, GoesOn
<1>5. CASE Opens(calls[c].email, None)
  <2>1. PICK a : a = [email |-> calls[c].email, wallet |-> None, proven |-> None, opened |-> None]
    OBVIOUS
  <2>2. a \in Account /\ a.proven = None /\ a.email # None
    BY <1>2, <2>1, AccountsAssumption DEF Account
  <2>3. accounts' = Append(accounts, a)
    BY <1>5, <2>1 DEF Opens
  <2>4. /\ accounts' \in Seq(Account)
        /\ Len(accounts) \in Nat /\ Len(accounts') = Len(accounts) + 1
        /\ \A i \in Ids : accounts'[i] = accounts[i]
        /\ accounts'[Len(accounts) + 1] = a
        /\ Ids' = Ids \cup {Len(accounts) + 1} /\ Len(accounts) + 1 \notin Ids
    BY <1>1, <2>2, <2>3, OneMore DEF Typed
  <2>5. calls'[c] = None /\ \A d \in Callers : d # c => calls'[d] = calls[d]
    BY <1>1, <1>3 DEF Typed
  <2>6. Typed'
    BY <1>1, <1>3, <2>4 DEF Typed
  <2>7. NoncesCount'
    BY <1>1, <1>3, <2>5 DEF NoncesCount
  <2>8. DoorsStand'
    BY <1>1, <1>3, <2>2, <2>4 DEF DoorsStand
  <2>9. CallsPoint'
    BY <1>1, <1>3, <2>4, <2>5 DEF CallsPoint, At
  <2>10. QED
    BY <2>6, <2>7, <2>8, <2>9 DEF AInv
<1>6. QED
  BY <1>4, <1>5 DEF OpenByEmail

\* A request that found an account is on its way to it.
LEMMA FindStep ==
  ASSUME AInv, NEW c \in Callers, FindProven(c) \/ FindLinked(c)
  PROVE  AInv'
<1>1. Typed /\ NoncesCount /\ DoorsStand /\ CallsPoint
  BY DEF AInv
<1>2. calls[c] \in WalletCall /\ calls[c].nonce \in DOMAIN issued /\ calls[c].address \in Addresses
      /\ UNCHANGED <<accounts, issued, spent, now, attempts, late, reached, displaced>>
  BY Moved DEF FindProven, FindLinked, At, history
<1>3. PICK found, next :
        /\ calls' = [calls EXCEPT ![c] = next]
        /\ \/ /\ found = ProvenBy(calls[c].address)
              /\ \/ found = {} /\ next = [calls[c] EXCEPT !.at = "unproven"]
                 \/ found # {} /\ next = [calls[c] EXCEPT !.at = "known", !.account = Oldest(found)]
           \/ /\ found = LinkedTo(calls[c].address)
              /\ \/ found = {} /\ next = [calls[c] EXCEPT !.at = "creating"]
                 \/ found # {} /\ next = [calls[c] EXCEPT !.at = "pinning", !.account = Oldest(found)]
  <2>1. CASE FindProven(c)
    <3>1. PICK found : found = ProvenBy(calls[c].address)
      OBVIOUS
    <3>2. PICK next : next = IF found = {} THEN [calls[c] EXCEPT !.at = "unproven"]
                             ELSE [calls[c] EXCEPT !.at = "known", !.account = Oldest(found)]
      OBVIOUS
    <3>3. calls' = [calls EXCEPT ![c] = next]
      BY <1>1, <2>1, <3>1, <3>2 DEF FindProven, Typed
    <3>4. QED
      BY <3>1, <3>2, <3>3
  <2>2. CASE FindLinked(c)
    <3>1. PICK found : found = LinkedTo(calls[c].address)
      OBVIOUS
    <3>2. PICK next : next = IF found = {} THEN [calls[c] EXCEPT !.at = "creating"]
                             ELSE [calls[c] EXCEPT !.at = "pinning", !.account = Oldest(found)]
      OBVIOUS
    <3>3. calls' = [calls EXCEPT ![c] = next]
      BY <1>1, <2>2, <3>1, <3>2 DEF FindLinked, Typed
    <3>4. QED
      BY <3>1, <3>2, <3>3
  <2>3. QED
    BY <2>1, <2>2
<1>4. found \subseteq Ids
  BY <1>3 DEF ProvenBy, LinkedTo
<1>5. CASE found = {}
  <2>1. next \in WalletCall /\ next.nonce = calls[c].nonce /\ next.at # "known" /\ next.at # "pinning"
    BY <1>2, <1>3, <1>5 DEF WalletCall
  <2>2. QED
    BY <1>2, <1>3, <2>1, GoesOn
<1>6. CASE found # {}
  <2>1. Oldest(found) \in found /\ Oldest(found) \in Ids /\ Oldest(found) \in Nat
    <3>1. found \subseteq Nat
      BY <1>1, <1>4, LenProperties DEF Ids, Typed
    <3>2. \E i \in found : \A j \in found : i <= j
      BY <1>6, <3>1, LeastOf
    <3>3. QED
      BY <1>4, <3>1, <3>2 DEF Oldest
  <2>3. /\ next \in WalletCall /\ next.nonce = calls[c].nonce
        /\ next.address = calls[c].address /\ next.account = Oldest(found)
        /\ \/ next.at = "known" /\ found = ProvenBy(calls[c].address)
           \/ next.at = "pinning" /\ found = LinkedTo(calls[c].address)
    BY <1>2, <1>3, <1>6, <2>1 DEF WalletCall
  <2>4. calls'[c] = next /\ \A d \in Callers : d # c => calls'[d] = calls[d]
    BY <1>1, <1>3 DEF Typed
  <2>5. next.at = "pinning" => accounts[next.account].email # None
    <3>1. SUFFICES ASSUME next.at = "pinning" PROVE accounts[next.account].email # None
      OBVIOUS
    <3>2. accounts[next.account].proven = None /\ accounts[next.account].wallet = calls[c].address
      BY <2>1, <2>3, <3>1 DEF LinkedTo
    <3>3. QED
      BY <1>1, <2>1, <2>3, <3>2 DEF DoorsStand
  <2>6. next.at = "known" => accounts[next.account].proven = next.address
    BY <2>1, <2>3 DEF ProvenBy
  <2>7. Typed' /\ NoncesCount'
    BY <1>1, <1>2, <1>3, <2>3, <2>4 DEF Typed, NoncesCount
  <2>8. DoorsStand'
    BY <1>1, <1>2 DEF DoorsStand, Ids
  <2>9. CallsPoint'
    BY <1>1, <1>2, <2>1, <2>3, <2>4, <2>5, <2>6 DEF CallsPoint, At, Ids
  <2>10. QED
    BY <2>7, <2>8, <2>9 DEF AInv
<1>7. QED
  BY <1>5, <1>6

\* Who knew the way is in.
LEMMA SignInAgainStep ==
  ASSUME AInv, NEW c \in Callers, SignInAgain(c)
  PROVE  AInv'
<1>1. Typed /\ NoncesCount /\ DoorsStand /\ CallsPoint /\ At(c, "known")
  BY DEF AInv, SignInAgain
<1>2. /\ calls[c].address \in Addresses /\ calls[c].account \in Ids
      /\ calls[c].address \in displaced \/ accounts[calls[c].account].proven = calls[c].address
  BY <1>1, Moved DEF At, CallsPoint
<1>3. /\ reached' = reached \cup {<<calls[c].address, calls[c].account>>}
      /\ calls' = [calls EXCEPT ![c] = None]
      /\ UNCHANGED <<accounts, issued, spent, now, attempts, late, displaced>>
  BY DEF SignInAgain, Reach, Ends
<1>4. calls'[c] = None /\ \A d \in Callers : d # c => calls'[d] = calls[d]
  BY <1>1, <1>3 DEF Typed
<1>5. Typed' /\ NoncesCount'
  BY <1>1, <1>3, <1>4 DEF Typed, NoncesCount
<1>6. DoorsStand'
  <2>1. \A x \in reached' : /\ x[1] \in Addresses /\ x[2] \in Ids
                            /\ x[1] \in displaced \/ accounts[x[2]].proven = x[1]
    <3>1. TAKE x \in reached'
    <3>2. CASE x = <<calls[c].address, calls[c].account>>
      <4>1. x[1] = calls[c].address /\ x[2] = calls[c].account
        BY <3>2
      <4>2. QED
        BY <1>2, <4>1
    <3>3. QED
      BY <1>1, <1>3, <3>2 DEF DoorsStand
  <2>2. QED
    BY <1>1, <1>3, <2>1 DEF DoorsStand, Ids
<1>7. CallsPoint'
  BY <1>1, <1>3, <1>4 DEF CallsPoint, At, Ids
<1>8. QED
  BY <1>5, <1>6, <1>7 DEF AInv

\* Who lost a race begins again, or gives up.
LEMMA LostRaceStep ==
  ASSUME AInv, NEW c \in Callers, calls[c] \in WalletCall, calls[c].nonce \in DOMAIN issued,
         LostRace(c),
         UNCHANGED <<accounts, issued, spent, now, attempts, late, reached, displaced>>
  PROVE  AInv'
<1>1. Typed
  BY DEF AInv
<1>2. PICK next : /\ calls' = [calls EXCEPT ![c] = next]
                  /\ next = None \/ next = [calls[c] EXCEPT !.at = "signed", !.attempt = @ + 1]
  <2>1. PICK again : again = [calls[c] EXCEPT !.at = "signed", !.attempt = @ + 1]
    OBVIOUS
  <2>2. calls' = [calls EXCEPT ![c] = None] \/ calls' = [calls EXCEPT ![c] = again]
    BY <1>1, <2>1 DEF LostRace, Ends, Typed
  <2>3. QED
    BY <2>1, <2>2
<1>3. next = None \/ (next \in WalletCall /\ next.nonce = calls[c].nonce /\ next.at = "signed")
  <2>1. CASE next = [calls[c] EXCEPT !.at = "signed", !.attempt = @ + 1]
    <3>1. calls[c].attempt + 1 \in Nat
      BY DEF WalletCall
    <3>2. QED
      BY <2>1, <3>1 DEF WalletCall
  <2>2. QED
    BY <1>2, <2>1
<1>4. QED
  BY <1>2, <1>3, GoesOn

\* The address of an account with an email is the one that signed in.
LEMMA PinStep ==
  ASSUME AInv, NEW c \in Callers, Pin(c)
  PROVE  AInv'
<1>1. Typed /\ NoncesCount /\ DoorsStand /\ CallsPoint /\ At(c, "pinning")
  BY DEF AInv, Pin
<1>2. PICK i, address : i = calls[c].account /\ address = calls[c].address
  OBVIOUS
<1>3. /\ i \in Ids /\ accounts[i].email # None /\ address \in Addresses /\ address # None
      /\ calls[c] \in WalletCall /\ calls[c].nonce \in DOMAIN issued
  BY <1>1, <1>2, Moved, AccountsAssumption DEF At, CallsPoint
<1>4. CASE ProvenBy(address) \ {i} # {}
  <2>1. LostRace(c)
        /\ UNCHANGED <<accounts, issued, spent, now, attempts, late, reached, displaced>>
    BY <1>2, <1>4 DEF Pin
  <2>2. QED
    BY <1>3, <2>1, LostRaceStep
<1>5. CASE ProvenBy(address) \ {i} = {}
  <2>1. accounts[i] \in Account
    BY <1>1, <1>3, AccountOf DEF Typed
  <2>2. PICK a : a = [accounts[i] EXCEPT !.proven = address]
    OBVIOUS
  <2>3. a \in Account /\ a.email = accounts[i].email /\ a.proven = address
    BY <1>3, <2>1, <2>2 DEF Account
  <2>4. /\ accounts' = [accounts EXCEPT ![i] = a]
        /\ displaced' = displaced \cup ({accounts[i].proven} \ {None, address})
        /\ reached' = reached \cup {<<address, i>>}
        /\ calls' = [calls EXCEPT ![c] = None]
        /\ UNCHANGED <<issued, spent, now, attempts, late>>
    BY <1>2, <1>5, <2>2 DEF Pin, Ends, Reach
  <2>5. /\ accounts' \in Seq(Account) /\ Ids' = Ids /\ accounts'[i] = a
        /\ \A j \in Ids : j # i => accounts'[j] = accounts[j]
    BY <1>1, <1>3, <2>3, <2>4, OneChanged DEF Typed
  <2>6. calls'[c] = None /\ \A d \in Callers : d # c => calls'[d] = calls[d]
    BY <1>1, <2>4 DEF Typed
  <2>7. \A j \in Ids : accounts[j].proven = address => j = i
    BY <1>5 DEF ProvenBy
  <2>8. \A x \in Addresses : x \in displaced' \/ accounts[i].proven = x => x \in displaced' \/ x = address
    BY <2>4, AccountsAssumption
  <2>9. Typed' /\ NoncesCount'
    BY <1>1, <2>4, <2>5, <2>6 DEF Typed, NoncesCount
  <2>10. DoorsStand'
    <3>1. \A j \in Ids' : accounts'[j].email = None =>
            accounts'[j].proven = accounts'[j].opened /\ accounts'[j].opened # None
      BY <1>1, <1>3, <2>3, <2>5 DEF DoorsStand
    <3>2. \A j \in Ids' : accounts'[j].proven # None => <<accounts'[j].proven, j>> \in reached'
      BY <1>1, <2>3, <2>4, <2>5 DEF DoorsStand
    <3>3. \A j, k \in Ids' :
            accounts'[j].proven = accounts'[k].proven /\ accounts'[j].proven # None => j = k
      BY <1>1, <2>3, <2>5, <2>7 DEF DoorsStand
    <3>4. \A x \in reached' : /\ x[1] \in Addresses /\ x[2] \in Ids'
                              /\ x[1] \in displaced' \/ accounts'[x[2]].proven = x[1]
      <4>1. TAKE x \in reached'
      <4>2. CASE x = <<address, i>>
        BY <1>3, <2>3, <2>5, <4>2
      <4>3. CASE x \in reached
        <5>1. /\ x[1] \in Addresses /\ x[2] \in Ids
              /\ x[1] \in displaced \/ accounts[x[2]].proven = x[1]
          BY <1>1, <4>3 DEF DoorsStand
        <5>2. CASE x[2] = i
          BY <2>3, <2>4, <2>5, <2>8, <5>1, <5>2
        <5>3. CASE x[2] # i
          BY <2>4, <2>5, <5>1, <5>3
        <5>4. QED
          BY <5>2, <5>3
      <4>4. QED
        BY <2>4, <4>2, <4>3
    <3>5. QED
      BY <3>1, <3>2, <3>3, <3>4 DEF DoorsStand
  <2>11. CallsPoint'
    <3>1. \A d \in Callers : d # c /\ At(d, "known") =>
            calls[d].address \in displaced' \/ accounts'[calls[d].account].proven = calls[d].address
      <4>1. SUFFICES ASSUME NEW d \in Callers, d # c, At(d, "known")
                     PROVE  calls[d].address \in displaced'
                              \/ accounts'[calls[d].account].proven = calls[d].address
        OBVIOUS
      <4>2. /\ calls[d].address \in Addresses /\ calls[d].account \in Ids
            /\ calls[d].address \in displaced
                 \/ accounts[calls[d].account].proven = calls[d].address
        BY <1>1, <4>1, Moved DEF At, CallsPoint
      <4>3. CASE calls[d].account = i
        BY <2>3, <2>4, <2>5, <2>8, <4>2, <4>3
      <4>4. CASE calls[d].account # i
        BY <2>4, <2>5, <4>2, <4>4
      <4>5. QED
        BY <4>3, <4>4
    <3>2. \A j \in Ids : accounts[j].email # None => accounts'[j].email # None
      BY <2>3, <2>5
    <3>3. QED
      BY <1>1, <2>5, <2>6, <3>1, <3>2 DEF CallsPoint, At
  <2>12. QED
    BY <2>9, <2>10, <2>11 DEF AInv
<1>6. QED
  BY <1>4, <1>5

\* An account is opened by an address that has none.
LEMMA OpenByWalletStep ==
  ASSUME AInv, NEW c \in Callers, OpenByWallet(c)
  PROVE  AInv'
<1>1. Typed /\ NoncesCount /\ DoorsStand /\ CallsPoint /\ At(c, "creating")
  BY DEF AInv, OpenByWallet
<1>2. PICK address : address = calls[c].address
  OBVIOUS
<1>3. /\ address \in Addresses /\ address # None
      /\ calls[c] \in WalletCall /\ calls[c].nonce \in DOMAIN issued
  BY <1>1, <1>2, Moved, AccountsAssumption DEF At
<1>4. UNCHANGED <<issued, spent, now, attempts, late, displaced>>
  BY DEF OpenByWallet
<1>5. CASE ProvenBy(address) # {}
  <2>1. LostRace(c) /\ UNCHANGED <<accounts, reached>>
    BY <1>2, <1>5 DEF OpenByWallet
  <2>2. QED
    BY <1>3, <1>4, <2>1, LostRaceStep
<1>6. CASE ProvenBy(address) = {}
  <2>1. PICK a : a = [email |-> None, wallet |-> address, proven |-> address, opened |-> address]
    OBVIOUS
  <2>2. a \in Account /\ a.proven = address /\ a.opened = address
    BY <1>3, <2>1 DEF Account
  <2>3. /\ accounts' = Append(accounts, a)
        /\ reached' = reached \cup {<<address, Len(accounts) + 1>>}
        /\ calls' = [calls EXCEPT ![c] = None]
    BY <1>2, <1>6, <2>1 DEF OpenByWallet, Opens, Ends, Reach
  <2>4. /\ accounts' \in Seq(Account)
        /\ Len(accounts) \in Nat /\ Len(accounts') = Len(accounts) + 1
        /\ \A i \in Ids : accounts'[i] = accounts[i]
        /\ accounts'[Len(accounts) + 1] = a
        /\ Ids' = Ids \cup {Len(accounts) + 1} /\ Len(accounts) + 1 \notin Ids
    BY <1>1, <2>2, <2>3, OneMore DEF Typed
  <2>5. calls'[c] = None /\ \A d \in Callers : d # c => calls'[d] = calls[d]
    BY <1>1, <2>3 DEF Typed
  <2>6. Typed' /\ NoncesCount'
    BY <1>1, <1>4, <2>3, <2>4, <2>5 DEF Typed, NoncesCount
  <2>7. \A i \in Ids : accounts[i].proven # address
    BY <1>6 DEF ProvenBy
  <2>8. DoorsStand'
    <3>1. \A i \in Ids' : accounts'[i].email = None =>
            accounts'[i].proven = accounts'[i].opened /\ accounts'[i].opened # None
      BY <1>1, <1>3, <2>2, <2>4 DEF DoorsStand
    <3>2. \A i \in Ids' : accounts'[i].proven # None => <<accounts'[i].proven, i>> \in reached'
      BY <1>1, <2>2, <2>3, <2>4 DEF DoorsStand
    <3>3. \A i, j \in Ids' :
            accounts'[i].proven = accounts'[j].proven /\ accounts'[i].proven # None => i = j
      BY <1>1, <2>2, <2>4, <2>7 DEF DoorsStand
    <3>4. \A x \in reached' : /\ x[1] \in Addresses /\ x[2] \in Ids'
                              /\ x[1] \in displaced' \/ accounts'[x[2]].proven = x[1]
      <4>1. TAKE x \in reached'
      <4>2. CASE x = <<address, Len(accounts) + 1>>
        <5>1. x[1] = address /\ x[2] = Len(accounts) + 1
          BY <4>2
        <5>2. QED
          BY <1>3, <2>2, <2>4, <5>1
      <4>3. CASE x \in reached
        <5>1. /\ x[1] \in Addresses /\ x[2] \in Ids
              /\ x[1] \in displaced \/ accounts[x[2]].proven = x[1]
          BY <1>1, <4>3 DEF DoorsStand
        <5>2. QED
          BY <1>4, <2>4, <5>1
      <4>4. QED
        BY <2>3, <4>2, <4>3
    <3>5. QED
      BY <3>1, <3>2, <3>3, <3>4 DEF DoorsStand
  <2>9. CallsPoint'
    BY <1>1, <1>4, <2>4, <2>5 DEF CallsPoint, At
  <2>10. QED
    BY <2>6, <2>8, <2>9 DEF AInv
<1>7. QED
  BY <1>5, <1>6

\* Time passes, and the process may die.
LEMMA IdleStep ==
  ASSUME AInv, now' \in Nat, now' >= now, calls' = calls \/ calls' = [c \in Callers |-> None],
         UNCHANGED <<accounts, issued, spent, attempts, late, reached, displaced>>
  PROVE  AInv'
<1>1. Typed /\ NoncesCount /\ DoorsStand /\ CallsPoint
  BY DEF AInv
<1>2. \A n \in DOMAIN issued : issued[n].until \in Nat
  BY <1>1 DEF Typed
<1>3. \A c \in Callers : calls'[c] = calls[c] \/ calls'[c] = None
  BY <1>1 DEF Typed
<1>4. Typed'
  BY <1>1 DEF Typed
<1>5. NoncesCount'
  BY <1>1, <1>2, <1>3 DEF NoncesCount, Typed
<1>6. DoorsStand' /\ CallsPoint'
  BY <1>1, <1>3 DEF DoorsStand, CallsPoint, At, Ids
<1>7. QED
  BY <1>4, <1>5, <1>6 DEF AInv

\* The parts of the process leave the clock alone.
LEMMA ClockStands ==
  ASSUME LimiterNext \/ AccountsNext \/ AccessNext \/ FeedNext \/ BootstrapNext \/ RewardsPageNext
  PROVE  now' = now
<1>1. CASE LimiterNext
  BY <1>1 DEF LimiterNext, Hit
<1>2. CASE AccessNext
  BY <1>2 DEF AccessNext, OwnerNext, AgentNext, CountAgents, MintAgent, OwnerWrites, SetPermissions,
              RevokeAgent, RotateAgentKey, DeleteWorkspace, Connect, Close, FindWorkspace,
              CheckAgent, Act
<1>3. CASE FeedNext
  BY <1>3 DEF FeedNext, Stamp, IsFiled, OpenStream, Resume, Poll, Receive, Drop
<1>4. CASE BootstrapNext
  BY <1>4 DEF BootstrapNext, Open, ReadStamp, LookAtTables, Attempt, CheckStrict, CheckColumn,
              AlterTable, BeginCreate, Create, Busy, Exit, Ask, BeginTransaction, RunQuery,
              EndOperation
<1>5. CASE RewardsPageNext
  BY <1>5
  DEF RewardsPageNext, ReportMoves, Confirm, IsConfirmed, Earn, IsEarned, Load, Query, Send
<1>6. CASE AccountsNext
  BY <1>6
  DEF AccountsNext, CallSteps, Register, Present, OpenByEmail, SpendNonce, SweepAndVerify,
      FindProven, SignInAgain, FindLinked, Pin, OpenByWallet, UnlinkWallet, LinkWallet, IssueNonce
<1>7. QED
  BY <1>1, <1>2, <1>3, <1>4, <1>5, <1>6

\* The invariant is inductive.
LEMMA StepAccounts == AInv /\ [Next]_vars => AInv'
<1> SUFFICES ASSUME AInv, [Next]_vars PROVE AInv'
  OBVIOUS
<1>1. now \in Nat
  BY DEF AInv, Typed
<1>2. CASE AccountsNext
  <2>1. ASSUME NEW c \in Callers, CallSteps(c) PROVE AInv'
    BY <2>1, RegisterStep, PresentStep, OpenByEmailStep, SpendNonceStep, SweepStep, FindStep,
       SignInAgainStep, PinStep, OpenByWalletStep DEF CallSteps
  <2>2. ASSUME NEW i \in Ids, UnlinkWallet(i) PROVE AInv'
    BY <2>2, PayoutStep DEF UnlinkWallet, history
  <2>3. ASSUME NEW i \in Ids, NEW address \in Addresses, LinkWallet(i, address) PROVE AInv'
    BY <2>3, PayoutStep DEF LinkWallet, history
  <2>4. QED
    BY <1>2, <2>1, <2>2, <2>3, IssueStep DEF AccountsNext
<1>3. CASE (LimiterNext \/ AccessNext \/ FeedNext \/ BootstrapNext \/ RewardsPageNext)
           /\ UNCHANGED accountVars
  BY <1>1, <1>3, ClockStands, IdleStep DEF accountVars, history
<1>4. CASE Tick
  BY <1>1, <1>4, IdleStep DEF Tick, accountVars, history
<1>5. CASE Restart
  BY <1>1, <1>5, IdleStep DEF Restart, AccountsLost, history
<1>6. CASE UNCHANGED vars
  BY <1>1, <1>6, IdleStep DEF vars, accountVars, history
<1>7. QED
  BY <1>2, <1>3, <1>4, <1>5, <1>6 DEF Next

(***************************************************************************)
(* One nonce, one attempt, but for requests that wrote their row after the *)
(* cookie had run out (siwe-nonces.ts).                                    *)
(***************************************************************************)
THEOREM NonceBuysOneAttempt == Spec => []OneNonceOneAttempt
<1>1. AInv => OneNonceOneAttempt
  BY DEF AInv, NoncesCount, OneNonceOneAttempt
<1>2. QED
  BY <1>1, InitAccounts, StepAccounts, PTL DEF Spec

(***************************************************************************)
(* An address that signed in reaches one account for good                  *)
(* (findOrCreateUserByWallet).                                             *)
(***************************************************************************)
THEOREM AddressReachesOneAccount == Spec => []OneAddressOneAccount
<1>1. AInv => OneAddressOneAccount
  <2>1. SUFFICES ASSUME AInv, NEW x \in reached, NEW y \in reached, x[1] = y[1], x[1] \notin displaced
                 PROVE  x[2] = y[2]
    BY DEF OneAddressOneAccount
  <2>2. DoorsStand
    BY <2>1 DEF AInv
  <2>3. /\ x[1] \in Addresses /\ x[2] \in Ids /\ y[2] \in Ids
        /\ accounts[x[2]].proven = x[1] /\ accounts[y[2]].proven = x[1]
    BY <2>1, <2>2 DEF DoorsStand
  <2>4. QED
    BY <2>2, <2>3, AccountsAssumption DEF DoorsStand
<1>2. QED
  BY <1>1, InitAccounts, StepAccounts, PTL DEF Spec

(***************************************************************************)
(* Typing a payout address gives nobody a door and takes nobody's          *)
(* (linkWallet, getLinkedWallet).                                          *)
(***************************************************************************)
THEOREM DoorsAreKept == Spec => []AccountsKeepTheirDoors
<1>1. AInv => AccountsKeepTheirDoors
  BY DEF AInv, DoorsStand, AccountsKeepTheirDoors, WalletAccountsKeepTheirDoor, ProvenMeansSigned,
         SaysProven
<1>2. QED
  BY <1>1, InitAccounts, StepAccounts, PTL DEF Spec

-----------------------------------------------------------------------------
(***************************************************************************)
(* Access: a revoked agent gets nowhere, and a record keeps its author: for *)
(* any number of workspaces, tabs and connections.                         *)
(***************************************************************************)

Agent == [workspace : Workspaces, key : Nat, console : BOOLEAN,
          permissions : SUBSET Operations, revoked : BOOLEAN, onFile : BOOLEAN]
Connection == [agent : Nat, workspace : Workspaces, permissions : SUBSET Operations, key : Nat,
               at : {"idle", "entered", "allowed"},
               asks : {None} \cup (Workspaces \X Operations), cut : BOOLEAN]

\* What has a value of which kind; keys are unique.
AccessTyped ==
  /\ open \subseteq Workspaces
  /\ agents \in Seq(Agent)
  /\ keys \in Nat
  /\ mints \in [Tabs -> {None} \cup Workspaces]
  /\ conns \in [Connections -> {None} \cup Connection]

\* What is on file hangs on a workspace that is, and records on their authors.
RowsHang ==
  /\ \A a \in AgentIds : agents[a].onFile => agents[a].workspace \in open
  /\ \A r \in records : /\ r[1] \in open /\ r[2] \in AgentIds
                        /\ agents[r[2]].onFile /\ agents[r[2]].workspace = r[1]

\* A connection is an agent's, asks for its own workspace only, and, when its
\* agent was revoked as it asked, the agent still is, or it is not let through.
ConnsHang == \A k \in Connections : conns[k] # None =>
  /\ conns[k].agent \in AgentIds
  /\ conns[k].workspace = agents[conns[k].agent].workspace
  /\ conns[k].at # "idle" => /\ conns[k].asks \in Workspaces \X Operations
                             /\ conns[k].asks[1] = conns[k].workspace
  /\ conns[k].cut => agents[conns[k].agent].revoked /\ conns[k].at # "allowed"

\* The inductive invariant.
GInv == AccessTyped /\ RowsHang /\ ConnsHang

LEMMA AgentOf ==
  ASSUME agents \in Seq(Agent), NEW a \in AgentIds
  PROVE  agents[a] \in Agent
  BY ElementOfSeq DEF AgentIds

\* A row more.
LEMMA OneAgentMore ==
  ASSUME agents \in Seq(Agent), NEW a \in Agent, agents' = Append(agents, a)
  PROVE  /\ agents' \in Seq(Agent)
         /\ Len(agents) + 1 \in Nat
         /\ \A i \in AgentIds : agents'[i] = agents[i]
         /\ agents'[Len(agents) + 1] = a
         /\ AgentIds' = AgentIds \cup {Len(agents) + 1} /\ Len(agents) + 1 \notin AgentIds
<1>1. /\ agents' \in Seq(Agent) /\ Len(agents') = Len(agents) + 1
      /\ \A i \in 1..Len(agents) : agents'[i] = agents[i]
      /\ agents'[Len(agents) + 1] = a
  BY AppendProperties
<1>2. Len(agents) \in Nat
  BY LenProperties
<1>3. QED
  BY <1>1, <1>2 DEF AgentIds

\* A row changed.
LEMMA OneAgentChanged ==
  ASSUME agents \in Seq(Agent), NEW i \in AgentIds, NEW a \in Agent,
         agents' = [agents EXCEPT ![i] = a]
  PROVE  /\ agents' \in Seq(Agent)
         /\ AgentIds' = AgentIds /\ agents'[i] = a
         /\ \A j \in AgentIds : j # i => agents'[j] = agents[j]
<1>1. /\ agents' \in Seq(Agent) /\ Len(agents') = Len(agents)
      /\ \A j \in 1..Len(agents) : agents'[j] = IF j = i THEN a ELSE agents[j]
  BY ExceptSeq DEF AgentIds
<1>2. QED
  BY <1>1 DEF AgentIds

\* An open process, and nobody in it.
LEMMA InitAccess == Init => GInv
<1> SUFFICES ASSUME Init PROVE GInv
  OBVIOUS
<1>1. /\ open = Workspaces /\ agents = <<>> /\ keys = 0 /\ records = {}
      /\ mints = [t \in Tabs |-> None] /\ conns = [k \in Connections |-> None]
  BY DEF Init, AccessInit
<1>2. agents \in Seq(Agent) /\ AgentIds = {}
  BY <1>1, EmptySeq DEF AgentIds
<1>3. QED
  BY <1>1, <1>2 DEF GInv, AccessTyped, RowsHang, ConnsHang

\* A row more leaves the rest as it was.
LEMMA MoreStep ==
  ASSUME GInv, NEW a \in Agent, agents' = Append(agents, a),
         a.onFile => a.workspace \in open,
         \A r \in records' : r \in records \/ (r = <<a.workspace, Len(agents) + 1>> /\ a.onFile),
         keys' \in Nat, mints' \in [Tabs -> {None} \cup Workspaces],
         UNCHANGED <<open, conns>>
  PROVE  GInv'
<1>1. AccessTyped /\ RowsHang /\ ConnsHang
  BY DEF GInv
<1>2. /\ agents' \in Seq(Agent)
      /\ \A i \in AgentIds : agents'[i] = agents[i]
      /\ agents'[Len(agents) + 1] = a
      /\ AgentIds' = AgentIds \cup {Len(agents) + 1} /\ Len(agents) + 1 \notin AgentIds
  BY <1>1, OneAgentMore DEF AccessTyped
<1>3. AccessTyped'
  BY <1>1, <1>2 DEF AccessTyped
<1>4. RowsHang'
  <2>1. \A i \in AgentIds' : agents'[i].onFile => agents'[i].workspace \in open'
    BY <1>1, <1>2 DEF RowsHang
  <2>2. \A r \in records' : /\ r[1] \in open' /\ r[2] \in AgentIds'
                            /\ agents'[r[2]].onFile /\ agents'[r[2]].workspace = r[1]
    <3>1. TAKE r \in records'
    <3>2. CASE r \in records
      BY <1>1, <1>2, <3>2 DEF RowsHang
    <3>3. CASE r = <<a.workspace, Len(agents) + 1>> /\ a.onFile
      <4>1. r[1] = a.workspace /\ r[2] = Len(agents) + 1
        BY <3>3
      <4>2. QED
        BY <1>2, <3>3, <4>1
    <3>4. QED
      BY <3>2, <3>3
  <2>3. QED
    BY <2>1, <2>2 DEF RowsHang
<1>5. ConnsHang'
  BY <1>1, <1>2 DEF ConnsHang
<1>6. QED
  BY <1>3, <1>4, <1>5 DEF GInv

\* Nothing a row, a workspace or a connection is about changes.
LEMMA SameRowsStep ==
  ASSUME GInv, mints' \in [Tabs -> {None} \cup Workspaces], keys' \in Nat,
         \A r \in records' : \/ r \in records
                             \/ /\ r[1] \in open /\ r[2] \in AgentIds
                                /\ agents[r[2]].onFile /\ agents[r[2]].workspace = r[1],
         UNCHANGED <<open, agents, conns>>
  PROVE  GInv'
  BY DEF GInv, AccessTyped, RowsHang, ConnsHang, AgentIds

\* The owner counts agents, and mints one.
LEMMA MintStep ==
  ASSUME GInv, NEW t \in Tabs,
         \/ \E w \in Workspaces : CountAgents(t, w)
         \/ \E p \in SUBSET Operations : MintAgent(t, p)
  PROVE  GInv'
<1>1. AccessTyped
  BY DEF GInv
<1>2. CASE \E w \in Workspaces : CountAgents(t, w)
  <2>1. /\ mints' \in [Tabs -> {None} \cup Workspaces]
        /\ UNCHANGED <<open, agents, keys, conns, records>>
    BY <1>1, <1>2 DEF CountAgents, AccessTyped
  <2>2. QED
    BY <1>1, <2>1, SameRowsStep DEF AccessTyped
<1>3. ASSUME NEW p \in SUBSET Operations, MintAgent(t, p)
      PROVE  GInv'
  <2>1. /\ mints' \in [Tabs -> {None} \cup Workspaces] /\ mints[t] \in Workspaces
        /\ UNCHANGED <<open, conns, records>>
    BY <1>1, <1>3 DEF MintAgent, AccessTyped
  <2>2. CASE mints[t] \notin open
    BY <1>1, <1>3, <2>1, <2>2, SameRowsStep DEF MintAgent, AccessTyped
  <2>3. CASE mints[t] \in open
    <3>1. PICK a : a = NewAgent(mints[t], keys + 1, p)
      OBVIOUS
    <3>2. a \in Agent /\ a.workspace = mints[t] /\ keys + 1 \in Nat
      BY <1>1, <2>1, <3>1 DEF NewAgent, Agent, AccessTyped
    <3>3. agents' = Append(agents, a) /\ keys' = keys + 1
      BY <1>3, <2>3, <3>1 DEF MintAgent
    <3>4. QED
      BY <2>1, <2>3, <3>2, <3>3, MoreStep
  <2>4. QED
    BY <2>2, <2>3
<1>4. QED
  BY <1>2, <1>3

\* The owner writes, as the writer there is or one that is made.
LEMMA OwnerWritesStep ==
  ASSUME GInv, NEW w \in Workspaces, OwnerWrites(w)
  PROVE  GInv'
<1>1. AccessTyped /\ RowsHang
  BY DEF GInv
<1>2. w \in open /\ UNCHANGED <<open, keys, mints, conns>>
  BY DEF OwnerWrites
<1>3. ASSUME NEW a \in Console(w), records' = records \cup {<<w, a>>}, UNCHANGED agents
      PROVE  GInv'
  <2>1. a \in AgentIds /\ agents[a].onFile /\ agents[a].workspace = w
    BY DEF Console, Agents
  <2>2. \A r \in records' : \/ r \in records
                            \/ /\ r[1] \in open /\ r[2] \in AgentIds
                               /\ agents[r[2]].onFile /\ agents[r[2]].workspace = r[1]
    <3>1. TAKE r \in records'
    <3>2. CASE r = <<w, a>>
      <4>1. r[1] = w /\ r[2] = a
        BY <3>2
      <4>2. QED
        BY <1>2, <2>1, <4>1
    <3>3. QED
      BY <1>3, <3>2
  <2>3. QED
    BY <1>1, <1>2, <1>3, <2>2, SameRowsStep DEF AccessTyped
<1>4. ASSUME agents' = Append(agents, NewAgent(w, 0, Operations)),
             records' = records \cup {<<w, Len(agents) + 1>>}
      PROVE  GInv'
  <2>1. PICK a : a = NewAgent(w, 0, Operations)
    OBVIOUS
  <2>2. a \in Agent /\ a.workspace = w /\ a.onFile
    BY <2>1 DEF NewAgent, Agent
  <2>3. QED
    BY <1>1, <1>2, <1>4, <2>1, <2>2, MoreStep DEF AccessTyped
<1>5. QED
  BY <1>3, <1>4 DEF OwnerWrites

\* A row keeps its workspace and stays on file, and is revoked or given a key.
LEMMA RowStep ==
  ASSUME GInv, NEW i \in AgentIds, NEW a \in Agent, agents' = [agents EXCEPT ![i] = a],
         a.onFile = agents[i].onFile, a.workspace = agents[i].workspace, keys' \in Nat,
         \/ a.revoked \/ a.revoked = agents[i].revoked
         \/ \A k \in Connections : conns'[k] # None /\ conns'[k].agent = i => ~conns'[k].cut,
         conns' \in [Connections -> {None} \cup Connection],
         \A k \in Connections :
           \/ conns'[k] = conns[k]
           \/ conns[k] # None /\ conns'[k] = [conns[k] EXCEPT !.cut = FALSE],
         UNCHANGED <<open, mints, records>>
  PROVE  GInv'
<1>1. AccessTyped /\ RowsHang /\ ConnsHang
  BY DEF GInv
<1>2. /\ agents' \in Seq(Agent) /\ AgentIds' = AgentIds /\ agents'[i] = a
      /\ \A j \in AgentIds : j # i => agents'[j] = agents[j]
  BY <1>1, OneAgentChanged DEF AccessTyped
<1>3. AccessTyped' /\ RowsHang'
  BY <1>1, <1>2 DEF AccessTyped, RowsHang
<1>4. ConnsHang'
  <2>1. SUFFICES ASSUME NEW k \in Connections, conns'[k] # None
        PROVE  /\ conns'[k].agent \in AgentIds
               /\ conns'[k].workspace = agents'[conns'[k].agent].workspace
               /\ conns'[k].at # "idle" => /\ conns'[k].asks \in Workspaces \X Operations
                                           /\ conns'[k].asks[1] = conns'[k].workspace
               /\ conns'[k].cut => agents'[conns'[k].agent].revoked /\ conns'[k].at # "allowed"
    BY <1>2 DEF ConnsHang
  <2>2. conns[k] # None /\ conns[k] \in Connection
    BY <1>1, <2>1 DEF AccessTyped
  <2>3. /\ conns'[k].agent = conns[k].agent /\ conns'[k].workspace = conns[k].workspace
        /\ conns'[k].at = conns[k].at /\ conns'[k].asks = conns[k].asks
        /\ conns'[k].cut => conns[k].cut
    BY <2>2 DEF Connection
  <2>4. /\ conns[k].agent \in AgentIds
        /\ conns[k].workspace = agents[conns[k].agent].workspace
        /\ conns[k].at # "idle" => /\ conns[k].asks \in Workspaces \X Operations
                                   /\ conns[k].asks[1] = conns[k].workspace
        /\ conns[k].cut => agents[conns[k].agent].revoked /\ conns[k].at # "allowed"
    BY <1>1, <2>2 DEF ConnsHang
  <2>5. CASE conns[k].agent = i
    BY <1>2, <2>1, <2>3, <2>4, <2>5
  <2>6. CASE conns[k].agent # i
    BY <1>2, <2>3, <2>4, <2>6
  <2>7. QED
    BY <2>5, <2>6
<1>5. QED
  BY <1>3, <1>4 DEF GInv

LEMMA GrantOrRevokeStep ==
  ASSUME GInv, NEW i \in AgentIds,
         RevokeAgent(i) \/ \E p \in SUBSET Operations : SetPermissions(i, p)
  PROVE  GInv'
<1>1. AccessTyped /\ agents[i] \in Agent
  BY AgentOf DEF GInv, AccessTyped
<1>2. CASE RevokeAgent(i)
  <2>1. PICK a : a = [agents[i] EXCEPT !.revoked = TRUE]
    OBVIOUS
  <2>2. a \in Agent /\ a.onFile = agents[i].onFile /\ a.workspace = agents[i].workspace /\ a.revoked
    BY <1>1, <2>1 DEF Agent
  <2>3. agents' = [agents EXCEPT ![i] = a] /\ UNCHANGED <<open, keys, mints, conns, records>>
    BY <1>2, <2>1 DEF RevokeAgent
  <2>4. QED
    BY <1>1, <2>2, <2>3, RowStep DEF AccessTyped
<1>3. ASSUME NEW p \in SUBSET Operations, SetPermissions(i, p)
      PROVE  GInv'
  <2>1. PICK a : a = [agents[i] EXCEPT !.permissions = p]
    OBVIOUS
  <2>2. /\ a \in Agent /\ a.onFile = agents[i].onFile /\ a.workspace = agents[i].workspace
        /\ a.revoked = agents[i].revoked
    BY <1>1, <2>1 DEF Agent
  <2>3. agents' = [agents EXCEPT ![i] = a] /\ UNCHANGED <<open, keys, mints, conns, records>>
    BY <1>3, <2>1 DEF SetPermissions
  <2>4. QED
    BY <1>1, <2>2, <2>3, RowStep DEF AccessTyped
<1>4. QED
  BY <1>2, <1>3

\* A key for a revoked agent lets through what was cut off.
LEMMA RotateStep ==
  ASSUME GInv, NEW i \in AgentIds, RotateAgentKey(i)
  PROVE  GInv'
<1>1. AccessTyped /\ agents[i] \in Agent
  BY AgentOf DEF GInv, AccessTyped
<1>2. PICK a : a = [agents[i] EXCEPT !.key = keys + 1, !.revoked = FALSE]
  OBVIOUS
<1>3. /\ a \in Agent /\ a.onFile = agents[i].onFile /\ a.workspace = agents[i].workspace
      /\ keys + 1 \in Nat
  <2>1. keys + 1 \in Nat
    BY <1>1 DEF AccessTyped
  <2>2. QED
    BY <1>1, <1>2, <2>1 DEF Agent
<1>4. /\ agents' = [agents EXCEPT ![i] = a] /\ keys' = keys + 1
      /\ conns' = [k \in Connections |->
                     IF conns[k] # None /\ conns[k].agent = i THEN [conns[k] EXCEPT !.cut = FALSE]
                     ELSE conns[k]]
      /\ UNCHANGED <<open, mints, records>>
  BY <1>2 DEF RotateAgentKey
<1>5. \A k \in Connections :
        /\ conns'[k] \in {None} \cup Connection
        /\ \/ conns'[k] = conns[k]
           \/ conns[k] # None /\ conns'[k] = [conns[k] EXCEPT !.cut = FALSE]
        /\ conns'[k] # None /\ conns'[k].agent = i => ~conns'[k].cut
  <2>1. SUFFICES ASSUME NEW k \in Connections
        PROVE  /\ conns'[k] \in {None} \cup Connection
               /\ \/ conns'[k] = conns[k]
                  \/ conns[k] # None /\ conns'[k] = [conns[k] EXCEPT !.cut = FALSE]
               /\ conns'[k] # None /\ conns'[k].agent = i => ~conns'[k].cut
    OBVIOUS
  <2>2. CASE conns[k] # None /\ conns[k].agent = i
    <3>1. conns[k] \in Connection
      BY <1>1, <2>2 DEF AccessTyped
    <3>2. conns'[k] = [conns[k] EXCEPT !.cut = FALSE]
      BY <1>4, <2>2
    <3>3. conns'[k] \in Connection /\ ~conns'[k].cut
      BY <3>1, <3>2 DEF Connection
    <3>4. QED
      BY <2>2, <3>2, <3>3
  <2>3. CASE ~(conns[k] # None /\ conns[k].agent = i)
    BY <1>1, <1>4, <2>3 DEF AccessTyped
  <2>4. QED
    BY <2>2, <2>3
<1>6. conns' \in [Connections -> {None} \cup Connection]
  BY <1>4, <1>5
<1>7. QED
  BY <1>3, <1>4, <1>5, <1>6, RowStep

\* What hangs on a workspace goes with it.
LEMMA DeleteStep ==
  ASSUME GInv, NEW w \in Workspaces, DeleteWorkspace(w)
  PROVE  GInv'
<1>1. AccessTyped /\ RowsHang /\ ConnsHang
  BY DEF GInv
<1>2. /\ open' = open \ {w} /\ records' = {r \in records : r[1] # w}
      /\ agents' = [a \in AgentIds |-> [agents[a] EXCEPT !.onFile = @ /\ agents[a].workspace # w]]
      /\ UNCHANGED <<keys, mints, conns>>
  BY DEF DeleteWorkspace
<1>3. \A a \in AgentIds :
        /\ agents'[a] \in Agent /\ agents'[a].workspace = agents[a].workspace
        /\ agents'[a].revoked = agents[a].revoked
        /\ agents'[a].onFile <=> (agents[a].onFile /\ agents[a].workspace # w)
  <2>1. SUFFICES ASSUME NEW a \in AgentIds
        PROVE  /\ agents'[a] \in Agent /\ agents'[a].workspace = agents[a].workspace
               /\ agents'[a].revoked = agents[a].revoked
               /\ agents'[a].onFile <=> (agents[a].onFile /\ agents[a].workspace # w)
    OBVIOUS
  <2>2. agents[a] \in Agent
    BY <1>1, AgentOf DEF AccessTyped
  <2>3. agents'[a] = [agents[a] EXCEPT !.onFile = @ /\ agents[a].workspace # w]
    BY <1>2
  <2>4. PICK stays \in BOOLEAN : stays <=> (agents[a].onFile /\ agents[a].workspace # w)
    OBVIOUS
  <2>5. QED
    BY <2>2, <2>3 DEF Agent
<1>4. agents' \in Seq(Agent) /\ AgentIds' = AgentIds
  <2>1. Len(agents) \in Nat
    BY <1>1, LenProperties DEF AccessTyped
  <2>2. agents' \in [1..Len(agents) -> Agent]
    BY <1>2, <1>3 DEF AgentIds
  <2>3. QED
    BY <2>1, <2>2, SeqDef, LenProperties DEF AgentIds
<1>5. AccessTyped' /\ RowsHang' /\ ConnsHang'
  <2>1. AccessTyped'
    BY <1>1, <1>2, <1>4 DEF AccessTyped
  <2>2. RowsHang'
    <3>1. \A a \in AgentIds : agents'[a].onFile => agents'[a].workspace \in open'
      BY <1>1, <1>2, <1>3 DEF RowsHang
    <3>2. ASSUME NEW r \in records'
          PROVE  /\ r[1] \in open' /\ r[2] \in AgentIds
                 /\ agents'[r[2]].onFile /\ agents'[r[2]].workspace = r[1]
      <4>1. /\ r[1] # w /\ r[1] \in open /\ r[2] \in AgentIds
            /\ agents[r[2]].onFile /\ agents[r[2]].workspace = r[1]
        BY <1>1, <1>2, <3>2 DEF RowsHang
      <4>2. QED
        BY <1>2, <1>3, <4>1
    <3>3. QED
      BY <1>4, <3>1, <3>2 DEF RowsHang
  <2>3. ConnsHang'
    BY <1>1, <1>2, <1>3, <1>4 DEF ConnsHang
  <2>4. QED
    BY <2>1, <2>2, <2>3
<1>6. QED
  BY <1>5 DEF GInv

\* A connection moves on, and with it at most a record of its agent's.
LEMMA ConnectionStep ==
  ASSUME GInv, NEW k \in Connections, NEW next \in {None} \cup Connection,
         conns' = [conns EXCEPT ![k] = next],
         next # None =>
           /\ next.agent \in AgentIds
           /\ next.workspace = agents[next.agent].workspace
           /\ next.at # "idle" => /\ next.asks \in Workspaces \X Operations
                                  /\ next.asks[1] = next.workspace
           /\ next.cut => agents[next.agent].revoked /\ next.at # "allowed",
         \A r \in records' : \/ r \in records
                             \/ /\ r[1] \in open /\ r[2] \in AgentIds
                                /\ agents[r[2]].onFile /\ agents[r[2]].workspace = r[1],
         UNCHANGED <<open, agents, keys, mints>>
  PROVE  GInv'
<1>1. AccessTyped /\ RowsHang /\ ConnsHang
  BY DEF GInv
<1>2. conns'[k] = next /\ \A j \in Connections : j # k => conns'[j] = conns[j]
  BY <1>1 DEF AccessTyped
<1>3. AccessTyped' /\ RowsHang'
  BY <1>1 DEF AccessTyped, RowsHang, AgentIds
<1>4. ConnsHang'
  BY <1>1, <1>2 DEF ConnsHang, AgentIds
<1>5. QED
  BY <1>3, <1>4 DEF GInv

\* What is known of a connection.
LEMMA ConnectionOf ==
  ASSUME GInv, NEW k \in Connections, conns[k] # None
  PROVE  /\ conns[k] \in Connection /\ conns[k].agent \in AgentIds
         /\ conns[k].workspace = agents[conns[k].agent].workspace
         /\ conns[k].at # "idle" => /\ conns[k].asks \in Workspaces \X Operations
                                    /\ conns[k].asks[1] = conns[k].workspace
         /\ conns[k].cut => agents[conns[k].agent].revoked /\ conns[k].at # "allowed"
  BY DEF GInv, AccessTyped, ConnsHang

LEMMA ConnectStep ==
  ASSUME GInv, NEW k \in Connections, NEW key \in 1..keys, Connect(k, key)
  PROVE  GInv'
<1>1. AccessTyped
  BY DEF GInv
<1>2. PICK a \in AgentIds :
        conns' = [conns EXCEPT ![k] = [agent |-> a, workspace |-> agents[a].workspace,
                                       permissions |-> agents[a].permissions, key |-> key,
                                       at |-> "idle", asks |-> None, cut |-> FALSE]]
  BY DEF Connect
<1>3. agents[a] \in Agent
  BY <1>1, AgentOf DEF AccessTyped
<1>4. PICK next : next = [agent |-> a, workspace |-> agents[a].workspace,
                          permissions |-> agents[a].permissions, key |-> key,
                          at |-> "idle", asks |-> None, cut |-> FALSE]
  OBVIOUS
<1>5. a \in Nat /\ key \in Nat
  BY <1>1, LenProperties DEF AccessTyped, AgentIds
<1>6. /\ next \in Connection /\ next.agent = a /\ next.workspace = agents[a].workspace
      /\ next.at = "idle" /\ ~next.cut
  BY <1>3, <1>4, <1>5 DEF Connection, Agent
<1>7. conns' = [conns EXCEPT ![k] = next] /\ UNCHANGED <<open, agents, keys, mints, records>>
  BY <1>2, <1>4 DEF Connect
<1>8. QED
  BY <1>6, <1>7, ConnectionStep

LEMMA CloseStep ==
  ASSUME GInv, NEW k \in Connections, Close(k)
  PROVE  GInv'
<1>1. conns' = [conns EXCEPT ![k] = None] /\ UNCHANGED <<open, agents, keys, mints, records>>
  BY DEF Close
<1>2. QED
  BY <1>1, ConnectionStep

\* What is asked for is asked of the connection's own workspace.
LEMMA FindWorkspaceStep ==
  ASSUME GInv, NEW k \in Connections, NEW w \in Workspaces, NEW o \in Operations,
         FindWorkspace(k, w, o)
  PROVE  GInv'
<1>1. /\ conns[k] # None /\ conns[k] \in Connection /\ conns[k].agent \in AgentIds
      /\ conns[k].workspace = agents[conns[k].agent].workspace
  BY ConnectionOf DEF FindWorkspace, Asking
<1>2. agents[conns[k].agent].revoked \in BOOLEAN
  BY <1>1, AgentOf DEF GInv, AccessTyped, Agent
<1>3. PICK next : next = [conns[k] EXCEPT !.at = "entered", !.asks = <<w, o>>,
                                          !.cut = agents[conns[k].agent].revoked]
  OBVIOUS
<1>4. /\ next \in Connection /\ next.agent = conns[k].agent /\ next.workspace = conns[k].workspace
      /\ next.at = "entered" /\ next.asks = <<w, o>> /\ next.cut = agents[conns[k].agent].revoked
  BY <1>1, <1>2, <1>3 DEF Connection
<1>5. /\ conns' = [conns EXCEPT ![k] = next] /\ w = conns[k].workspace
      /\ UNCHANGED <<open, agents, keys, mints, records>>
  BY <1>3 DEF FindWorkspace, MayEnter
<1>6. next.asks \in Workspaces \X Operations /\ next.asks[1] = next.workspace
  BY <1>4, <1>5
<1>7. QED
  BY <1>1, <1>4, <1>5, <1>6, ConnectionStep

\* Who was revoked when it asked is not let through.
LEMMA CheckAgentStep ==
  ASSUME GInv, NEW k \in Connections, CheckAgent(k)
  PROVE  GInv'
<1>1. /\ conns[k] # None /\ conns[k].at = "entered" /\ UNCHANGED <<open, agents, keys, mints, records>>
      /\ conns[k] \in Connection /\ conns[k].agent \in AgentIds
      /\ conns[k].workspace = agents[conns[k].agent].workspace
      /\ conns[k].asks \in Workspaces \X Operations /\ conns[k].asks[1] = conns[k].workspace
      /\ conns[k].cut => agents[conns[k].agent].revoked
  BY ConnectionOf DEF CheckAgent, Asking
<1>2. CASE Stands(k) /\ Permitted(k)
  <2>1. PICK next : next = [conns[k] EXCEPT !.at = "allowed"]
    OBVIOUS
  <2>2. /\ next \in Connection /\ next.agent = conns[k].agent /\ next.workspace = conns[k].workspace
        /\ next.asks = conns[k].asks /\ next.cut = conns[k].cut /\ next.at = "allowed"
    BY <1>1, <2>1 DEF Connection
  <2>3. ~next.cut
    BY <1>1, <1>2, <2>2 DEF Stands
  <2>4. conns' = [conns EXCEPT ![k] = next]
    BY <1>2, <2>1 DEF CheckAgent
  <2>5. QED
    BY <1>1, <2>2, <2>3, <2>4, ConnectionStep
<1>3. CASE ~(Stands(k) /\ Permitted(k))
  <2>1. PICK next : next = [conns[k] EXCEPT !.at = "idle", !.asks = None, !.cut = FALSE]
    OBVIOUS
  <2>2. /\ next \in Connection /\ next.agent = conns[k].agent /\ next.workspace = conns[k].workspace
        /\ ~next.cut /\ next.at = "idle"
    BY <1>1, <2>1 DEF Connection
  <2>3. conns' = [conns EXCEPT ![k] = next]
    BY <1>3, <2>1 DEF CheckAgent, Idles
  <2>4. QED
    BY <1>1, <2>2, <2>3, ConnectionStep
<1>4. QED
  BY <1>2, <1>3

\* A record is left in the workspace of its author.
LEMMA ActStep ==
  ASSUME GInv, NEW k \in Connections, Act(k)
  PROVE  GInv'
<1>1. /\ conns[k] # None /\ conns[k].at = "allowed" /\ UNCHANGED <<open, agents, keys, mints>>
      /\ conns[k] \in Connection /\ conns[k].agent \in AgentIds
      /\ conns[k].workspace = agents[conns[k].agent].workspace
      /\ conns[k].asks[1] = conns[k].workspace
  BY ConnectionOf DEF Act, Asking
<1>2. PICK next : next = [conns[k] EXCEPT !.at = "idle", !.asks = None, !.cut = FALSE]
  OBVIOUS
<1>3. /\ next \in Connection /\ next.agent = conns[k].agent /\ next.workspace = conns[k].workspace
      /\ ~next.cut /\ next.at = "idle"
  BY <1>1, <1>2 DEF Connection
<1>4. conns' = [conns EXCEPT ![k] = next]
  BY <1>2 DEF Act, Idles
<1>5. \A r \in records' : \/ r \in records
                          \/ /\ r[1] \in open /\ r[2] \in AgentIds
                             /\ agents[r[2]].onFile /\ agents[r[2]].workspace = r[1]
  <2>1. PICK w, a : w = conns[k].asks[1] /\ a = conns[k].agent
    OBVIOUS
  <2>2. \/ records' = records
        \/ w \in open /\ agents[a].onFile /\ records' = records \cup {<<w, a>>}
    BY <2>1 DEF Act
  <2>3. TAKE r \in records'
  <2>4. CASE r = <<w, a>> /\ w \in open /\ agents[a].onFile
    <3>1. r[1] = w /\ r[2] = a
      BY <2>4
    <3>2. QED
      BY <1>1, <2>1, <2>4, <3>1
  <2>5. QED
    BY <2>2, <2>4
<1>6. QED
  BY <1>1, <1>3, <1>4, <1>5, ConnectionStep

\* The process dies, and its connections with it.
LEMMA AccessLostStep ==
  ASSUME GInv, AccessLost
  PROVE  GInv'
  BY DEF GInv, AccessLost, AccessTyped, RowsHang, ConnsHang, AgentIds

\* The invariant is inductive.
LEMMA StepAccess == GInv /\ [Next]_vars => GInv'
<1> SUFFICES ASSUME GInv, [Next]_vars PROVE GInv'
  OBVIOUS
<1>1. CASE OwnerNext
  <2>1. SubagentDefaults \in SUBSET Operations /\ Operations \in SUBSET Operations
    BY AccessAssumption
  <2>2. ASSUME NEW t \in Tabs, NEW p \in {SubagentDefaults, Operations}, MintAgent(t, p)
        PROVE  GInv'
    BY <2>1, <2>2, MintStep
  <2>3. ASSUME NEW a \in AgentIds, NEW p \in SUBSET Operations, SetPermissions(a, p)
        PROVE  GInv'
    BY <2>3, GrantOrRevokeStep
  <2>4. QED
    BY <1>1, <2>2, <2>3, MintStep, OwnerWritesStep, DeleteStep, GrantOrRevokeStep, RotateStep
       DEF OwnerNext
<1>2. CASE AgentNext
  BY <1>2, ConnectStep, CloseStep, FindWorkspaceStep, CheckAgentStep, ActStep DEF AgentNext
<1>3. CASE Restart
  BY <1>3, AccessLostStep DEF Restart
<1>4. CASE UNCHANGED accessVars
  BY <1>4 DEF accessVars, GInv, AccessTyped, RowsHang, ConnsHang, AgentIds
<1>5. QED
  BY <1>1, <1>2, <1>3, <1>4 DEF Next, AccessNext, Tick, vars

(***************************************************************************)
(* An operation asked for after its agent was revoked does not get through *)
(* the gate, unless the agent was given a key again (authorize).           *)
(***************************************************************************)
THEOREM TheRevokedGetNowhere == Spec => []RevokedGetNowhere
<1>1. GInv => RevokedGetNowhere
  BY DEF GInv, ConnsHang, RevokedGetNowhere, Asking
<1>2. QED
  BY <1>1, InitAccess, StepAccess, PTL DEF Spec

(***************************************************************************)
(* A record's author is an agent of its workspace that is still on file,   *)
(* through revocations, new keys and deleted workspaces (revokeAgent,      *)
(* deleteWorkspace, resolveWriterAgentId).                                 *)
(***************************************************************************)
THEOREM AuthorsAreKept == Spec => []AuthorsStay
<1>1. GInv => AuthorsStay
  BY DEF GInv, RowsHang, AuthorsStay
<1>2. QED
  BY <1>1, InitAccess, StepAccess, PTL DEF Spec

-----------------------------------------------------------------------------
(***************************************************************************)
(* Bootstrap: a store opens whole, or says why: for any number of processes *)
(* that open it, any columns an older one lacks, and any number of crashes. *)
(***************************************************************************)

Store == [tables : {"none", "foreign", "older", "whole"}, columns : SUBSET AllColumns,
          strict : BOOLEAN, stamped : BOOLEAN]
Opening ==
  [at : {"closed", "stamp", "look", "attempt", "strict", "columns", "alter", "create", "creating",
         "ready", "failed"},
   present : {"none", "foreign", "older", "whole"}, attempt : 0..MaxAttempts,
   todo : Seq(AllColumns),
   why : {None, "foreign", "older", "busy", "duplicate column", "no such column"}]

\* Who looked found tables of this application, and they stay.
Looked == {"attempt", "strict", "columns", "alter", "create", "creating"}
StillThere(f, present) ==
  /\ present # "foreign"
  /\ present = "none" => f.tables \in {"none", "whole"}
  /\ present = "older" => f.tables \in {"older", "whole"}
  /\ present = "whole" => f.tables = "whole"

\* What a process has not come to yet is all that is missing.
Reached(f, todo) ==
  \A x \in AllColumns : x \in f.columns \/ \E i \in 1..Len(todo) : todo[i] = x

\* Who can disturb a process is another.
Several == Cardinality(Processes) > 1

\* What a process knows of the store is true.
FitsFile(o, h, a, f) ==
  /\ o.at = "ready" \/ a = "answered" => f.tables = "whole"
  /\ h = "transaction" => o.at = "ready"
  /\ o.at \in Looked => StillThere(f, o.present)
  /\ o.at \in {"columns", "alter", "create", "creating"} => ~f.strict
  /\ o.at \in {"columns", "alter"} /\ o.present # "none" => Reached(f, o.todo)
  /\ o.at \in {"create", "creating"} /\ o.present # "none" => f.columns = AllColumns
  /\ o.at = "alter" => o.todo # <<>> /\ (Head(o.todo) \notin f.columns \/ Several)
  /\ o.at = "attempt" => o.attempt < MaxAttempts
  /\ o.at \in {"closed", "stamp", "look"} => o.attempt = 0
  /\ o.at = "failed" =>
       \/ o.why = "foreign" /\ f.tables = "foreign"
       \/ o.why = "older" /\ f.strict
       \/ o.why = "busy" /\ o.attempt = MaxAttempts
       \/ o.why = "duplicate column" /\ Several

\* Who writes is who is creating, and its connection does nothing else.
Writes(p, o, h, w) == /\ h = "bootstrap" <=> w = p
                      /\ o.at = "creating" <=> w = p

\* What has a value of which kind, and what a whole store is.
BTyped ==
  /\ file \in Store
  /\ writer \in Processes \cup {None}
  /\ opening \in [Processes -> Opening]
  /\ holds \in [Processes -> {None, "bootstrap", "transaction"}]
  /\ asked \in [Processes -> {None, "query", "transaction", "begun", "answered"}]

StoreStands ==
  /\ file.tables = "whole" => file.columns = AllColumns
  /\ file.stamped => file.tables = "whole"
  /\ file.strict => file.tables = "older"

\* The inductive invariant.
BInv ==
  /\ BTyped /\ StoreStands
  /\ \A p \in Processes : /\ FitsFile(opening[p], holds[p], asked[p], file)
                           /\ Writes(p, opening[p], holds[p], writer)

\* Two processes are several.
LEMMA TwoAreSeveral ==
  ASSUME NEW p \in Processes, NEW q \in Processes, p # q
  PROVE  Several
<1>1. IsFiniteSet({p}) /\ Cardinality({p}) = 1
  BY FS_Singleton
<1>2. Cardinality({p} \cup {q}) = 2
  BY <1>1, FS_AddElement
<1>3. {p} \cup {q} \subseteq Processes
  OBVIOUS
<1>4. Cardinality({p} \cup {q}) <= Cardinality(Processes) /\ Cardinality(Processes) \in Nat
  BY <1>3, FS_Subset, FS_CardinalityType, BootstrapAssumption
<1>5. QED
  BY <1>2, <1>4 DEF Several

\* The columns in order are columns.
LEMMA ColumnsInOrder == Columns \in Seq(AllColumns) /\ \A f \in Store : Reached(f, Columns)
<1>1. DOMAIN Columns = 1..Len(Columns) /\ Len(Columns) \in Nat
  BY BootstrapAssumption, LenProperties
<1>2. \A i \in 1..Len(Columns) : Columns[i] \in AllColumns
  BY <1>1 DEF AllColumns
<1>3. Columns \in [1..Len(Columns) -> AllColumns]
  BY <1>1, <1>2, BootstrapAssumption, LenProperties
<1>4. Columns \in Seq(AllColumns)
  BY <1>1, <1>3, SeqDef
<1>5. QED
  BY <1>1, <1>4 DEF Reached, AllColumns

\* Every store there may be at first, closed to everybody.
LEMMA InitBootstrap == Init => BInv
<1> SUFFICES ASSUME Init PROVE BInv
  OBVIOUS
<1>1. /\ file \in Stores /\ writer = None
      /\ opening = [p \in Processes |-> Closed]
      /\ holds = [p \in Processes |-> None]
      /\ asked = [p \in Processes |-> None]
  <2>1. New \in Stores
    BY DEF Stores
  <2>2. QED
    BY <2>1 DEF Init, BootstrapInit
<1>2. file \in Store /\ StoreStands
  <2>1. CASE file \in {New, File("foreign", {}, FALSE, FALSE), File("whole", AllColumns, FALSE, FALSE)}
    <3>1. {} \in SUBSET AllColumns /\ AllColumns \in SUBSET AllColumns
      OBVIOUS
    <3>2. CASE file = New
      BY <3>1, <3>2 DEF New, File, Store, StoreStands
    <3>3. CASE file = File("foreign", {}, FALSE, FALSE)
      BY <3>1, <3>3 DEF File, Store, StoreStands
    <3>4. CASE file = File("whole", AllColumns, FALSE, FALSE)
      BY <3>1, <3>4 DEF File, Store, StoreStands
    <3>5. QED
      BY <2>1, <3>2, <3>3, <3>4
  <2>2. CASE file \in [tables : {"older"}, columns : SUBSET AllColumns, strict : BOOLEAN,
                       stamped : {FALSE}]
    BY <2>2 DEF Store, StoreStands
  <2>3. QED
    BY <1>1, <2>1, <2>2 DEF Stores
<1>3. Closed \in Opening /\ Closed.at = "closed" /\ Closed.attempt = 0
  BY BootstrapAssumption, EmptySeq DEF Closed, Opening
<1>4. BTyped
  BY <1>1, <1>2, <1>3 DEF BTyped
<1>5. ASSUME NEW p \in Processes
      PROVE  /\ FitsFile(opening[p], holds[p], asked[p], file)
             /\ Writes(p, opening[p], holds[p], writer)
  BY <1>1, <1>3, BootstrapAssumption DEF FitsFile, Writes, Looked
<1>6. QED
  BY <1>2, <1>4, <1>5 DEF BInv

\* One process moves, and the store stays as it is.
LEMMA OneMoves ==
  ASSUME BInv, NEW p \in Processes, BTyped', file' = file,
         FitsFile(opening'[p], holds'[p], asked'[p], file),
         Writes(p, opening'[p], holds'[p], writer'),
         \A q \in Processes : q # p =>
           /\ opening'[q] = opening[q] /\ holds'[q] = holds[q] /\ asked'[q] = asked[q]
           /\ writer' = q <=> writer = q
  PROVE  BInv'
<1>1. StoreStands'
  BY DEF BInv, StoreStands, AllColumns
<1>2. ASSUME NEW q \in Processes
      PROVE  /\ FitsFile(opening'[q], holds'[q], asked'[q], file')
             /\ Writes(q, opening'[q], holds'[q], writer')
  <2>1. CASE q = p
    BY <2>1
  <2>2. CASE q # p
    <3>1. FitsFile(opening[q], holds[q], asked[q], file) /\ Writes(q, opening[q], holds[q], writer)
      BY DEF BInv
    <3>2. QED
      BY <2>2, <3>1 DEF Writes
  <2>3. QED
    BY <2>1, <2>2
<1>3. QED
  BY <1>1, <1>2 DEF BInv

\* What is known of a process.
LEMMA ProcessOf ==
  ASSUME BInv, NEW p \in Processes
  PROVE  /\ opening[p] \in Opening /\ holds[p] \in {None, "bootstrap", "transaction"}
         /\ asked[p] \in {None, "query", "transaction", "begun", "answered"}
         /\ FitsFile(opening[p], holds[p], asked[p], file)
         /\ Writes(p, opening[p], holds[p], writer)
         /\ file \in Store /\ StoreStands /\ writer \in Processes \cup {None}
  BY DEF BInv, BTyped

\* A process comes a step further, and nothing else changes.
LEMMA Further ==
  ASSUME BInv, NEW p \in Processes, NEW o \in Opening,
         opening' = [opening EXCEPT ![p] = o],
         FitsFile(o, holds[p], asked[p], file), o.at = "creating" <=> opening[p].at = "creating",
         UNCHANGED <<file, writer, holds, asked>>
  PROVE  BInv'
<1>1. /\ opening'[p] = o /\ \A q \in Processes : q # p => opening'[q] = opening[q]
      /\ opening' \in [Processes -> Opening]
  BY DEF BInv, BTyped
<1>2. BTyped'
  BY <1>1 DEF BInv, BTyped, Store, AllColumns
<1>3. Writes(p, o, holds[p], writer)
  BY ProcessOf DEF Writes
<1>4. QED
  BY <1>1, <1>2, <1>3, OneMoves

LEMMA OpenStep ==
  ASSUME BInv, NEW p \in Processes, Open(p)
  PROVE  BInv'
<1>1. PICK o : o = [opening[p] EXCEPT !.at = "stamp"]
  OBVIOUS
<1>2. /\ o \in Opening /\ o.at = "stamp" /\ o.attempt = opening[p].attempt
  BY <1>1, ProcessOf DEF Opening
<1>3. FitsFile(o, holds[p], asked[p], file)
  BY <1>2, ProcessOf DEF FitsFile, Open, Looked
<1>4. opening' = [opening EXCEPT ![p] = o] /\ UNCHANGED <<file, writer, holds, asked>>
  BY <1>1 DEF Open, Steps
<1>5. QED
  BY <1>2, <1>3, <1>4, Further DEF Open

LEMMA ReadStampStep ==
  ASSUME BInv, NEW p \in Processes, ReadStamp(p)
  PROVE  BInv'
<1>1. PICK o : o = [opening[p] EXCEPT !.at = IF file.stamped THEN "ready" ELSE "look"]
  OBVIOUS
<1>2. /\ o \in Opening /\ o.attempt = opening[p].attempt
      /\ o.at = IF file.stamped THEN "ready" ELSE "look"
  BY <1>1, ProcessOf DEF Opening
<1>3. FitsFile(o, holds[p], asked[p], file)
  BY <1>2, ProcessOf DEF FitsFile, ReadStamp, Looked, StoreStands
<1>4. opening' = [opening EXCEPT ![p] = o] /\ UNCHANGED <<file, writer, holds, asked>>
  BY <1>1 DEF ReadStamp, Steps
<1>5. QED
  BY <1>2, <1>3, <1>4, Further DEF ReadStamp

LEMMA LookStep ==
  ASSUME BInv, NEW p \in Processes, LookAtTables(p)
  PROVE  BInv'
<1>1. PICK o : o = IF file.tables = "foreign"
                   THEN [opening[p] EXCEPT !.at = "failed", !.why = "foreign"]
                   ELSE [opening[p] EXCEPT !.at = "attempt", !.present = file.tables]
  OBVIOUS
<1>2. /\ o \in Opening /\ o.attempt = opening[p].attempt
      /\ \/ file.tables = "foreign" /\ o.at = "failed" /\ o.why = "foreign"
         \/ file.tables # "foreign" /\ o.at = "attempt" /\ o.present = file.tables
  <2>1. opening[p] \in Opening /\ file.tables \in {"none", "foreign", "older", "whole"}
    BY ProcessOf DEF Store
  <2>2. CASE file.tables = "foreign"
    BY <1>1, <2>1, <2>2 DEF Opening
  <2>3. CASE file.tables # "foreign"
    BY <1>1, <2>1, <2>3 DEF Opening
  <2>4. QED
    BY <2>2, <2>3
<1>3. opening[p].attempt < MaxAttempts /\ opening[p].at = "look"
  <2>1. opening[p].attempt = 0 /\ opening[p].at = "look"
    BY ProcessOf DEF FitsFile, LookAtTables
  <2>2. QED
    BY <2>1, BootstrapAssumption
<1>4. FitsFile(o, holds[p], asked[p], file)
  BY <1>2, <1>3, ProcessOf DEF FitsFile, Looked, StillThere
<1>5. opening' = [opening EXCEPT ![p] = o] /\ UNCHANGED <<file, writer, holds, asked>>
  BY <1>1 DEF LookAtTables, Throws
<1>6. QED
  BY <1>2, <1>3, <1>4, <1>5, Further

LEMMA AttemptStep ==
  ASSUME BInv, NEW p \in Processes, Attempt(p)
  PROVE  BInv'
<1>1. PICK o : o = [opening[p] EXCEPT !.at = IF file.stamped THEN "ready" ELSE "strict",
                                      !.attempt = @ + 1]
  OBVIOUS
<1>2. opening[p].at = "attempt" /\ opening[p].attempt + 1 \in 0..MaxAttempts
  <2>1. opening[p].attempt \in 0..MaxAttempts /\ MaxAttempts \in Nat
    BY ProcessOf, BootstrapAssumption DEF Opening
  <2>2. opening[p].at = "attempt" /\ opening[p].attempt < MaxAttempts
    BY ProcessOf DEF FitsFile, Attempt
  <2>3. QED
    BY <2>1, <2>2
<1>3. /\ o \in Opening /\ o.present = opening[p].present
      /\ o.at = IF file.stamped THEN "ready" ELSE "strict"
  BY <1>1, <1>2, ProcessOf DEF Opening
<1>4. FitsFile(o, holds[p], asked[p], file)
  BY <1>2, <1>3, ProcessOf DEF FitsFile, Looked, StoreStands
<1>5. opening' = [opening EXCEPT ![p] = o] /\ UNCHANGED <<file, writer, holds, asked>>
  BY <1>1 DEF Attempt
<1>6. QED
  BY <1>2, <1>3, <1>4, <1>5, Further

\* A store that cannot be relaxed stops everybody who saw tables, and who saw
\* none is not at such a store.
LEMMA StrictStep ==
  ASSUME BInv, NEW p \in Processes, CheckStrict(p)
  PROVE  BInv'
<1>1. PICK o : o = IF opening[p].present # "none" /\ file.strict
                   THEN [opening[p] EXCEPT !.at = "failed", !.why = "older"]
                   ELSE [opening[p] EXCEPT !.at = "columns", !.todo = Upgraded(p)]
  OBVIOUS
<1>2. opening[p].at = "strict"
  BY DEF CheckStrict
<1>3. Upgraded(p) \in Seq(AllColumns)
  BY ColumnsInOrder, EmptySeq DEF Upgraded
<1>4. /\ o \in Opening /\ o.present = opening[p].present
      /\ \/ o.at = "failed" /\ o.why = "older" /\ file.strict
         \/ /\ o.at = "columns" /\ o.todo = Upgraded(p)
            /\ ~(opening[p].present # "none" /\ file.strict)
  BY <1>1, <1>3, ProcessOf DEF Opening
<1>5. StillThere(file, opening[p].present)
  BY <1>2, ProcessOf DEF FitsFile, Looked
<1>6. o.at = "columns" => ~file.strict
  BY <1>4, <1>5, ProcessOf DEF StillThere, StoreStands
<1>7. o.at = "columns" /\ o.present # "none" => Reached(file, o.todo)
  BY <1>4, ColumnsInOrder, ProcessOf DEF Upgraded
<1>8. FitsFile(o, holds[p], asked[p], file)
  BY <1>2, <1>4, <1>5, <1>6, <1>7, ProcessOf DEF FitsFile, Looked
<1>9. opening' = [opening EXCEPT ![p] = o] /\ UNCHANGED <<file, writer, holds, asked>>
  BY <1>1 DEF CheckStrict, Throws
<1>10. QED
  BY <1>2, <1>4, <1>8, <1>9, Further

\* One column less to come to.
LEMMA OneLess ==
  ASSUME NEW f \in Store, NEW todo \in Seq(AllColumns), todo # <<>>,
         Reached(f, todo), Head(todo) \in f.columns
  PROVE  Tail(todo) \in Seq(AllColumns) /\ Reached(f, Tail(todo))
<1>1. /\ Tail(todo) \in Seq(AllColumns) /\ Len(Tail(todo)) = Len(todo) - 1
      /\ \A i \in 1..Len(Tail(todo)) : Tail(todo)[i] = todo[i + 1]
      /\ Len(todo) \in Nat /\ Head(todo) = todo[1]
  BY HeadTailProperties, LenProperties
<1>2. ASSUME NEW x \in AllColumns, x \notin f.columns
      PROVE  \E i \in 1..Len(Tail(todo)) : Tail(todo)[i] = x
  <2>1. PICK i \in 1..Len(todo) : todo[i] = x
    BY <1>2 DEF Reached
  <2>2. i # 1
    BY <1>1, <1>2, <2>1
  <2>3. i - 1 \in 1..Len(Tail(todo)) /\ (i - 1) + 1 = i
    BY <1>1, <2>1, <2>2
  <2>4. QED
    BY <1>1, <2>1, <2>3
<1>3. QED
  BY <1>1, <1>2 DEF Reached

LEMMA ColumnStep ==
  ASSUME BInv, NEW p \in Processes, CheckColumn(p)
  PROVE  BInv'
<1>1. PICK todo : todo = opening[p].todo
  OBVIOUS
<1>2. opening[p].at = "columns" /\ opening[p] \in Opening /\ todo \in Seq(AllColumns)
      /\ UNCHANGED <<file, writer, holds, asked>>
  BY <1>1, ProcessOf DEF CheckColumn, Opening
<1>3. /\ StillThere(file, opening[p].present) /\ ~file.strict
      /\ opening[p].present # "none" => Reached(file, todo)
      /\ file \in Store
  BY <1>1, <1>2, ProcessOf DEF FitsFile, Looked
<1>4. CASE todo = <<>>
  <2>1. PICK o : o = [opening[p] EXCEPT !.at = "create"]
    OBVIOUS
  <2>2. o \in Opening /\ o.at = "create" /\ o.present = opening[p].present
    BY <1>2, <2>1 DEF Opening
  <2>3. opening[p].present # "none" => file.columns = AllColumns
    <3>1. Len(todo) = 0
      BY <1>4
    <3>2. opening[p].present # "none" => \A x \in AllColumns : x \in file.columns
      BY <1>3, <3>1 DEF Reached
    <3>3. file.columns \subseteq AllColumns
      BY <1>3 DEF Store
    <3>4. QED
      BY <3>2, <3>3
  <2>4. FitsFile(o, holds[p], asked[p], file)
    BY <1>2, <1>3, <2>2, <2>3, ProcessOf DEF FitsFile, Looked
  <2>5. opening' = [opening EXCEPT ![p] = o]
    BY <1>1, <1>4, <2>1 DEF CheckColumn, Steps
  <2>6. QED
    BY <1>2, <2>2, <2>4, <2>5, Further
<1>5. CASE todo # <<>> /\ Head(todo) \in file.columns
  <2>1. PICK o : o = [opening[p] EXCEPT !.todo = Tail(todo)]
    OBVIOUS
  <2>2. Tail(todo) \in Seq(AllColumns)
    BY <1>2, <1>5, HeadTailProperties
  <2>3. /\ o \in Opening /\ o.at = "columns" /\ o.present = opening[p].present
        /\ o.todo = Tail(todo)
    BY <1>2, <2>1, <2>2 DEF Opening
  <2>4. opening[p].present # "none" => Reached(file, Tail(todo))
    BY <1>2, <1>3, <1>5, OneLess
  <2>5. FitsFile(o, holds[p], asked[p], file)
    BY <1>2, <1>3, <2>3, <2>4, ProcessOf DEF FitsFile, Looked
  <2>6. opening' = [opening EXCEPT ![p] = o]
    BY <1>1, <1>5, <2>1 DEF CheckColumn
  <2>7. QED
    BY <1>2, <2>3, <2>5, <2>6, Further
<1>6. CASE todo # <<>> /\ Head(todo) \notin file.columns
  <2>1. PICK o : o = [opening[p] EXCEPT !.at = "alter"]
    OBVIOUS
  <2>2. o \in Opening /\ o.at = "alter" /\ o.present = opening[p].present /\ o.todo = todo
    BY <1>1, <1>2, <2>1 DEF Opening
  <2>3. FitsFile(o, holds[p], asked[p], file)
    BY <1>2, <1>3, <1>6, <2>2, ProcessOf DEF FitsFile, Looked
  <2>4. opening' = [opening EXCEPT ![p] = o]
    BY <1>1, <1>6, <2>1 DEF CheckColumn, Steps
  <2>5. QED
    BY <1>2, <2>2, <2>3, <2>4, Further
<1>7. QED
  BY <1>4, <1>5, <1>6

\* A column is added, or somebody else has added it.
LEMMA AlterStep ==
  ASSUME BInv, NEW p \in Processes, AlterTable(p)
  PROVE  BInv'
<1>1. PICK todo, column : todo = opening[p].todo /\ column = Head(todo)
  OBVIOUS
<1>2. /\ opening[p].at = "alter" /\ opening[p] \in Opening /\ todo \in Seq(AllColumns)
      /\ UNCHANGED <<writer, holds, asked>> /\ file \in Store /\ StoreStands
  BY <1>1, ProcessOf DEF AlterTable, Opening
<1>3. /\ StillThere(file, opening[p].present) /\ ~file.strict
      /\ opening[p].present # "none" => Reached(file, todo)
      /\ todo # <<>> /\ (column \notin file.columns \/ Several)
  BY <1>1, <1>2, ProcessOf DEF FitsFile, Looked
<1>4. column \in AllColumns /\ Tail(todo) \in Seq(AllColumns)
  BY <1>1, <1>2, <1>3, HeadTailProperties
<1>5. CASE column \in file.columns
  <2>1. PICK o : o = [opening[p] EXCEPT !.at = "failed", !.why = "duplicate column"]
    OBVIOUS
  <2>2. /\ o \in Opening /\ o.at = "failed" /\ o.why = "duplicate column"
    BY <1>2, <2>1 DEF Opening
  <2>3. FitsFile(o, holds[p], asked[p], file)
    BY <1>2, <1>3, <1>5, <2>2, ProcessOf DEF FitsFile, Looked
  <2>4. opening' = [opening EXCEPT ![p] = o] /\ file' = file
    BY <1>1, <1>5, <2>1 DEF AlterTable, Throws
  <2>5. QED
    BY <1>2, <2>2, <2>3, <2>4, Further
<1>6. CASE column \notin file.columns
  <2>1. PICK o : o = [opening[p] EXCEPT !.at = "columns", !.todo = Tail(todo)]
    OBVIOUS
  <2>2. PICK f : f = [file EXCEPT !.columns = @ \cup {column}]
    OBVIOUS
  <2>3. /\ o \in Opening /\ o.at = "columns" /\ o.present = opening[p].present
        /\ o.todo = Tail(todo)
    BY <1>2, <1>4, <2>1 DEF Opening
  <2>4. /\ f \in Store /\ f.tables = file.tables /\ f.strict = file.strict
        /\ f.stamped = file.stamped /\ f.columns = file.columns \cup {column}
    BY <1>2, <1>4, <2>2 DEF Store
  <2>5. opening' = [opening EXCEPT ![p] = o] /\ file' = f
    BY <1>1, <1>6, <2>1, <2>2 DEF AlterTable
  <2>6. /\ opening'[p] = o /\ opening' \in [Processes -> Opening]
        /\ \A q \in Processes : q # p => opening'[q] = opening[q]
    BY <2>3, <2>5 DEF BInv, BTyped
  <2>7. BTyped'
    BY <1>2, <2>4, <2>5, <2>6 DEF BInv, BTyped, Store, AllColumns
  <2>8. StoreStands'
    <3>1. AllColumns' = AllColumns
      BY DEF AllColumns
    <3>2. file.tables = "whole" => f.columns = AllColumns
      BY <1>2, <1>4, <2>4 DEF StoreStands
    <3>3. QED
      BY <1>2, <2>4, <2>5, <3>1, <3>2 DEF StoreStands
  <2>9. ASSUME NEW q \in Processes
        PROVE  /\ FitsFile(opening'[q], holds'[q], asked'[q], f)
               /\ Writes(q, opening'[q], holds'[q], writer')
    <3>1. \A present : StillThere(file, present) => StillThere(f, present)
      BY <2>4 DEF StillThere
    <3>2. \A x : Reached(file, x) => Reached(f, x)
      BY <2>4 DEF Reached
    <3>3. CASE q = p
      <4>1. opening[p].present # "none" => Reached(f, Tail(todo))
        BY <1>1, <1>2, <1>3, <2>4, <3>2, OneLess
      <4>2. FitsFile(o, holds[p], asked[p], f) /\ Writes(p, o, holds[p], writer)
        BY <1>2, <1>3, <2>3, <2>4, <3>1, <4>1, ProcessOf DEF FitsFile, Writes, Looked
      <4>3. QED
        BY <1>2, <2>6, <3>3, <4>2
    <3>4. CASE q # p
      <4>1. Several
        BY <3>4, TwoAreSeveral
      <4>2. file.columns = AllColumns => f.columns = AllColumns
        BY <1>4, <2>4
      <4>3. FitsFile(opening[q], holds[q], asked[q], f) /\ Writes(q, opening[q], holds[q], writer)
        BY <2>4, <3>1, <3>2, <4>1, <4>2, ProcessOf DEF FitsFile
      <4>4. QED
        BY <1>2, <2>6, <3>4, <4>3
    <3>5. QED
      BY <3>3, <3>4
  <2>10. QED
    BY <2>5, <2>7, <2>8, <2>9 DEF BInv
<1>7. QED
  BY <1>5, <1>6

\* A process takes the write lock that nobody has.
LEMMA BeginCreateStep ==
  ASSUME BInv, NEW p \in Processes, BeginCreate(p)
  PROVE  BInv'
<1>1. PICK o : o = [opening[p] EXCEPT !.at = "creating"]
  OBVIOUS
<1>2. o \in Opening /\ o.at = "creating" /\ o.present = opening[p].present
  BY <1>1, ProcessOf DEF Opening
<1>3. /\ opening' = [opening EXCEPT ![p] = o] /\ holds' = [holds EXCEPT ![p] = "bootstrap"]
      /\ writer = None /\ writer' = p /\ file' = file /\ asked' = asked
      /\ opening[p].at = "create"
  BY <1>1 DEF BeginCreate, Steps
<1>4. /\ opening'[p] = o /\ opening' \in [Processes -> Opening] /\ holds'[p] = "bootstrap"
      /\ holds' \in [Processes -> {None, "bootstrap", "transaction"}]
      /\ \A q \in Processes : q # p => opening'[q] = opening[q] /\ holds'[q] = holds[q]
  BY <1>2, <1>3 DEF BInv, BTyped
<1>5. BTyped'
  BY <1>3, <1>4 DEF BInv, BTyped, Store, AllColumns
<1>6. FitsFile(o, "bootstrap", asked[p], file) /\ Writes(p, o, "bootstrap", p)
  BY <1>2, <1>3, ProcessOf DEF FitsFile, Writes, Looked
<1>7. \A q \in Processes : q # p => (writer' = q <=> writer = q)
  BY <1>3, BootstrapAssumption
<1>8. QED
  BY <1>3, <1>4, <1>5, <1>6, <1>7, OneMoves

\* What is created is whole, and nobody's knowledge of the store is wrong after.
LEMMA CreateStep ==
  ASSUME BInv, NEW p \in Processes, Create(p)
  PROVE  BInv'
<1>1. /\ opening[p].at = "creating" /\ opening[p] \in Opening /\ file \in Store /\ StoreStands
      /\ asked' = asked
  BY ProcessOf DEF Create
<1>2. /\ StillThere(file, opening[p].present) /\ ~file.strict /\ writer = p
      /\ opening[p].present # "none" => file.columns = AllColumns
  BY <1>1, ProcessOf DEF FitsFile, Writes, Looked
<1>3. file.tables # "foreign"
  BY <1>1, <1>2 DEF StillThere, Opening
<1>4. Created = AllColumns
  BY <1>1, <1>2 DEF Created, StillThere, StoreStands
<1>5. PICK o, f : o = [opening[p] EXCEPT !.at = "ready"] /\ f = File("whole", AllColumns, FALSE, TRUE)
  OBVIOUS
<1>6. o \in Opening /\ o.at = "ready"
  BY <1>1, <1>5 DEF Opening
<1>7. f \in Store /\ f.tables = "whole" /\ f.columns = AllColumns /\ ~f.strict
  BY <1>5 DEF File, Store
<1>8. /\ opening' = [opening EXCEPT ![p] = o] /\ file' = f /\ writer' = None
      /\ holds' = [holds EXCEPT ![p] = None]
  BY <1>4, <1>5 DEF Create, Finish, Steps
<1>9. /\ opening'[p] = o /\ opening' \in [Processes -> Opening] /\ holds'[p] = None
      /\ holds' \in [Processes -> {None, "bootstrap", "transaction"}]
      /\ \A q \in Processes : q # p => opening'[q] = opening[q] /\ holds'[q] = holds[q]
  BY <1>6, <1>8 DEF BInv, BTyped
<1>10. BTyped' /\ StoreStands'
  <2>1. AllColumns' = AllColumns
    BY DEF AllColumns
  <2>2. QED
    BY <1>1, <1>7, <1>8, <1>9, <2>1 DEF BInv, BTyped, StoreStands, Store
<1>11. ASSUME NEW q \in Processes
       PROVE  /\ FitsFile(opening'[q], holds'[q], asked'[q], f)
              /\ Writes(q, opening'[q], holds'[q], None)
  <2>1. CASE q = p
    <3>1. FitsFile(o, None, asked[p], f) /\ Writes(p, o, None, None)
      BY <1>6, <1>7, BootstrapAssumption DEF FitsFile, Writes, Looked
    <3>2. QED
      BY <1>1, <1>9, <2>1, <3>1
  <2>2. CASE q # p
    <3>1. Several
      BY <2>2, TwoAreSeveral
    <3>2. FitsFile(opening[q], holds[q], asked[q], file) /\ Writes(q, opening[q], holds[q], p)
      BY <1>2, ProcessOf
    <3>3. StillThere(file, opening[q].present) => StillThere(f, opening[q].present)
      BY <1>7 DEF StillThere
    <3>4. Reached(f, opening[q].todo)
      BY <1>7 DEF Reached
    <3>5. FitsFile(opening[q], holds[q], asked[q], f)
      BY <1>2, <1>3, <1>7, <3>1, <3>2, <3>3, <3>4 DEF FitsFile
    <3>6. Writes(q, opening[q], holds[q], None)
      BY <2>2, <3>2, BootstrapAssumption DEF Writes
    <3>7. QED
      BY <1>1, <1>9, <2>2, <3>5, <3>6
  <2>3. QED
    BY <2>1, <2>2
<1>12. QED
  BY <1>8, <1>10, <1>11 DEF BInv

\* SQLite waited in vain, and ensureSchema tries again or gives up.
LEMMA BusyStep ==
  ASSUME BInv, NEW p \in Processes, Busy(p)
  PROVE  BInv'
<1>1. PICK o : o = IF opening[p].attempt < MaxAttempts THEN [opening[p] EXCEPT !.at = "attempt"]
                   ELSE [opening[p] EXCEPT !.at = "failed", !.why = "busy"]
  OBVIOUS
<1>2. /\ opening[p].at \in {"alter", "create"} /\ opening[p] \in Opening
      /\ UNCHANGED <<file, writer, holds, asked>>
  BY ProcessOf DEF Busy
<1>3. StillThere(file, opening[p].present)
  BY <1>2, ProcessOf DEF FitsFile, Looked
<1>4. opening[p].attempt \in 0..MaxAttempts /\ MaxAttempts \in Nat
  BY <1>2, BootstrapAssumption DEF Opening
<1>5. /\ o \in Opening /\ o.present = opening[p].present /\ o.attempt = opening[p].attempt
      /\ \/ o.at = "attempt" /\ o.attempt < MaxAttempts
         \/ o.at = "failed" /\ o.why = "busy" /\ o.attempt = MaxAttempts
  <2>1. CASE opening[p].attempt < MaxAttempts
    BY <1>1, <1>2, <2>1 DEF Opening
  <2>2. CASE ~(opening[p].attempt < MaxAttempts)
    <3>1. opening[p].attempt = MaxAttempts
      BY <1>4, <2>2
    <3>2. QED
      BY <1>1, <1>2, <2>2, <3>1 DEF Opening
  <2>3. QED
    BY <2>1, <2>2
<1>6. FitsFile(o, holds[p], asked[p], file)
  BY <1>2, <1>3, <1>5, ProcessOf DEF FitsFile, Looked
<1>7. opening' = [opening EXCEPT ![p] = o]
  BY <1>1 DEF Busy, Steps, Throws
<1>8. QED
  BY <1>2, <1>5, <1>6, <1>7, Further

\* A process that is killed leaves the store as it is, and the write lock.
LEMMA ExitStep ==
  ASSUME BInv, NEW p \in Processes, Exit(p)
  PROVE  BInv'
<1>1. Closed \in Opening /\ Closed.at = "closed" /\ Closed.attempt = 0
  BY BootstrapAssumption, EmptySeq DEF Closed, Opening
<1>2. /\ opening' = [opening EXCEPT ![p] = Closed] /\ holds' = [holds EXCEPT ![p] = None]
      /\ asked' = [asked EXCEPT ![p] = None] /\ file' = file
      /\ writer' = IF writer = p THEN None ELSE writer
  BY DEF Exit
<1>3. /\ opening'[p] = Closed /\ opening' \in [Processes -> Opening] /\ holds'[p] = None
      /\ asked'[p] = None
      /\ holds' \in [Processes -> {None, "bootstrap", "transaction"}]
      /\ asked' \in [Processes -> {None, "query", "transaction", "begun", "answered"}]
      /\ \A q \in Processes : q # p => /\ opening'[q] = opening[q] /\ holds'[q] = holds[q]
                                       /\ asked'[q] = asked[q]
  BY <1>1, <1>2 DEF BInv, BTyped
<1>4. BTyped'
  BY <1>2, <1>3 DEF BInv, BTyped, Store, AllColumns
<1>5. writer' # p /\ \A q \in Processes : q # p => (writer' = q <=> writer = q)
  BY <1>2, BootstrapAssumption
<1>6. FitsFile(Closed, None, None, file) /\ Writes(p, Closed, None, writer')
  BY <1>1, <1>5, BootstrapAssumption DEF FitsFile, Writes, Looked
<1>7. QED
  BY <1>2, <1>3, <1>4, <1>5, <1>6, OneMoves

\* The operations of a process: only an open store answers, and a transaction
\* has the connection only once it is.
LEMMA OperationStep ==
  ASSUME BInv, NEW p \in Processes,
         \/ \E operation \in {"query", "transaction"} : Ask(p, operation)
         \/ BeginTransaction(p) \/ RunQuery(p) \/ EndOperation(p)
  PROVE  BInv'
<1>1. UNCHANGED <<file, writer, opening>>
  BY DEF Ask, BeginTransaction, RunQuery, EndOperation
<1>2. PICK h \in {None, "bootstrap", "transaction"},
           a \in {None, "query", "transaction", "begun", "answered"} :
        /\ holds' = [holds EXCEPT ![p] = h] /\ asked' = [asked EXCEPT ![p] = a]
        /\ h = "bootstrap" <=> holds[p] = "bootstrap"
        /\ h = "transaction" => holds[p] = "transaction" \/ opening[p].at = "ready"
        /\ a = "answered" => opening[p].at = "ready"
  <2>1. BTyped /\ holds[p] \in {None, "bootstrap", "transaction"}
    BY ProcessOf DEF BInv
  <2>2. holds = [holds EXCEPT ![p] = holds[p]]
    BY <2>1 DEF BTyped
  <2>3. ASSUME NEW operation \in {"query", "transaction"}, Ask(p, operation)
        PROVE  /\ holds' = [holds EXCEPT ![p] = holds[p]]
               /\ asked' = [asked EXCEPT ![p] = operation]
    BY <2>2, <2>3 DEF Ask
  <2>4. ASSUME BeginTransaction(p)
        PROVE  /\ holds' = [holds EXCEPT ![p] = "transaction"] /\ asked' = [asked EXCEPT ![p] = "begun"]
               /\ holds[p] = None /\ opening[p].at = "ready"
    BY <2>4 DEF BeginTransaction, MayBegin, Free
  <2>5. ASSUME RunQuery(p)
        PROVE  /\ holds' = [holds EXCEPT ![p] = holds[p]] /\ asked' = [asked EXCEPT ![p] = "answered"]
               /\ opening[p].at = "ready"
    BY <2>2, <2>5 DEF RunQuery
  <2>6. ASSUME EndOperation(p)
        PROVE  /\ holds' = [holds EXCEPT ![p] = IF holds[p] = "transaction" THEN None ELSE holds[p]]
               /\ asked' = [asked EXCEPT ![p] = None]
    BY <2>1, <2>6 DEF EndOperation, BTyped
  <2>7. QED
    BY <2>1, <2>3, <2>4, <2>5, <2>6, BootstrapAssumption
<1>3. /\ holds'[p] = h /\ asked'[p] = a
      /\ holds' \in [Processes -> {None, "bootstrap", "transaction"}]
      /\ asked' \in [Processes -> {None, "query", "transaction", "begun", "answered"}]
      /\ \A q \in Processes : q # p => holds'[q] = holds[q] /\ asked'[q] = asked[q]
  BY <1>2 DEF BInv, BTyped
<1>4. BTyped'
  BY <1>1, <1>3 DEF BInv, BTyped, Store, AllColumns
<1>5. FitsFile(opening[p], h, a, file) /\ Writes(p, opening[p], h, writer)
  BY <1>2, ProcessOf DEF FitsFile, Writes
<1>6. QED
  BY <1>1, <1>3, <1>4, <1>5, OneMoves

\* The invariant is inductive.
LEMMA StepBootstrap == BInv /\ [Next]_vars => BInv'
<1> SUFFICES ASSUME BInv, [Next]_vars PROVE BInv'
  OBVIOUS
<1>1. CASE BootstrapNext
  BY <1>1, OpenStep, ReadStampStep, LookStep, AttemptStep, StrictStep, ColumnStep, AlterStep,
     BeginCreateStep, CreateStep, BusyStep, ExitStep, OperationStep DEF BootstrapNext
<1>2. CASE UNCHANGED bootVars
  <2>1. UNCHANGED <<file, writer, opening, holds, asked>>
    BY <1>2 DEF bootVars
  <2>2. BTyped' /\ StoreStands'
    BY <2>1 DEF BInv, BTyped, StoreStands, Store, AllColumns
  <2>3. QED
    BY <2>1, <2>2 DEF BInv
<1>3. QED
  BY <1>1, <1>2 DEF Next, Tick, Restart, vars

(***************************************************************************)
(* A store opens whole, or says why: no query meets half a schema, no      *)
(* process waits for a connection it holds itself, and no crash leaves     *)
(* what the next process cannot open (ensureSchema, withSchemaBootstrap).  *)
(***************************************************************************)
THEOREM StoreOpensWholeOrSaysWhy == Spec => []OpensWholeOrSaysWhy
<1>1. BInv => OpensWholeOrSaysWhy
  <2>1. SUFFICES ASSUME BInv PROVE OpensWholeOrSaysWhy
    OBVIOUS
  <2>2. QueriesFindTheirTables
    BY <2>1, ProcessOf DEF FitsFile, StoreStands, QueriesFindTheirTables
  <2>3. OpensOrSaysWhy
    BY <2>1, ProcessOf DEF FitsFile, Several, OpensOrSaysWhy
  <2>4. NobodyWaitsForItself
    BY <2>1, ProcessOf DEF FitsFile, NobodyWaitsForItself
  <2>5. QED
    BY <2>2, <2>3, <2>4 DEF OpensWholeOrSaysWhy
<1>2. QED
  BY <1>1, InitBootstrap, StepBootstrap, PTL DEF Spec

-----------------------------------------------------------------------------
(***************************************************************************)
(* RewardsPage: the figures of a page agree, for any number of reports and *)
(* credits, and whatever is written while it loads.                        *)
(***************************************************************************)

\* The first n queries of a summary.
Prefix(n) == {Summary[i] : i \in 1..n}

\* What was earned when the page was begun.
Before30d == {c \in Credits : earned[c] \in Nat /\ earned[c] < page.at}

\* What has a value of which kind.
PageTyped ==
  /\ now \in Nat
  /\ usage \in [Reports -> [status : {None, "pending", "verified", "rejected"}, at : Nat \cup {None}]]
  /\ earned \in [Credits -> Nat \cup {None}]
  /\ dated \in [Reports \cup Credits -> Nat \cup {None}]
  /\ \A c \in Credits : dated[c] # None => earned[c] = None
  /\ page = [kind |-> page.kind, at |-> page.at, answers |-> page.answers]
  /\ page.kind \in {None, "summary", "standing"} /\ page.at \in Nat /\ page.at <= now

\* A summary asks in its order.
SummaryInOrder == page.kind = "summary" => \E n \in 0..5 : Asked = Prefix(n)

\* Nothing written, nothing changed.
QuietAnswersHold == ~disturbed => \A q \in Asked : page.answers[q] = Answer(q)

\* Something written: money once confirmed stays confirmed, and what was earned before the
\* page was begun stays what it was, but for credits that were written since.
AnswersStand ==
  /\ "confirmed" \in Asked => page.answers["confirmed"] \subseteq In("verified")
  /\ \A q \in {"pending", "rejected"} : page.kind = "summary" /\ q \in Asked =>
       "confirmed" \in Asked /\ page.answers[q] \cap page.answers["confirmed"] = {}
  /\ "creditsEver" \in Asked => Before30d \ behind \subseteq page.answers["creditsEver"]
  /\ "credits30d" \in Asked => page.answers["credits30d"] \subseteq Before30d

\* The inductive invariant.
PInv == PageTyped /\ (page.kind # None => SummaryInOrder /\ QuietAnswersHold /\ AnswersStand)

\* How many queries a summary has asked says which is next.
LEMMA PrefixCounts ==
  ASSUME NEW n \in 0..5
  PROVE  /\ Cardinality(Prefix(n)) = n
         /\ n < 5 => Prefix(n + 1) = Prefix(n) \cup {Summary[n + 1]}
<1>1. \A m \in 0..4 : Prefix(m + 1) = Prefix(m) \cup {Summary[m + 1]} /\ Summary[m + 1] \notin Prefix(m)
  <2>1. \A m \in 0..4 : 1..(m + 1) = 1..m \cup {m + 1}
    OBVIOUS
  <2>2. \A m \in 0..4 : \A i \in 1..m : Summary[m + 1] # Summary[i]
    BY DEF Summary
  <2>3. QED
    BY <2>1, <2>2 DEF Prefix
<1>2. IsFiniteSet(Prefix(0)) /\ Cardinality(Prefix(0)) = 0
  <2>1. Prefix(0) = {}
    BY DEF Prefix
  <2>2. QED
    BY <2>1, FS_EmptySet
<1>3. ASSUME NEW m \in 0..4, IsFiniteSet(Prefix(m)), Cardinality(Prefix(m)) = m
      PROVE  IsFiniteSet(Prefix(m + 1)) /\ Cardinality(Prefix(m + 1)) = m + 1
  <2>1. /\ IsFiniteSet(Prefix(m) \cup {Summary[m + 1]})
        /\ Cardinality(Prefix(m) \cup {Summary[m + 1]}) = m + 1
    BY <1>1, <1>3, FS_AddElement
  <2>2. Prefix(m + 1) = Prefix(m) \cup {Summary[m + 1]}
    BY <1>1
  <2>3. QED
    BY <2>1, <2>2
<1>4. IsFiniteSet(Prefix(1)) /\ Cardinality(Prefix(1)) = 1
  BY <1>2, <1>3
<1>5. IsFiniteSet(Prefix(2)) /\ Cardinality(Prefix(2)) = 2
  BY <1>3, <1>4
<1>6. IsFiniteSet(Prefix(3)) /\ Cardinality(Prefix(3)) = 3
  BY <1>3, <1>5
<1>7. IsFiniteSet(Prefix(4)) /\ Cardinality(Prefix(4)) = 4
  BY <1>3, <1>6
<1>8. IsFiniteSet(Prefix(5)) /\ Cardinality(Prefix(5)) = 5
  BY <1>3, <1>7
<1>9. QED
  BY <1>1, <1>2, <1>4, <1>5, <1>6, <1>7, <1>8

LEMMA NextOfSummary ==
  ASSUME NEW n \in 0..5, page.kind = "summary", Asked = Prefix(n)
  PROVE  NextQueries = IF n < 5 THEN {Summary[n + 1]} ELSE {}
<1>1. Cardinality(Asked) = n
  BY PrefixCounts
<1>2. DOMAIN Summary = 1..5
  BY DEF Summary
<1>3. {j \in DOMAIN Summary : Cardinality(Asked) = j - 1} = IF n < 5 THEN {n + 1} ELSE {}
  BY <1>1, <1>2
<1>4. QED
  BY <1>3 DEF NextQueries

LEMMA InitPage == Init => PInv
<1> SUFFICES ASSUME Init PROVE PInv
  OBVIOUS
<1>1. page = NoPage /\ now = 0
  BY DEF Init, RewardsPageInit
<1>2. QED
  BY <1>1 DEF Init, RewardsPageInit, PInv, PageTyped, NoPage

\* Something is written while the page may be loading.
LEMMA WrittenStep ==
  ASSUME PInv, RewardsPageNext, UNCHANGED <<page, now>>, disturbed' = TRUE, PageTyped',
         In("verified") \subseteq In("verified")', Before30d \subseteq Before30d',
         page.kind # None => Before30d' \ behind' \subseteq Before30d \ behind
  PROVE  PInv'
<1>1. Asked' = Asked
  BY DEF Asked
<1>2. page.kind # None => SummaryInOrder' /\ QuietAnswersHold' /\ AnswersStand'
  BY <1>1 DEF PInv, SummaryInOrder, QuietAnswersHold, AnswersStand
<1>3. QED
  BY <1>2 DEF PInv

LEMMA ReportMovesStep ==
  ASSUME PInv, NEW r \in Reports, NEW to \in {None, "pending", "rejected"}, ReportMoves(r, to)
  PROVE  PInv'
<1>1. /\ UNCHANGED <<page, now, earned, behind>> /\ disturbed' = TRUE
      /\ usage' = [usage EXCEPT ![r] = [status |-> to, at |-> None]]
      /\ dated' = [dated EXCEPT ![r] = None]
      /\ usage[r].status # "verified"
  BY PageAssumption DEF ReportMoves, Moves
<1>2. PageTyped'
  BY <1>1 DEF PInv, PageTyped
<1>3. In("verified") \subseteq In("verified")'
  BY <1>1 DEF In, PInv, PageTyped
<1>4. Before30d' = Before30d
  BY <1>1 DEF Before30d
<1>5. RewardsPageNext
  BY DEF RewardsPageNext
<1>6. QED
  BY <1>1, <1>2, <1>3, <1>4, <1>5, WrittenStep

LEMMA IsConfirmedStep ==
  ASSUME PInv, NEW r \in Reports, IsConfirmed(r)
  PROVE  PInv'
<1>1. /\ UNCHANGED <<page, now, earned, behind>> /\ disturbed' = TRUE
      /\ usage' = [usage EXCEPT ![r] = [status |-> "verified", at |-> dated[r]]]
      /\ dated' = [dated EXCEPT ![r] = None]
  BY DEF IsConfirmed
<1>2. PageTyped'
  BY <1>1 DEF PInv, PageTyped
<1>3. In("verified") \subseteq In("verified")'
  BY <1>1 DEF In, PInv, PageTyped
<1>4. Before30d' = Before30d
  BY <1>1 DEF Before30d
<1>5. RewardsPageNext
  BY DEF RewardsPageNext
<1>6. QED
  BY <1>1, <1>2, <1>3, <1>4, <1>5, WrittenStep

\* A credit that comes before the page is behind it, or the page has not begun.
LEMMA IsEarnedStep ==
  ASSUME PInv, NEW c \in Credits, IsEarned(c)
  PROVE  PInv'
<1>1. /\ UNCHANGED <<page, now, usage>> /\ disturbed' = TRUE
      /\ earned' = [earned EXCEPT ![c] = dated[c]]
      /\ dated' = [dated EXCEPT ![c] = None] /\ dated[c] # None
      /\ behind' = IF dated[c] < page.at THEN behind \cup {c} ELSE behind
      /\ earned[c] = None
  BY DEF IsEarned, PInv, PageTyped
<1>2. PageTyped'
  BY <1>1 DEF PInv, PageTyped
<1>3. In("verified") \subseteq In("verified")'
  BY <1>1 DEF In
<1>4. Before30d \subseteq Before30d'
  BY <1>1, PageAssumption DEF Before30d, PInv, PageTyped
<1>5. Before30d' \ behind' \subseteq Before30d \ behind
  BY <1>1 DEF Before30d, PInv, PageTyped
<1>6. RewardsPageNext
  BY DEF RewardsPageNext
<1>7. QED
  BY <1>1, <1>2, <1>3, <1>4, <1>5, <1>6, WrittenStep

LEMMA LoadStep ==
  ASSUME PInv, NEW kind \in {"summary", "standing"}, Load(kind)
  PROVE  PInv'
<1>1. /\ page' = [kind |-> kind, at |-> now, answers |-> <<>>]
      /\ UNCHANGED <<usage, earned, dated, now>>
  BY DEF Load
<1>2. PageTyped'
  BY <1>1 DEF PInv, PageTyped
<1>3. Asked' = {}
  BY <1>1 DEF Asked
<1>4. Prefix(0) = {} /\ 0 \in 0..5
  BY DEF Prefix
<1>5. SummaryInOrder' /\ QuietAnswersHold' /\ AnswersStand'
  BY <1>3, <1>4 DEF SummaryInOrder, QuietAnswersHold, AnswersStand, Prefix
<1>6. QED
  BY <1>2, <1>5 DEF PInv

\* A query is answered from what is on file now.
LEMMA QueryStep ==
  ASSUME PInv, NEW query, Query(query)
  PROVE  PInv'
<1>1. /\ page.kind # None /\ query \in NextQueries
      /\ page' = [page EXCEPT !.answers =
                   [q \in Asked \cup {query} |-> IF q = query THEN Answer(query) ELSE page.answers[q]]]
      /\ UNCHANGED <<usage, earned, dated, disturbed, behind, now>>
  BY DEF Query
<1>2. /\ PageTyped /\ SummaryInOrder /\ QuietAnswersHold /\ AnswersStand
  BY <1>1 DEF PInv
<1>3. /\ page'.kind = page.kind /\ page'.at = page.at
      /\ page'.answers = [q \in Asked \cup {query} |->
                           IF q = query THEN Answer(query) ELSE page.answers[q]]
      /\ page' = [kind |-> page'.kind, at |-> page'.at, answers |-> page'.answers]
  BY <1>1, <1>2 DEF PageTyped
<1>4. PageTyped'
  BY <1>1, <1>2, <1>3 DEF PageTyped
<1>5. /\ Asked' = Asked \cup {query}
      /\ page'.answers[query] = Answer(query)
      /\ \A q \in Asked \ {query} : page'.answers[q] = page.answers[q]
  BY <1>3 DEF Asked
<1>6. ASSUME page.kind = "summary"
      PROVE  /\ \E n \in 0..5 : Asked' = Prefix(n)
             /\ query \notin Asked
             /\ query \in {"pending", "rejected"} => "confirmed" \in Asked
  <2>1. PICK n \in 0..5 : Asked = Prefix(n)
    BY <1>2, <1>6 DEF SummaryInOrder
  <2>2. n < 5 /\ query = Summary[n + 1]
    BY <1>1, <1>6, <2>1, NextOfSummary
  <2>3. Asked' = Prefix(n + 1) /\ n + 1 \in 0..5
    BY <1>5, <2>1, <2>2, PrefixCounts
  <2>4. query \in {"pending", "rejected"} => n >= 3
    BY <2>2 DEF Summary
  <2>5. query \in {"pending", "rejected"} => "confirmed" \in Asked
    <3>1. SUFFICES ASSUME query \in {"pending", "rejected"} PROVE "confirmed" \in Asked
      OBVIOUS
    <3>2. 1 \in 1..n /\ Summary[1] = "confirmed"
      BY <2>4, <3>1 DEF Summary
    <3>3. QED
      BY <2>1, <3>2 DEF Prefix
  <2>6. query \notin Asked
    <3>1. \A i \in 1..n : Summary[i] # Summary[n + 1]
      BY <2>2 DEF Summary
    <3>2. QED
      BY <2>1, <2>2, <3>1 DEF Prefix
  <2>7. QED
    BY <2>3, <2>5, <2>6
<1>7. query \notin Asked
  BY <1>1, <1>2, <1>6 DEF PageTyped, NextQueries
<1>8. SummaryInOrder'
  BY <1>3, <1>6 DEF SummaryInOrder
<1>9. \A q : Answer(q)' = Answer(q)
  BY <1>1, <1>3
  DEF Answer, SpendEver, In, SpendByWorkspace, EarnedEver, CreditsOf, Since, UnconfirmedUsage,
      AgentActivity
<1>10. QuietAnswersHold'
  BY <1>1, <1>2, <1>5, <1>7, <1>9 DEF QuietAnswersHold
<1>11. Before30d' = Before30d /\ In("verified")' = In("verified")
  BY <1>1, <1>3 DEF Before30d, In
<1>12. AnswersStand'
  <2>1. "confirmed" \in Asked' => page'.answers["confirmed"] \subseteq In("verified")'
    <3>1. Answer("confirmed") = In("verified")
      BY DEF Answer, SpendEver
    <3>2. QED
      BY <1>2, <1>5, <1>7, <1>11, <3>1 DEF AnswersStand
  <2>2. ASSUME NEW q \in {"pending", "rejected"}, page'.kind = "summary", q \in Asked'
        PROVE  "confirmed" \in Asked' /\ page'.answers[q] \cap page'.answers["confirmed"] = {}
    <3>1. page.kind = "summary"
      BY <1>3, <2>2
    <3>2. CASE q = query
      <4>1. "confirmed" \in Asked /\ page'.answers["confirmed"] \subseteq In("verified")
        BY <1>2, <1>5, <1>6, <1>7, <3>1, <3>2 DEF AnswersStand
      <4>2. page'.answers[q] = In(q)
        BY <1>5, <3>2 DEF Answer, UnconfirmedUsage
      <4>3. In(q) \cap In("verified") = {}
        BY DEF In
      <4>4. QED
        BY <1>5, <4>1, <4>2, <4>3
    <3>3. CASE q # query
      <4>1. /\ q \in Asked /\ "confirmed" \in Asked
            /\ page.answers[q] \cap page.answers["confirmed"] = {}
        BY <1>2, <1>5, <2>2, <3>1, <3>3 DEF AnswersStand
      <4>2. QED
        BY <1>5, <1>7, <4>1
    <3>4. QED
      BY <3>2, <3>3
  <2>3. "creditsEver" \in Asked' => Before30d' \ behind' \subseteq page'.answers["creditsEver"]
    <3>1. Before30d \subseteq Answer("creditsEver")
      BY <1>2, PageAssumption DEF Answer, Before30d, EarnedEver, CreditsOf, PageTyped
    <3>2. QED
      BY <1>1, <1>2, <1>5, <1>7, <1>11, <3>1 DEF AnswersStand
  <2>4. "credits30d" \in Asked' => page'.answers["credits30d"] \subseteq Before30d'
    <3>1. Answer("credits30d") \subseteq Before30d
      BY <1>2 DEF Answer, Before30d, EarnedEver, CreditsOf, PageTyped
    <3>2. QED
      BY <1>2, <1>5, <1>7, <1>11, <3>1 DEF AnswersStand
  <2>5. QED
    BY <2>1, <2>2, <2>3, <2>4 DEF AnswersStand
<1>13. QED
  BY <1>4, <1>8, <1>10, <1>12 DEF PInv

\* The page is sent or lost, or its part of the process does nothing.
LEMMA NoPageStep ==
  ASSUME PInv, page' = NoPage, UNCHANGED <<usage, earned, now>>,
         dated' \in [Reports \cup Credits -> Nat \cup {None}],
         \A c \in Credits : dated'[c] # None => dated[c] # None
  PROVE  PInv'
BY DEF PInv, PageTyped, NoPage

LEMMA PageIdleStep ==
  ASSUME PInv, UNCHANGED <<usage, earned, page, disturbed, behind>>, PageTyped'
  PROVE  PInv'
<1>1. Asked' = Asked /\ \A q : Answer(q)' = Answer(q)
  BY DEF Asked, Answer, SpendEver, In, SpendByWorkspace, EarnedEver, CreditsOf, Since,
         UnconfirmedUsage, AgentActivity
<1>2. In("verified")' = In("verified") /\ Before30d' = Before30d
  BY DEF In, Before30d
<1>3. page.kind # None => SummaryInOrder' /\ QuietAnswersHold' /\ AnswersStand'
  BY <1>1, <1>2 DEF PInv, SummaryInOrder, QuietAnswersHold, AnswersStand
<1>4. QED
  BY <1>3 DEF PInv

\* A statement is made, and nothing is written yet.
LEMMA DatedStep ==
  ASSUME PInv, (\E r \in Reports : Confirm(r)) \/ (\E c \in Credits : Earn(c))
  PROVE  PInv'
<1>1. UNCHANGED <<usage, earned, page, disturbed, behind, now>>
  BY DEF Confirm, Earn
<1>2. PageTyped'
  <2>1. CASE \E r \in Reports : Confirm(r)
    BY <1>1, <2>1, PageAssumption DEF Confirm, PInv, PageTyped
  <2>2. CASE \E c \in Credits : Earn(c)
    BY <1>1, <2>2 DEF Earn, PInv, PageTyped
  <2>3. QED
    BY <2>1, <2>2
<1>3. QED
  BY <1>1, <1>2, PageIdleStep

\* Nothing of the page's part changes; the clock may go on.
LEMMA PageStandsStep ==
  ASSUME PInv, UNCHANGED pageVars, now' \in Nat, now' >= now
  PROVE  PInv'
<1>1. PageTyped'
  BY DEF PInv, PageTyped, pageVars
<1>2. QED
  BY <1>1, PageIdleStep DEF pageVars

\* The invariant is inductive.
LEMMA StepPage == PInv /\ [Next]_vars => PInv'
<1> SUFFICES ASSUME PInv, [Next]_vars PROVE PInv'
  OBVIOUS
<1>1. now \in Nat
  BY DEF PInv, PageTyped
<1>2. CASE RewardsPageNext
  <2>1. ASSUME Send PROVE PInv'
    BY <2>1, NoPageStep DEF Send, PInv, PageTyped
  <2>2. ASSUME NEW query \in NextQueries, Query(query) PROVE PInv'
    BY <2>2, QueryStep
  <2>3. QED
    BY <1>2, <2>1, <2>2, ReportMovesStep, IsConfirmedStep, IsEarnedStep, DatedStep, LoadStep
    DEF RewardsPageNext
<1>3. CASE (LimiterNext \/ AccountsNext \/ AccessNext \/ FeedNext \/ BootstrapNext) /\ UNCHANGED pageVars
  BY <1>1, <1>3, ClockStands, PageStandsStep
<1>4. CASE Tick
  BY <1>1, <1>4, PageStandsStep DEF Tick
<1>5. CASE Restart
  <2>1. page' = NoPage /\ UNCHANGED <<usage, earned, now>>
    BY <1>5 DEF Restart, PageLost
  <2>2. /\ dated' \in [Reports \cup Credits -> Nat \cup {None}]
        /\ \A c \in Credits : dated'[c] # None => dated[c] # None
    BY <1>5 DEF Restart, PageLost, PInv, PageTyped
  <2>3. QED
    BY <2>1, <2>2, NoPageStep
<1>6. CASE UNCHANGED vars
  BY <1>1, <1>6, PageStandsStep DEF vars
<1>7. QED
  BY <1>2, <1>3, <1>4, <1>5, <1>6 DEF Next

(***************************************************************************)
(* A quiet page accounts for every report, no verification between two of  *)
(* its queries makes a summary count money twice, and a month's credits    *)
(* are among the credits ever, but for those stamped before the page began *)
(* and written since (rewards.controller.ts summary and standing).         *)
(***************************************************************************)
THEOREM ThePagesAddUp == Spec => []PagesAddUp
<1>1. ASSUME PInv, Loaded
      PROVE  /\ page.kind # None /\ SummaryInOrder /\ QuietAnswersHold /\ AnswersStand /\ PageTyped
             /\ page.kind = "summary" =>
                  Asked = {"confirmed", "creditsEver", "credits30d", "pending", "rejected"}
             /\ page.kind = "standing" => Standing \subseteq Asked
  <2>1. page.kind # None /\ SummaryInOrder /\ QuietAnswersHold /\ AnswersStand /\ PageTyped
    BY <1>1 DEF PInv, Loaded
  <2>2. ASSUME page.kind = "summary"
        PROVE  Asked = {"confirmed", "creditsEver", "credits30d", "pending", "rejected"}
    <3>1. PICK n \in 0..5 : Asked = Prefix(n)
      BY <2>1, <2>2 DEF SummaryInOrder
    <3>2. n = 5
      BY <1>1, <2>2, <3>1, NextOfSummary DEF Loaded
    <3>3. Prefix(5) = {"confirmed", "creditsEver", "credits30d", "pending", "rejected"}
      <4>1. 1..5 = {1, 2, 3, 4, 5}
        OBVIOUS
      <4>2. QED
        BY <4>1 DEF Prefix, Summary
    <3>4. QED
      BY <3>1, <3>2, <3>3
  <2>3. page.kind = "standing" => Standing \subseteq Asked
    BY <1>1 DEF Loaded, NextQueries
  <2>4. QED
    BY <2>1, <2>2, <2>3
<1>2. PInv => AccountsForAll
  <2> SUFFICES ASSUME PInv, Loaded, ~disturbed
               PROVE  IF page.kind = "summary"
                      THEN /\ page.answers["confirmed"] \cup page.answers["pending"]
                                \cup page.answers["rejected"] = AgentActivity
                           /\ page.answers["pending"] \cap page.answers["rejected"] = {}
                      ELSE /\ page.answers["activity"] =
                                page.answers["confirmed"] \cup page.answers["unconfirmed"]
                           /\ page.answers["confirmed30d"] \subseteq page.answers["confirmed"]
    BY DEF AccountsForAll
  <2>1. \A q \in Asked : page.answers[q] = Answer(q)
    BY <1>1 DEF QuietAnswersHold
  <2>2. CASE page.kind = "summary"
    <3>1. /\ page.answers["confirmed"] = In("verified")
          /\ page.answers["pending"] = In("pending") /\ page.answers["rejected"] = In("rejected")
      BY <1>1, <2>1, <2>2 DEF Answer, SpendEver, UnconfirmedUsage
    <3>2. In("verified") \cup In("pending") \cup In("rejected") = AgentActivity
      BY <1>1, PageAssumption DEF In, AgentActivity, PageTyped
    <3>3. In("pending") \cap In("rejected") = {}
      BY DEF In
    <3>4. QED
      BY <2>2, <3>1, <3>2, <3>3
  <2>3. CASE page.kind = "standing"
    <3>1. /\ page.answers["confirmed"] = In("verified")
          /\ page.answers["confirmed30d"] \subseteq In("verified")
          /\ page.answers["activity"] = AgentActivity
          /\ page.answers["unconfirmed"] = AgentActivity \ In("verified")
      BY <1>1, <2>1, <2>3 DEF Answer, SpendEver, SpendByWorkspace, Standing
    <3>2. In("verified") \subseteq AgentActivity
      BY PageAssumption DEF In, AgentActivity
    <3>3. QED
      BY <2>3, <3>1, <3>2
  <2>4. QED
    BY <1>1, <2>2, <2>3 DEF PageTyped
<1>3. PInv => NothingIsTwo
  <2> SUFFICES ASSUME PInv, Loaded
               PROVE  /\ page.answers["credits30d"] \ behind \subseteq page.answers["creditsEver"]
                      /\ page.kind = "summary" =>
                           page.answers["confirmed"]
                             \cap (page.answers["pending"] \cup page.answers["rejected"]) = {}
    BY DEF NothingIsTwo
  <2>1. {"credits30d", "creditsEver"} \subseteq Asked
    BY <1>1 DEF PageTyped, Standing
  <2>2. page.answers["credits30d"] \ behind \subseteq page.answers["creditsEver"]
    BY <1>1, <2>1 DEF AnswersStand
  <2>3. ASSUME page.kind = "summary"
        PROVE  page.answers["confirmed"]
                 \cap (page.answers["pending"] \cup page.answers["rejected"]) = {}
    BY <1>1, <2>3 DEF AnswersStand
  <2>4. QED
    BY <2>2, <2>3
<1>4. QED
  BY <1>2, <1>3, InitPage, StepPage, PTL DEF Spec, PagesAddUp

-----------------------------------------------------------------------------
(***************************************************************************)
(* RateLimit: the wait that is told, and the limit, for any window, any    *)
(* limit and any number of callers, whatever is swept and evicted.         *)
(***************************************************************************)

WindowState == [start : Nat, current : 0..Limit, previous : 0..Limit, deadAt : Nat]

LEMMA DivBounds ==
  ASSUME NEW a \in Nat, NEW b \in Nat \ {0}
  PROVE  a \div b \in Nat /\ b * (a \div b) <= a /\ a < b * (a \div b) + b
OBVIOUS

LEMMA Times ==
  ASSUME NEW a \in Nat, NEW b \in Nat, NEW c \in Nat, a <= b
  PROVE  a * c \in Nat /\ a * c <= b * c /\ c * a <= c * b
OBVIOUS

\* A state, rolled to some later moment.
LEMMA RolledOn ==
  ASSUME NEW s \in WindowState, NEW t \in Nat, t >= s.start
  PROVE  /\ t - s.start < Window => Roll(s, t) = s
         /\ t - s.start >= Window /\ t - s.start < 2 * Window =>
              Roll(s, t) = [s EXCEPT !.start = s.start + Window, !.previous = s.current, !.current = 0]
         /\ t - s.start >= 2 * Window =>
              Roll(s, t) = [s EXCEPT !.start = t, !.current = 0, !.previous = 0]
<1>1. s.start \in Nat /\ Window \in Nat \ {0} /\ t - s.start \in Nat
  BY LimiterAssumption DEF WindowState
<1>2. t - s.start < Window =>
        t - s.start \notin Window..(2 * Window - 1) /\ ~(t - s.start >= 2 * Window)
  BY <1>1
<1>3. t - s.start >= Window /\ t - s.start < 2 * Window =>
        t - s.start \in Window..(2 * Window - 1) /\ ~(t - s.start >= 2 * Window)
  BY <1>1
<1>4. QED
  BY <1>1, <1>2, <1>3 DEF Roll

\* Whether a caller would be let through then.
LEMMA AdmitsLater ==
  ASSUME NEW s \in WindowState, NEW t \in Nat, t >= s.start
  PROVE  /\ t - s.start < Window =>
              (Admits(Roll(s, t), t) <=>
                 s.previous * (Window - (t - s.start)) + (s.current + 1) * Window <= Limit * Window)
         /\ t - s.start >= Window /\ t - s.start < 2 * Window =>
              (Admits(Roll(s, t), t) <=>
                 s.current * (2 * Window - (t - s.start)) + Window <= Limit * Window)
         /\ t - s.start >= 2 * Window => Admits(Roll(s, t), t)
<1>1. /\ s.start \in Nat /\ Window \in Nat \ {0} /\ Limit \in Nat \ {0}
      /\ s.current \in Nat /\ s.previous \in Nat
  BY LimiterAssumption DEF WindowState
<1>2. CASE t - s.start < Window
  <2>1. Roll(s, t) = s
    BY <1>2, RolledOn
  <2>2. QED
    BY <1>1, <1>2, <2>1 DEF Admits
<1>3. CASE t - s.start >= Window /\ t - s.start < 2 * Window
  <2> DEFINE r == [s EXCEPT !.start = s.start + Window, !.previous = s.current, !.current = 0]
  <2>1. Roll(s, t) = r
    BY <1>3, RolledOn
  <2>2. r.start = s.start + Window /\ r.previous = s.current /\ r.current = 0
    BY DEF WindowState
  <2>3. Window - (t - r.start) = 2 * Window - (t - s.start)
    BY <1>1, <2>2
  <2>4. Admits(r, t) <=>
          s.current * (2 * Window - (t - s.start)) + (0 + 1) * Window <= Limit * Window
    BY <2>2, <2>3 DEF Admits
  <2> HIDE DEF r
  <2>5. (0 + 1) * Window = Window
    BY <1>1
  <2>6. Admits(Roll(s, t), t) <=>
          s.current * (2 * Window - (t - s.start)) + Window <= Limit * Window
    BY <2>1, <2>4, <2>5
  <2>7. QED
    BY <1>1, <1>3, <2>6
<1>4. CASE t - s.start >= 2 * Window
  <2> DEFINE r == [s EXCEPT !.start = t, !.current = 0, !.previous = 0]
  <2>1. Roll(s, t) = r
    BY <1>4, RolledOn
  <2>2. r.start = t /\ r.previous = 0 /\ r.current = 0
    BY DEF WindowState
  <2>3. t - t = 0 /\ 0 * (Window - 0) + (0 + 1) * Window <= Limit * Window
    BY <1>1, Times
  <2>4. Admits(r, t)
    BY <1>1, <2>2, <2>3 DEF Admits
  <2> HIDE DEF r
  <2>5. QED
    BY <1>1, <1>4, <2>1, <2>4
<1>5. QED
  BY <1>1, <1>2, <1>3, <1>4

(***************************************************************************)
(* releaseIn: a refused caller waits until its window has rolled and       *)
(* decayed, or until the one before it has.                                *)
(***************************************************************************)
LEMMA TheWait ==
  ASSUME NEW s \in WindowState, NEW t \in Nat, t >= s.start, t - s.start < Window, ~Admits(s, t)
  PROVE  /\ RetryAfter(s, t) \in Nat
         /\ Admits(Roll(s, t + RetryAfter(s, t)), t + RetryAfter(s, t))
         /\ \A d \in 1..(RetryAfter(s, t) - 1) : ~Admits(Roll(s, t + d), t + d)
<1> DEFINE c == s.current
           p == s.previous
           u == Window - (t - s.start)
<1>1. /\ Window \in Nat \ {0} /\ Limit \in Nat \ {0} /\ s.start \in Nat
      /\ c \in Nat /\ p \in Nat /\ c <= Limit /\ u \in Nat \ {0} /\ u <= Window
  BY LimiterAssumption DEF WindowState
<1>2. ~(p * u + (c + 1) * Window <= Limit * Window)
  BY <1>1 DEF Admits
<1>3. ASSUME NEW d \in Nat
      PROVE  /\ d < u => (Admits(Roll(s, t + d), t + d) <=>
                            p * (u - d) + (c + 1) * Window <= Limit * Window)
             /\ d >= u /\ d < u + Window =>
                  (Admits(Roll(s, t + d), t + d) <=>
                     c * (Window - (d - u)) + Window <= Limit * Window)
             /\ d >= u + Window => Admits(Roll(s, t + d), t + d)
  <2>1. t + d \in Nat /\ t + d >= s.start /\ t + d - s.start = Window - u + d
    BY <1>1
  <2>3. \A x \in Nat : x >= s.start =>
          /\ x - s.start < Window =>
               (Admits(Roll(s, x), x) <=>
                  p * (Window - (x - s.start)) + (c + 1) * Window <= Limit * Window)
          /\ x - s.start >= Window /\ x - s.start < 2 * Window =>
               (Admits(Roll(s, x), x) <=>
                  c * (2 * Window - (x - s.start)) + Window <= Limit * Window)
          /\ x - s.start >= 2 * Window => Admits(Roll(s, x), x)
    BY AdmitsLater
  <2>5. PICK x \in Nat : x = t + d
    BY <2>1
  <2> HIDE DEF u, c, p
  <2>2. x >= s.start /\ x - s.start = Window - u + d
    BY <1>1, <2>1, <2>5
  <2>6. /\ d < u <=> x - s.start < Window
        /\ d >= u <=> x - s.start >= Window
        /\ d < u + Window <=> x - s.start < 2 * Window
        /\ d >= u + Window <=> x - s.start >= 2 * Window
        /\ Window - (x - s.start) = u - d
        /\ 2 * Window - (x - s.start) = Window - (d - u)
    BY <1>1, <2>2
  <2>7. /\ x - s.start < Window =>
             (Admits(Roll(s, x), x) <=>
                p * (Window - (x - s.start)) + (c + 1) * Window <= Limit * Window)
        /\ x - s.start >= Window /\ x - s.start < 2 * Window =>
             (Admits(Roll(s, x), x) <=>
                c * (2 * Window - (x - s.start)) + Window <= Limit * Window)
        /\ x - s.start >= 2 * Window => Admits(Roll(s, x), x)
    BY <2>2, <2>3
  <2>8. /\ d < u => (Admits(Roll(s, x), x) <=> p * (u - d) + (c + 1) * Window <= Limit * Window)
        /\ d >= u /\ d < u + Window =>
             (Admits(Roll(s, x), x) <=> c * (Window - (d - u)) + Window <= Limit * Window)
        /\ d >= u + Window => Admits(Roll(s, x), x)
    BY ONLY <2>6, <2>7, Zenon
  <2>9. QED
    BY <2>5, <2>8
<1>4. RetryAfter(s, t) =
        Most(1, IF c > Limit - 1
                THEN u + Least(Window, Ceil(Window * (c - (Limit - 1)), c))
                ELSE u - Least(u, (Window * (Limit - 1 - c)) \div Most(1, p)))
  BY DEF RetryAfter
<1> HIDE DEF c, p, u
<1>5. CASE c > Limit - 1
  <2> DEFINE q == (Window + Limit - 1) \div Limit
  <2>1. c = Limit
    BY <1>1, <1>5
  <2>2. Window * (c - (Limit - 1)) = Window
    BY <1>1, <2>1
  <2>3. Window + Limit - 1 \in Nat
    BY <1>1
  <2>4. q \in Nat /\ Limit * q <= Window + Limit - 1 /\ Window + Limit - 1 < Limit * q + Limit
    BY <1>1, <2>3, DivBounds
  <2>5. Ceil(Window * (c - (Limit - 1)), c) = q
    BY <2>1, <2>2 DEF Ceil
  <2> HIDE DEF q
  <2>6. Limit * q >= Window
    BY <1>1, <2>4
  <2>7. q >= 1
    BY <1>1, <2>4, <2>6
  <2>8. q <= Window
    <3>1. SUFFICES ASSUME q >= Window + 1 PROVE FALSE
      BY <1>1, <2>4
    <3>2. Limit * (Window + 1) <= Limit * q
      BY <1>1, <2>4, <3>1, Times
    <3>3. Limit * (Window + 1) = Limit * Window + Limit
      BY <1>1
    <3>4. Window <= Limit * Window
      BY <1>1, Times
    <3>5. QED
      BY <1>1, <2>4, <3>2, <3>3, <3>4
  <2>9. RetryAfter(s, t) = u + q
    BY <1>1, <1>4, <1>5, <2>4, <2>5, <2>7, <2>8 DEF Most, Least
  <2>10. Admits(Roll(s, t + (u + q)), t + (u + q))
    <3>1. CASE q = Window
      <4>1. u + q \in Nat /\ u + q >= u + Window
        BY <1>1, <3>1
      <4>2. QED
        BY <1>3, <4>1
    <3>2. CASE q < Window
      <4>1. Limit * (Window - q) + Window <= Limit * Window
        <5>1. Limit * (Window - q) = Limit * Window - Limit * q
          BY <1>1, <2>4
        <5>2. Limit * Window \in Nat /\ Limit * q \in Nat
          BY <1>1, <2>4
        <5>3. QED
          BY <1>1, <2>6, <5>1, <5>2
      <4>2. u + q \in Nat /\ u + q >= u /\ u + q < u + Window /\ u + q - u = q
        BY <1>1, <2>4, <3>2
      <4>3. PICK d \in Nat : d = u + q
        BY <4>2
      <4>4. Admits(Roll(s, t + d), t + d) <=> c * (Window - (d - u)) + Window <= Limit * Window
        BY <1>3, <4>2, <4>3
      <4>5. d - u = q
        BY <1>1, <2>4, <4>3
      <4>6. c * (Window - (d - u)) + Window <= Limit * Window
        BY <2>1, <4>1, <4>5
      <4>7. QED
        BY <4>3, <4>4, <4>6
    <3>3. QED
      BY <1>1, <2>4, <2>8, <3>1, <3>2
  <2>11. ASSUME NEW d \in 1..(u + q - 1)
         PROVE  ~Admits(Roll(s, t + d), t + d)
    <3>1. d \in Nat
      BY <1>1, <2>4
    <3>2. CASE d < u
      <4>1. /\ p * (u - d) \in Nat /\ (c + 1) * Window = Limit * Window + Window
            /\ Limit * Window \in Nat
        BY <1>1, <2>1, <3>1, <3>2
      <4>2. QED
        BY <1>1, <1>3, <3>1, <3>2, <4>1
    <3>3. CASE d >= u
      <4> DEFINE x == d - u
      <4>1. x \in Nat /\ x <= q - 1 /\ x < Window /\ d < u + Window
        BY <1>1, <2>4, <2>8, <3>1, <3>3
      <4>2. Limit * x < Window
        <5>1. Limit * x <= Limit * (q - 1)
          BY <1>1, <2>4, <2>7, <4>1, Times
        <5>2. Limit * (q - 1) = Limit * q - Limit
          BY <1>1, <2>4
        <5>3. Limit * q \in Nat /\ Limit * x \in Nat
          BY <1>1, <2>4, <4>1
        <5>4. QED
          BY <1>1, <2>4, <5>1, <5>2, <5>3
      <4>3. Limit * (Window - x) = Limit * Window - Limit * x
        BY <1>1, <4>1
      <4>4. Limit * Window \in Nat /\ Limit * x \in Nat
        BY <1>1, <4>1
      <4>5. ~(Limit * (Window - x) + Window <= Limit * Window)
        BY <1>1, <4>2, <4>3, <4>4
      <4>6. QED
        BY <1>3, <2>1, <3>1, <3>3, <4>1, <4>5
    <3>4. QED
      BY <1>1, <3>1, <3>2, <3>3
  <2>12. QED
    BY <1>1, <2>4, <2>9, <2>10, <2>11
<1>6. CASE c <= Limit - 1
  <2> DEFINE room == Limit - 1 - c
             q == (Window * room) \div p
  <2>1. room \in Nat /\ (c + 1) * Window = Limit * Window - room * Window
    BY <1>1, <1>6
  <2>2. /\ room * Window \in Nat /\ Limit * Window \in Nat /\ Window * room = room * Window
        /\ Window * room \in Nat
    BY <1>1, <2>1
  <2>3. \A x \in Nat : p * x \in Nat
    BY <1>1
  <2>4. \A x \in Nat : p * x + (c + 1) * Window <= Limit * Window <=> p * x <= room * Window
    BY <2>1, <2>2, <2>3
  <2>5. p * u > room * Window
    BY <1>1, <1>2, <2>2, <2>3, <2>4
  <2>6. p >= 1
    BY <1>1, <2>2, <2>5
  <2>7. q \in Nat /\ p * q <= room * Window /\ room * Window < p * q + p
    <3>1. p \in Nat \ {0} /\ Window * room \in Nat
      BY <1>1, <2>2, <2>6
    <3>2. q \in Nat /\ p * q <= Window * room /\ Window * room < p * q + p
      BY <3>1, DivBounds
    <3>3. QED
      BY <2>2, <3>2
  <2>8. Most(1, p) = p
    BY <1>1, <2>6 DEF Most
  <2>9. RetryAfter(s, t) = Most(1, u - Least(u, q))
    BY <1>1, <1>4, <1>6, <2>8
  <2> HIDE DEF q, room
  <2>10. q < u
    <3>1. SUFFICES ASSUME u <= q PROVE FALSE
      BY <1>1, <2>7
    <3>2. p * u <= p * q /\ p * u \in Nat /\ p * q \in Nat
      BY <1>1, <2>7, <3>1, Times
    <3>3. QED
      BY <2>2, <2>5, <2>7, <3>2
  <2>11. RetryAfter(s, t) = u - q /\ u - q \in Nat /\ u - q >= 1
    BY <1>1, <2>7, <2>9, <2>10 DEF Most, Least
  <2>12. Admits(Roll(s, t + (u - q)), t + (u - q))
    <3>1. CASE q = 0
      <4>1. c * Window + Window = (c + 1) * Window
        BY <1>1
      <4>2. c * (Window - 0) + Window <= Limit * Window
        BY <1>1, <2>1, <2>2, <4>1
      <4>3. u - q = u /\ u - u = 0 /\ u < u + Window /\ u >= u
        BY <1>1, <3>1
      <4>4. QED
        BY <1>1, <1>3, <4>2, <4>3
    <3>2. CASE q > 0
      <4>1. u - q < u /\ u - (u - q) = q
        BY <1>1, <2>7, <3>2
      <4>2. p * q + (c + 1) * Window <= Limit * Window
        BY <2>4, <2>7
      <4>3. QED
        BY <1>3, <2>11, <4>1, <4>2
    <3>3. QED
      BY <2>7, <3>1, <3>2
  <2>13. ASSUME NEW d \in 1..(u - q - 1)
         PROVE  ~Admits(Roll(s, t + d), t + d)
    <3>1. d \in Nat /\ d < u /\ u - d \in Nat /\ u - d >= q + 1
      BY <1>1, <2>7, <2>11
    <3>2. p * (q + 1) <= p * (u - d) /\ p * (q + 1) = p * q + p
      BY <1>1, <2>7, <3>1, Times
    <3>3. ~(p * (u - d) <= room * Window)
      BY <1>1, <2>2, <2>3, <2>7, <3>1, <3>2
    <3>4. QED
      BY <1>3, <2>4, <3>1, <3>3
  <2>14. QED
    BY <2>11, <2>12, <2>13
<1>7. QED
  BY <1>1, <1>5, <1>6


(***************************************************************************)
(* What the limiter remembers of a caller, set against when it was let     *)
(* through.                                                                *)
(***************************************************************************)

\* Nothing of the sequence counts at t.
Past(A, t) == \A i \in DOMAIN A : A[i] + Window < t

\* The last `current' of the sequence fall into the window of s, at most the `previous' before
\* them into the window before, and nothing later.
Fits(s, A) ==
  /\ s.current + s.previous <= Len(A)
  /\ \A i \in 1..Len(A) :
       /\ A[i] < s.start + Window
       /\ i <= Len(A) - s.current => A[i] < s.start
       /\ i <= Len(A) - s.current - s.previous => A[i] + Window < s.start

\* What still counts has a deadline that is not yet over when it does.
Deadline(s) ==
  /\ s.current > 0 => s.deadAt >= s.start + 2 * Window
  /\ s.previous > 0 => s.deadAt >= s.start + Window

Bounded(A) ==
  \A i, j \in DOMAIN A :
    i <= j /\ A[j] - A[i] < Window => j - i + 1 <= Limit + Ceil(Limit * (A[j] - A[i]), Window)

\* What has a value of which kind.
LimiterTyped ==
  /\ now \in Nat
  /\ DOMAIN windows \subseteq Keys
  /\ \A k \in DOMAIN windows :
       windows[k] \in WindowState /\ windows[k].start <= now /\ Deadline(windows[k])
  /\ admitted \in [Keys -> Seq(Nat)]
  /\ \A k \in Keys : \A i \in DOMAIN admitted[k] : admitted[k][i] <= now

\* A caller not evicted has its history in its state, or a history that no longer counts.
Remembered(k) ==
  /\ Bounded(admitted[k])
  /\ IF k \in DOMAIN windows THEN Fits(windows[k], admitted[k]) ELSE Past(admitted[k], now)

\* The inductive invariant.
LInv == LimiterTyped /\ \A k \in Keys \ forgotten : Remembered(k)

LEMMA LimitFacts == Window \in Nat \ {0} /\ Limit \in Nat \ {0} /\ MaxKeys \in Nat
BY LimiterAssumption

\* Rolling a state keeps what it remembers.
LEMMA RollKeeps ==
  ASSUME NEW s \in WindowState, NEW t \in Nat, t >= s.start, Deadline(s)
  PROVE  /\ Roll(s, t) \in WindowState /\ Roll(s, t).start <= t /\ t - Roll(s, t).start < Window
         /\ Deadline(Roll(s, t))
         /\ \A A \in Seq(Nat) : Fits(s, A) => Fits(Roll(s, t), A)
<1>1. /\ s.start \in Nat /\ s.current \in 0..Limit /\ s.previous \in 0..Limit /\ s.deadAt \in Nat
      /\ s = [start |-> s.start, current |-> s.current, previous |-> s.previous, deadAt |-> s.deadAt]
  BY DEF WindowState
<1>2. \A A \in Seq(Nat) : Len(A) \in Nat /\ \A i \in 1..Len(A) : A[i] \in Nat
  BY LenProperties, ElementOfSeq
<1>3. CASE t - s.start < Window
  BY <1>1, <1>3, RolledOn
<1>4. CASE t - s.start >= Window /\ t - s.start < 2 * Window
  <2>1. Roll(s, t) = [s EXCEPT !.start = s.start + Window, !.previous = s.current, !.current = 0]
    BY <1>4, RolledOn
  <2>2. Roll(s, t) = [start |-> s.start + Window, current |-> 0, previous |-> s.current,
                      deadAt |-> s.deadAt]
    BY <1>1, <2>1
  <2> DEFINE r == Roll(s, t)
  <2>3. /\ r.start = s.start + Window /\ r.current = 0 /\ r.previous = s.current
        /\ r.deadAt = s.deadAt /\ r \in WindowState
    BY <1>1, <2>2, LimitFacts DEF WindowState
  <2> HIDE DEF r
  <2>4. r.start <= t /\ t - r.start < Window /\ Deadline(r)
    BY <1>1, <1>4, <2>3, LimitFacts DEF Deadline
  <2>5. ASSUME NEW A \in Seq(Nat), Fits(s, A) PROVE Fits(r, A)
    <3> DEFINE n == Len(A)
    <3>1. /\ n \in Nat /\ s.current + s.previous <= n
          /\ \A i \in 1..n :
               /\ A[i] \in Nat /\ A[i] < s.start + Window
               /\ i <= n - s.current => A[i] < s.start
               /\ i <= n - s.current - s.previous => A[i] + Window < s.start
      BY <1>2, <2>5 DEF Fits
    <3> HIDE DEF n
    <3>2. r.current + r.previous <= n
      BY <1>1, <2>3, <3>1
    <3>3. ASSUME NEW i \in 1..n
          PROVE  /\ A[i] < r.start + Window
                 /\ i <= n - r.current => A[i] < r.start
                 /\ i <= n - r.current - r.previous => A[i] + Window < r.start
      BY <1>1, <2>3, <3>1, LimitFacts
    <3>4. QED
      BY <3>2, <3>3 DEF Fits, n
  <2>6. QED
    BY <2>3, <2>4, <2>5 DEF r
<1>5. CASE t - s.start >= 2 * Window
  <2>1. Roll(s, t) = [s EXCEPT !.start = t, !.current = 0, !.previous = 0]
    BY <1>5, RolledOn
  <2>2. Roll(s, t) = [start |-> t, current |-> 0, previous |-> 0, deadAt |-> s.deadAt]
    BY <1>1, <2>1
  <2> DEFINE r == Roll(s, t)
  <2>3. /\ r.start = t /\ r.current = 0 /\ r.previous = 0
        /\ r.deadAt = s.deadAt /\ r \in WindowState
    BY <1>1, <2>2, LimitFacts DEF WindowState
  <2> HIDE DEF r
  <2>4. r.start <= t /\ t - r.start < Window /\ Deadline(r)
    BY <1>1, <2>3, LimitFacts DEF Deadline
  <2>5. ASSUME NEW A \in Seq(Nat), Fits(s, A) PROVE Fits(r, A)
    <3> DEFINE n == Len(A)
    <3>1. /\ n \in Nat /\ s.current + s.previous <= n
          /\ \A i \in 1..n :
               /\ A[i] \in Nat /\ A[i] < s.start + Window
               /\ i <= n - s.current => A[i] < s.start
               /\ i <= n - s.current - s.previous => A[i] + Window < s.start
      BY <1>2, <2>5 DEF Fits
    <3> HIDE DEF n
    <3>2. r.current + r.previous <= n
      BY <1>1, <2>3, <3>1
    <3>3. ASSUME NEW i \in 1..n
          PROVE  /\ A[i] < r.start + Window
                 /\ i <= n - r.current => A[i] < r.start
                 /\ i <= n - r.current - r.previous => A[i] + Window < r.start
      <4>1. s.start \in Nat /\ s.start + 2 * Window <= t
        BY <1>1, <1>5, LimitFacts
      <4>2. A[i] \in Nat /\ A[i] < s.start + Window
        BY <3>1
      <4>3. A[i] + Window < t
        BY <4>1, <4>2, LimitFacts
      <4>4. QED
        BY <2>3, <4>2, <4>3, LimitFacts
    <3>4. QED
      BY <3>2, <3>3 DEF Fits, n
  <2>6. QED
    BY <2>3, <2>4, <2>5 DEF r
<1>6. QED
  BY <1>1, <1>3, <1>4, <1>5, LimitFacts

\* A dead state remembers nothing that counts.
LEMMA DeadIsPast ==
  ASSUME NEW s \in WindowState, NEW t \in Nat, t >= s.start, Deadline(s), s.deadAt <= t,
         NEW A \in Seq(Nat), Fits(s, A)
  PROVE  Past(A, t)
<1>1. /\ s.start \in Nat /\ s.current \in Nat /\ s.previous \in Nat /\ s.deadAt \in Nat
  BY LimitFacts DEF WindowState
<1>2. Len(A) \in Nat /\ DOMAIN A = 1..Len(A) /\ \A i \in 1..Len(A) : A[i] \in Nat
  BY LenProperties, ElementOfSeq
<1>3. ASSUME NEW i \in 1..Len(A) PROVE A[i] + Window < t
  <2> DEFINE n == Len(A)
  <2>0. /\ i \in 1..n /\ n \in Nat /\ A[i] \in Nat /\ A[i] < s.start + Window
        /\ i <= n - s.current => A[i] < s.start
        /\ i <= n - s.current - s.previous => A[i] + Window < s.start
    BY <1>2 DEF Fits
  <2> HIDE DEF n
  <2>1. CASE s.current > 0
    <3>1. s.start + 2 * Window <= t
      BY <1>1, <2>1, LimitFacts DEF Deadline
    <3>2. QED
      BY <1>1, <2>0, <3>1, LimitFacts
  <2>2. CASE s.current = 0 /\ s.previous > 0
    BY <1>1, <2>0, <2>2, LimitFacts DEF Deadline
  <2>3. CASE s.current = 0 /\ s.previous = 0
    BY <1>1, <2>0, <2>3, LimitFacts
  <2>4. QED
    BY <1>1, <2>1, <2>2, <2>3
<1>4. QED
  BY <1>2, <1>3 DEF Past

LEMMA CeilIs ==
  ASSUME NEW a \in Nat
  PROVE  Ceil(a, Window) \in Nat /\ a <= Window * Ceil(a, Window)
<1>1. a + Window - 1 \in Nat
  BY LimitFacts
<1>2. Ceil(a, Window) \in Nat /\ a + Window - 1 < Window * Ceil(a, Window) + Window
  BY <1>1, LimitFacts, DivBounds DEF Ceil
<1>3. Window * Ceil(a, Window) \in Nat
  BY <1>2, LimitFacts
<1>4. QED
  BY <1>2, <1>3, LimitFacts

\* What the estimate lets through is within the limit, and the share of it that a span of more
\* than the time since the window began makes.
LEMMA EstimateBounds ==
  ASSUME NEW s \in WindowState, NEW e \in Nat, e < Window,
         s.previous * (Window - e) + (s.current + 1) * Window <= Limit * Window
  PROVE  /\ s.current + 1 <= Limit
         /\ \A span \in Nat : span >= e =>
              s.previous + s.current + 1 <= Limit + Ceil(Limit * span, Window)
<1> DEFINE p == s.previous
           c == s.current
<1>1. p \in Nat /\ c \in Nat /\ p <= Limit /\ Window - e \in Nat
  BY LimitFacts DEF WindowState
<1> HIDE DEF p, c
<1>2. p * (Window - e) + (c + 1) * Window <= Limit * Window
  BY DEF p, c
<1>3. p * (Window - e) \in Nat /\ (c + 1) * Window \in Nat /\ Limit * Window \in Nat
  BY <1>1, LimitFacts
<1>4. c + 1 <= Limit
  <2>1. SUFFICES ASSUME Limit + 1 <= c + 1 PROVE FALSE
    BY <1>1, LimitFacts
  <2>2. (Limit + 1) * Window <= (c + 1) * Window
    BY <1>1, <2>1, LimitFacts, Times
  <2>3. (Limit + 1) * Window = Limit * Window + Window
    BY LimitFacts
  <2>4. QED
    BY <1>2, <1>3, <2>2, <2>3, LimitFacts
<1>5. ASSUME NEW span \in Nat, span >= e
      PROVE  p + c + 1 <= Limit + Ceil(Limit * span, Window)
  <2>1. Limit * span \in Nat /\ p * e <= Limit * e /\ Limit * e <= Limit * span /\ p * e \in Nat
        /\ Limit * e \in Nat
    BY <1>1, <1>5, LimitFacts, Times
  <2>2. p * (Window - e) = p * Window - p * e /\ p * Window \in Nat
    BY <1>1, LimitFacts
  <2>3. p * Window + (c + 1) * Window <= Limit * Window + Limit * span
    BY <1>2, <1>3, <2>1, <2>2
  <2> DEFINE m == Ceil(Limit * span, Window)
  <2>4. m \in Nat /\ Limit * span <= Window * m
    BY <2>1, CeilIs
  <2> HIDE DEF m
  <2>5. SUFFICES ASSUME Limit + m + 1 <= p + c + 1 PROVE FALSE
    BY <1>1, <2>4, LimitFacts DEF m
  <2>6. (Limit + m + 1) * Window <= (p + (c + 1)) * Window
    BY <1>1, <2>4, <2>5, LimitFacts, Times
  <2>7. /\ (p + (c + 1)) * Window = p * Window + (c + 1) * Window
        /\ (Limit + m + 1) * Window = Limit * Window + Window * m + Window
        /\ Window * m \in Nat
    BY <1>1, <2>4, LimitFacts
  <2>8. QED
    BY <1>3, <2>1, <2>2, <2>3, <2>4, <2>6, <2>7, LimitFacts
<1>6. QED
  BY <1>1, <1>4, <1>5, LimitFacts DEF p, c

\* One more is let through.
LEMMA OneMoreLet ==
  ASSUME NEW s \in WindowState, NEW t \in Nat, s.start <= t, t - s.start < Window,
         Deadline(s), Admits(s, t)
  PROVE  /\ Admit(s) \in WindowState /\ Admit(s).start = s.start /\ Deadline(Admit(s))
         /\ \A A \in Seq(Nat) :
              Fits(s, A) /\ Bounded(A) /\ (\A i \in DOMAIN A : A[i] <= t) =>
                Fits(Admit(s), Append(A, t)) /\ Bounded(Append(A, t))
<1>1. /\ s.start \in Nat /\ s.current \in Nat /\ s.previous \in Nat /\ s.deadAt \in Nat
  BY LimitFacts DEF WindowState
<1>2. /\ s.current + 1 <= Limit
      /\ \A span \in Nat : span >= t - s.start =>
           s.previous + s.current + 1 <= Limit + Ceil(Limit * span, Window)
  <2>1. t - s.start \in Nat
    BY <1>1
  <2>2. s.previous * (Window - (t - s.start)) + (s.current + 1) * Window <= Limit * Window
    BY DEF Admits
  <2>3. QED
    BY <2>1, <2>2, EstimateBounds
<1> DEFINE r == Admit(s)
<1>4. /\ r.start = s.start /\ r.current = s.current + 1 /\ r.previous = s.previous
      /\ r.deadAt = s.start + 2 * Window
  BY DEF Admit, WindowState
<1>5. r \in WindowState
  <2>1. s.current + 1 \in 0..Limit /\ s.start + 2 * Window \in Nat
    BY <1>1, <1>2, LimitFacts
  <2>2. QED
    BY <2>1 DEF Admit, WindowState
<1>6. Deadline(r)
  BY <1>1, <1>4, LimitFacts DEF Deadline
<1> HIDE DEF r
<1>7. ASSUME NEW A \in Seq(Nat), Fits(s, A), Bounded(A), \A i \in DOMAIN A : A[i] <= t
      PROVE  Fits(r, Append(A, t)) /\ Bounded(Append(A, t))
  <2> DEFINE n == Len(A)
             B == Append(A, t)
  <2>1. n \in Nat /\ DOMAIN A = 1..n /\ \A i \in 1..n : A[i] \in Nat
    BY LenProperties, ElementOfSeq
  <2>2. /\ Len(B) = n + 1 /\ DOMAIN B = 1..(n + 1) /\ B[n + 1] = t
        /\ \A i \in 1..n : B[i] = A[i]
    BY <2>1, AppendProperties, LenProperties
  <2> HIDE DEF n, B
  <2>3. /\ s.current + s.previous <= n
        /\ \A i \in 1..n :
             /\ A[i] < s.start + Window
             /\ i <= n - s.current => A[i] < s.start
             /\ i <= n - s.current - s.previous => A[i] + Window < s.start
    BY <1>7 DEF Fits, n
  <2>4. Fits(r, B)
    <3>1. r.current + r.previous <= n + 1
      BY <1>1, <1>4, <2>1, <2>3
    <3>2. ASSUME NEW i \in 1..(n + 1)
          PROVE  /\ B[i] < r.start + Window
                 /\ i <= (n + 1) - r.current => B[i] < r.start
                 /\ i <= (n + 1) - r.current - r.previous => B[i] + Window < r.start
      <4>1. CASE i = n + 1
        <5>1. B[i] < r.start + Window
          BY <1>1, <1>4, <2>2, <4>1, LimitFacts
        <5>2. ~(i <= (n + 1) - r.current) /\ ~(i <= (n + 1) - r.current - r.previous)
          BY <1>1, <1>4, <2>1, <4>1
        <5>3. QED
          BY <5>1, <5>2
      <4>2. CASE i # n + 1
        <5>1. i \in 1..n
          BY <2>1, <4>2
        <5>2. (n + 1) - r.current = n - s.current
          <6>1. \A x, y \in Nat : (x + 1) - (y + 1) = x - y
            OBVIOUS
          <6>2. (n + 1) - (s.current + 1) = n - s.current
            BY <1>1, <2>1, <6>1
          <6>3. QED
            BY <1>4, <6>2
        <5>3. (n + 1) - r.current - r.previous = n - s.current - s.previous
          BY <1>4, <5>2
        <5>4. QED
          BY <1>4, <2>2, <2>3, <5>1, <5>2, <5>3
      <4>3. QED
        BY <4>1, <4>2
    <3> DEFINE G(m) == /\ r.current + r.previous <= m
                       /\ \A i \in 1..m :
                            /\ B[i] < r.start + Window
                            /\ i <= m - r.current => B[i] < r.start
                            /\ i <= m - r.current - r.previous => B[i] + Window < r.start
    <3>3. G(n + 1)
      BY <3>1, <3>2
    <3>4. G(Len(B)) => Fits(r, B)
      BY DEF Fits
    <3> HIDE DEF G
    <3>5. QED
      BY <2>2, <3>3, <3>4
  <2>5. ASSUME NEW i \in 1..(n + 1), t - B[i] < Window
        PROVE  (n + 1) - i + 1 <= Limit + Ceil(Limit * (t - B[i]), Window)
    <3>1. B[i] \in Nat /\ B[i] <= t
      BY <1>7, <2>1, <2>2
    <3>2. PICK span \in Nat : span = t - B[i]
      BY <3>1
    <3>3. Limit * span \in Nat
      BY <3>2, LimitFacts
    <3>4. PICK share \in Nat : share = Ceil(Limit * span, Window)
      BY <3>3, CeilIs
    <3>45. /\ span >= t - s.start => s.previous + s.current + 1 <= Limit + share
           /\ s.current + 1 <= Limit
      BY <1>2, <3>4
    <3>46. SUFFICES (n + 1) - i + 1 <= Limit + share
      BY <3>2, <3>4
    <3>5. CASE i > n - s.current
      BY <1>1, <2>1, <3>45, <3>5, LimitFacts
    <3>6. CASE i <= n - s.current /\ i > n - s.current - s.previous
      <4>1. B[i] < s.start
        BY <1>1, <2>1, <2>2, <2>3, <3>6
      <4>2. span >= t - s.start
        BY <1>1, <3>1, <3>2, <4>1
      <4>3. (n + 1) - i + 1 <= s.previous + s.current + 1
        BY <1>1, <2>1, <3>6
      <4>4. s.previous + s.current + 1 <= Limit + share
        BY <3>45, <4>2
      <4>5. QED
        BY <1>1, <2>1, <4>3, <4>4, LimitFacts
    <3>7. CASE i <= n - s.current - s.previous
      <4>1. i \in 1..n /\ A[i] + Window < s.start
        BY <1>1, <2>1, <2>3, <3>7
      <4>2. QED
        BY <1>1, <2>1, <2>2, <2>5, <4>1, LimitFacts
    <3>8. QED
      BY <1>1, <2>1, <3>5, <3>6, <3>7
  <2>6. ASSUME NEW i \in 1..n, NEW j \in 1..n, i <= j, B[j] - B[i] < Window
        PROVE  j - i + 1 <= Limit + Ceil(Limit * (B[j] - B[i]), Window)
    <3>1. B[i] = A[i] /\ B[j] = A[j]
      BY <2>2
    <3>2. A[j] - A[i] < Window
      BY <2>6, <3>1
    <3>3. j - i + 1 <= Limit + Ceil(Limit * (A[j] - A[i]), Window)
      BY <1>7, <2>1, <2>6, <3>2 DEF Bounded
    <3>4. QED
      BY <3>1, <3>3
  <2>7. ASSUME NEW i \in 1..(n + 1), NEW j \in 1..(n + 1), i <= j, B[j] - B[i] < Window
        PROVE  j - i + 1 <= Limit + Ceil(Limit * (B[j] - B[i]), Window)
    <3>1. CASE j = n + 1
      BY <2>2, <2>5, <2>7, <3>1
    <3>2. CASE j # n + 1
      <4>1. i \in 1..n /\ j \in 1..n
        BY <2>1, <2>7, <3>2
      <4>2. QED
        BY <2>6, <2>7, <4>1
    <3>3. QED
      BY <3>1, <3>2
  <2>8. Bounded(B)
    BY <2>2, <2>7 DEF Bounded
  <2>9. QED
    BY <2>4, <2>8 DEF B
<1>8. QED
  BY <1>4, <1>5, <1>6, <1>7 DEF r

\* A state anew, for a caller with no history that counts.
LEMMA NothingFits ==
  ASSUME NEW A \in Seq(Nat), NEW s, s.current = 0, s.previous = 0, s.start \in Nat,
         Past(A, s.start)
  PROVE  Fits(s, A)
<1> DEFINE n == Len(A)
<1>1. n \in Nat /\ DOMAIN A = 1..n /\ \A i \in 1..n : A[i] \in Nat /\ A[i] + Window < s.start
  BY LenProperties, ElementOfSeq DEF Past
<1> HIDE DEF n
<1>2. s.current + s.previous <= n
  BY <1>1
<1>3. ASSUME NEW i \in 1..n
      PROVE  A[i] < s.start + Window /\ A[i] < s.start /\ A[i] + Window < s.start
  BY <1>1, LimitFacts
<1>4. QED
  BY <1>2, <1>3 DEF Fits, n

\* The state a try is judged by.
LEMMA StateIs ==
  ASSUME LInv, NEW k \in Keys, NEW kept \in SUBSET DOMAIN windows,
         NEW s, s = StateOf([x \in kept |-> windows[x]], k, now)
  PROVE  /\ s \in WindowState /\ s.start <= now /\ now - s.start < Window /\ Deadline(s)
         /\ k \notin forgotten /\ (k \in DOMAIN windows \ kept => Dead(k)) => Fits(s, admitted[k])
<1>1. LimiterTyped /\ now \in Nat /\ admitted[k] \in Seq(Nat)
  BY DEF LInv, LimiterTyped
<1>2. CASE k \in kept
  <2>1. s = Roll(windows[k], now)
    BY <1>2 DEF StateOf
  <2>2. windows[k] \in WindowState /\ windows[k].start <= now /\ Deadline(windows[k])
    BY <1>1, <1>2 DEF LimiterTyped
  <2>3. k \notin forgotten => Fits(windows[k], admitted[k])
    BY <1>2 DEF LInv, Remembered
  <2>4. windows[k].start \in Nat
    BY <2>2 DEF WindowState
  <2>5. QED
    BY <1>1, <2>1, <2>2, <2>3, <2>4, RollKeeps
<1>3. CASE k \notin kept
  <2>1. s = [start |-> now, current |-> 0, previous |-> 0, deadAt |-> now + 2 * Window]
    BY <1>3 DEF StateOf
  <2>2. s \in WindowState /\ s.start <= now /\ now - s.start < Window /\ Deadline(s)
    BY <1>1, <2>1, LimitFacts DEF WindowState, Deadline
  <2>3. ASSUME k \notin forgotten, k \in DOMAIN windows \ kept => Dead(k)
        PROVE  Fits(s, admitted[k])
    <3>1. Remembered(k)
      BY <2>3 DEF LInv
    <3>2. CASE k \notin DOMAIN windows
      <4>1. Past(admitted[k], now)
        BY <3>1, <3>2 DEF Remembered
      <4>2. QED
        BY <1>1, <2>1, <4>1, NothingFits
    <3>3. CASE k \in DOMAIN windows
      <4>1. Fits(windows[k], admitted[k]) /\ windows[k].deadAt <= now
        BY <1>3, <2>3, <3>1, <3>3 DEF Remembered, Dead
      <4>2. windows[k] \in WindowState /\ windows[k].start <= now /\ Deadline(windows[k])
        BY <1>1, <3>3 DEF LimiterTyped
      <4>3. windows[k].start \in Nat
        BY <4>2 DEF WindowState
      <4>4. Past(admitted[k], now)
        BY <1>1, <4>1, <4>2, <4>3, DeadIsPast
      <4>5. QED
        BY <1>1, <2>1, <4>4, NothingFits
    <3>4. QED
      BY <3>2, <3>3
  <2>4. QED
    BY <2>2, <2>3
<1>4. QED
  BY <1>2, <1>3

LEMMA HitStep ==
  ASSUME LInv, NEW k \in Keys, Hit(k)
  PROVE  LInv'
<1>1. PICK kept \in Keepable :
        LET s == StateOf([x \in kept |-> windows[x]], k, now)
        IN /\ windows' = With([x \in kept |-> windows[x]], k, IF Admits(s, now) THEN Admit(s) ELSE s)
           /\ admitted' = IF Admits(s, now) THEN [admitted EXCEPT ![k] = Append(@, now)] ELSE admitted
           /\ forgotten' = forgotten \cup {x \in DOMAIN windows \ kept : ~Dead(x)}
  BY DEF Hit
<1>2. kept \in SUBSET DOMAIN windows
  BY DEF Keepable
<1> DEFINE s == StateOf([x \in kept |-> windows[x]], k, now)
           r == IF Admits(s, now) THEN Admit(s) ELSE s
<1>3. /\ DOMAIN windows' = kept \cup {k}
      /\ windows'[k] = r
      /\ \A x \in kept \ {k} : windows'[x] = windows[x]
  BY <1>1 DEF With
<1>4. /\ admitted' = IF Admits(s, now) THEN [admitted EXCEPT ![k] = Append(admitted[k], now)] ELSE admitted
      /\ forgotten' = forgotten \cup {x \in DOMAIN windows \ kept : ~Dead(x)}
      /\ now' = now
  BY <1>1 DEF Hit
<1>5. /\ s \in WindowState /\ s.start <= now /\ now - s.start < Window /\ Deadline(s)
      /\ k \notin forgotten /\ (k \in DOMAIN windows \ kept => Dead(k)) => Fits(s, admitted[k])
  BY <1>2, StateIs
<1> HIDE DEF s
<1>6. /\ LimiterTyped /\ now \in Nat /\ admitted \in [Keys -> Seq(Nat)]
      /\ \A x \in Keys : \A i \in DOMAIN admitted[x] : admitted[x][i] <= now
      /\ DOMAIN windows \subseteq Keys
      /\ \A x \in DOMAIN windows :
           windows[x] \in WindowState /\ windows[x].start <= now /\ Deadline(windows[x])
  BY DEF LInv, LimiterTyped
<1>7. admitted[k] \in Seq(Nat) /\ \A i \in DOMAIN admitted[k] : admitted[k][i] <= now
  BY <1>6
<1>8. Admits(s, now) =>
        /\ Admit(s) \in WindowState /\ Admit(s).start = s.start /\ Deadline(Admit(s))
        /\ Fits(s, admitted[k]) /\ Bounded(admitted[k]) =>
             Fits(Admit(s), Append(admitted[k], now)) /\ Bounded(Append(admitted[k], now))
  BY <1>5, <1>6, <1>7, OneMoreLet
<1>9. r \in WindowState /\ r.start <= now /\ Deadline(r)
  BY <1>5, <1>8
<1>10. /\ admitted'[k] = IF Admits(s, now) THEN Append(admitted[k], now) ELSE admitted[k]
       /\ \A x \in Keys \ {k} : admitted'[x] = admitted[x]
  BY <1>4, <1>6
<1>11. admitted' \in [Keys -> Seq(Nat)]
  <2>1. Append(admitted[k], now) \in Seq(Nat)
    BY <1>6, <1>7, AppendProperties
  <2>2. QED
    BY <1>4, <1>6, <2>1
<1>12. \A x \in Keys : \A i \in DOMAIN admitted'[x] : admitted'[x][i] <= now
  <2>1. \A i \in DOMAIN Append(admitted[k], now) : Append(admitted[k], now)[i] <= now
    <3>1. \A i \in DOMAIN Append(admitted[k], now) :
            i = Len(admitted[k]) + 1 \/ i \in DOMAIN admitted[k]
      BY <1>6, <1>7, AppendProperties, LenProperties
    <3>2. /\ Append(admitted[k], now)[Len(admitted[k]) + 1] = now
          /\ \A i \in DOMAIN admitted[k] : Append(admitted[k], now)[i] = admitted[k][i]
      BY <1>6, <1>7, AppendProperties, LenProperties
    <3>3. QED
      BY <1>6, <1>7, <3>1, <3>2
  <2>2. QED
    BY <1>6, <1>10, <2>1
<1> HIDE DEF r
<1>13. LimiterTyped'
  BY <1>2, <1>3, <1>4, <1>6, <1>9, <1>11, <1>12 DEF LimiterTyped
<1>14. ASSUME NEW x \in Keys \ forgotten' PROVE Remembered(x)'
  <2>1. x \notin forgotten /\ (x \in DOMAIN windows \ kept => Dead(x)) /\ Remembered(x)
    BY <1>4, <1>14 DEF LInv
  <2>2. CASE x = k
    <3>1. Fits(s, admitted[k]) /\ Bounded(admitted[k])
      BY <1>5, <2>1, <2>2 DEF Remembered
    <3>2. Fits(r, admitted'[k]) /\ Bounded(admitted'[k])
      BY <1>8, <1>10, <3>1 DEF r
    <3>3. QED
      BY <1>3, <2>2, <3>2 DEF Remembered
  <2>3. CASE x # k /\ x \in kept
    <3>1. /\ Bounded(admitted[x]) /\ Fits(windows[x], admitted[x])
          /\ windows'[x] = windows[x] /\ admitted'[x] = admitted[x] /\ x \in DOMAIN windows'
      BY <1>2, <1>3, <1>10, <2>1, <2>3 DEF Remembered
    <3>2. QED
      BY <3>1 DEF Remembered
  <2>4. CASE x # k /\ x \notin kept
    <3>1. Bounded(admitted[x]) /\ admitted'[x] = admitted[x] /\ x \notin DOMAIN windows'
      BY <1>3, <1>10, <2>1, <2>4 DEF Remembered
    <3>2. Past(admitted[x], now)
      <4>1. CASE x \notin DOMAIN windows
        BY <2>1, <4>1 DEF Remembered
      <4>2. CASE x \in DOMAIN windows
        <5>1. windows[x].deadAt <= now /\ Fits(windows[x], admitted[x])
          BY <2>1, <2>4, <4>2 DEF Remembered, Dead
        <5>2. windows[x] \in WindowState /\ windows[x].start <= now /\ Deadline(windows[x])
              /\ admitted[x] \in Seq(Nat)
          BY <1>6, <4>2
        <5>3. windows[x].start \in Nat
          BY <5>2 DEF WindowState
        <5>4. QED
          BY <1>6, <5>1, <5>2, <5>3, DeadIsPast
      <4>3. QED
        BY <4>1, <4>2
    <3>3. QED
      BY <1>4, <3>1, <3>2 DEF Remembered
  <2>5. QED
    BY <2>2, <2>3, <2>4
<1>15. QED
  BY <1>13, <1>14 DEF LInv

\* Time goes by, or another part of the process acts.
LEMMA LimiterIdleStep ==
  ASSUME LInv, UNCHANGED limiterVars, now' \in Nat, now' >= now
  PROVE  LInv'
<1>1. /\ LimiterTyped /\ now \in Nat /\ admitted \in [Keys -> Seq(Nat)]
      /\ \A x \in Keys : \A i \in DOMAIN admitted[x] : admitted[x][i] <= now
      /\ DOMAIN windows \subseteq Keys
      /\ \A x \in DOMAIN windows :
           windows[x] \in WindowState /\ windows[x].start <= now /\ Deadline(windows[x])
      /\ windows' = windows /\ forgotten' = forgotten /\ admitted' = admitted
  BY DEF LInv, LimiterTyped, limiterVars
<1>2. \A x \in Keys : \A i \in DOMAIN admitted[x] : admitted[x][i] \in Nat
  BY <1>1, ElementOfSeq, LenProperties
<1>3. \A x \in DOMAIN windows : windows[x].start \in Nat
  BY <1>1 DEF WindowState
<1>4. LimiterTyped'
  <2>1. \A x \in DOMAIN windows : windows[x].start <= now'
    BY <1>1, <1>3
  <2>2. \A x \in Keys : \A i \in DOMAIN admitted[x] : admitted[x][i] <= now'
    BY <1>1, <1>2
  <2>3. QED
    BY <1>1, <2>1, <2>2 DEF LimiterTyped
<1>5. ASSUME NEW x \in Keys \ forgotten PROVE Remembered(x)'
  <2>1. Remembered(x)
    BY <1>5 DEF LInv
  <2>2. Past(admitted[x], now) => Past(admitted[x], now')
    BY <1>1, <1>2, LimitFacts DEF Past
  <2>3. QED
    BY <1>1, <2>1, <2>2 DEF Remembered
<1>6. QED
  BY <1>1, <1>4, <1>5 DEF LInv

\* The process dies: who was tracked counts as evicted.
LEMMA LimiterLostStep ==
  ASSUME LInv, LimiterLost, now' = now
  PROVE  LInv'
<1>1. /\ windows' = <<>> /\ forgotten' = forgotten \cup DOMAIN windows /\ admitted' = admitted
      /\ DOMAIN windows' = {}
  BY DEF LimiterLost
<1>2. LimiterTyped'
  BY <1>1 DEF LInv, LimiterTyped
<1>3. ASSUME NEW x \in Keys \ forgotten' PROVE Remembered(x)'
  <2>1. Remembered(x) /\ x \notin DOMAIN windows
    BY <1>1, <1>3 DEF LInv
  <2>2. QED
    BY <1>1, <2>1 DEF Remembered
<1>4. QED
  BY <1>2, <1>3 DEF LInv

LEMMA InitLimiter == Init => LInv
<1> SUFFICES ASSUME Init PROVE LInv
  OBVIOUS
<1>1. windows = <<>> /\ admitted = [k \in Keys |-> <<>>] /\ now = 0 /\ DOMAIN windows = {}
  BY DEF Init, LimiterInit
<1>2. <<>> \in Seq(Nat) /\ DOMAIN <<>> = {}
  BY EmptySeq
<1>3. \A k \in Keys : admitted[k] \in Seq(Nat) /\ DOMAIN admitted[k] = {}
  BY <1>1, <1>2
<1>4. LimiterTyped
  BY <1>1, <1>2, <1>3 DEF LimiterTyped
<1>5. \A k \in Keys : Remembered(k)
  BY <1>1, <1>3 DEF Remembered, Bounded, Past
<1>6. QED
  BY <1>4, <1>5 DEF LInv

\* The invariant is inductive.
LEMMA StepLimiter == LInv /\ [Next]_vars => LInv'
<1> SUFFICES ASSUME LInv, [Next]_vars PROVE LInv'
  OBVIOUS
<1>1. now \in Nat
  BY DEF LInv, LimiterTyped
<1>2. CASE LimiterNext
  BY <1>2, HitStep DEF LimiterNext
<1>3. CASE (AccountsNext \/ AccessNext \/ FeedNext \/ BootstrapNext \/ RewardsPageNext)
           /\ UNCHANGED limiterVars
  BY <1>1, <1>3, ClockStands, LimiterIdleStep
<1>4. CASE Tick
  BY <1>1, <1>4, LimiterIdleStep DEF Tick
<1>5. CASE Restart
  BY <1>5, LimiterLostStep DEF Restart
<1>6. CASE UNCHANGED vars
  BY <1>1, <1>6, LimiterIdleStep DEF vars
<1>7. QED
  BY <1>2, <1>3, <1>4, <1>5, <1>6 DEF Next

(***************************************************************************)
(* A refused caller is told the first second at which it would be let      *)
(* through (releaseIn).                                                    *)
(***************************************************************************)
THEOREM TheWaitIsTrue == Spec => []RetryAfterIsTrue
<1>1. LInv => RetryAfterIsTrue
  <2> SUFFICES ASSUME LInv, NEW k \in DOMAIN windows,
                      NEW s, s = Roll(windows[k], now), ~Admits(Roll(s, now + 0), now + 0)
               PROVE  /\ Admits(Roll(s, now + RetryAfter(s, now)), now + RetryAfter(s, now))
                      /\ \A d \in 1..(RetryAfter(s, now) - 1) : ~Admits(Roll(s, now + d), now + d)
    BY DEF RetryAfterIsTrue
  <2>1. /\ now \in Nat /\ windows[k] \in WindowState /\ windows[k].start <= now
        /\ Deadline(windows[k])
    BY DEF LInv, LimiterTyped
  <2>2. windows[k].start \in Nat
    BY <2>1 DEF WindowState
  <2>3. s \in WindowState /\ s.start <= now /\ now - s.start < Window
    BY <2>1, <2>2, RollKeeps
  <2>4. s.start \in Nat /\ now + 0 = now
    BY <2>1, <2>3 DEF WindowState
  <2>5. Roll(s, now) = s
    BY <2>1, <2>3, <2>4, RolledOn
  <2>6. ~Admits(s, now)
    BY <2>4, <2>5
  <2>7. QED
    BY <2>1, <2>3, <2>4, <2>6, TheWait
<1>2. QED
  BY <1>1, InitLimiter, StepLimiter, PTL DEF Spec

(***************************************************************************)
(* No caller gets past the limit by more than the estimate allows, and a   *)
(* sweep forgets only what no longer counts (hit, roll, maintain).         *)
(***************************************************************************)
THEOREM LimitsStand == Spec => []LimitsHold
<1>1. LInv => BurstsAreBounded
  BY DEF LInv, Remembered, Bounded, BurstsAreBounded
<1>2. LInv => SweptIsEmpty
  <2> SUFFICES ASSUME LInv, NEW k \in DOMAIN windows, Dead(k), NEW s, s = windows[k]
               PROVE  Roll(s, now).current = 0 /\ Roll(s, now).previous = 0
    BY DEF SweptIsEmpty
  <2>1. /\ now \in Nat /\ s \in WindowState /\ s.start <= now
        /\ Deadline(s) /\ s.deadAt <= now
    BY DEF LInv, LimiterTyped, Dead
  <2>2. /\ s.start \in Nat /\ s.current \in Nat /\ s.previous \in Nat /\ s.deadAt \in Nat
    BY <2>1, LimitFacts DEF WindowState
  <2> DEFINE once == [s EXCEPT !.start = s.start + Window, !.previous = s.current, !.current = 0]
             twice == [s EXCEPT !.start = now, !.current = 0, !.previous = 0]
  <2>3. /\ once.current = 0 /\ once.previous = s.current
        /\ twice.current = 0 /\ twice.previous = 0
    BY <2>1 DEF WindowState
  <2>4. /\ now - s.start < Window => Roll(s, now) = s
        /\ now - s.start >= Window /\ now - s.start < 2 * Window => Roll(s, now) = once
        /\ now - s.start >= 2 * Window => Roll(s, now) = twice
    BY <2>1, RolledOn
  <2> HIDE DEF once, twice
  <2>5. now - s.start < Window \/ now - s.start >= 2 * Window
           \/ (now - s.start >= Window /\ now - s.start < 2 * Window)
    BY <2>1, <2>2, LimitFacts
  <2>6. CASE s.current > 0
    <3>1. now - s.start >= 2 * Window
      BY <2>1, <2>2, <2>6, LimitFacts DEF Deadline
    <3>2. QED
      BY <2>3, <2>4, <3>1
  <2>7. CASE s.current = 0 /\ s.previous > 0
    <3>1. ~(now - s.start < Window)
      BY <2>1, <2>2, <2>7, LimitFacts DEF Deadline
    <3>2. QED
      BY <2>3, <2>4, <2>5, <2>7, <3>1
  <2>8. CASE s.current = 0 /\ s.previous = 0
    BY <2>3, <2>4, <2>5, <2>8
  <2>9. QED
    BY <2>2, <2>6, <2>7, <2>8
<1>3. QED
  BY <1>1, <1>2, InitLimiter, StepLimiter, PTL DEF Spec, LimitsHold

\* A try leaves at most as many callers tracked as may be.
LEMMA HitStaysCapped ==
  ASSUME LInv, Cardinality(DOMAIN windows) <= MaxTracked, NEW k \in Keys, Hit(k)
  PROVE  Cardinality(DOMAIN windows') <= MaxTracked
<1>1. PICK kept \in Keepable : DOMAIN windows' = kept \cup {k}
  BY DEF Hit, With
<1>2. IsFiniteSet(Keys) /\ DOMAIN windows \subseteq Keys
  BY LimitFacts, FS_Interval DEF Keys, LInv, LimiterTyped
<1>3. IsFiniteSet(DOMAIN windows) /\ Cardinality(DOMAIN windows) \in Nat
  BY <1>2, FS_Subset, FS_CardinalityType
<1>4. MaxTracked \in Nat \ {0}
  BY LimiterAssumption
<1>5. IsFiniteSet(kept) /\ Cardinality(kept) \in Nat /\ Cardinality(kept) + 1 <= MaxTracked
  <2>1. CASE ~Due
    <3>1. kept = DOMAIN windows /\ ~(Cardinality(DOMAIN windows) >= MaxTracked)
      BY <2>1 DEF Keepable, Due
    <3>2. QED
      BY <1>3, <1>4, <3>1
  <2>2. CASE Due
    <3> DEFINE alive == {x \in DOMAIN windows : ~Dead(x)}
    <3>1. kept \in SUBSET alive /\ Cardinality(alive \ kept) = Excess(alive)
      BY <2>2 DEF Keepable
    <3>2. IsFiniteSet(alive) /\ Cardinality(alive) \in Nat
      BY <1>3, FS_Subset, FS_CardinalityType
    <3> HIDE DEF alive
    <3>3. IsFiniteSet(kept) /\ Cardinality(kept) \in Nat
      BY <3>1, <3>2, FS_Subset, FS_CardinalityType
    <3>4. Cardinality(alive \ kept) = Cardinality(alive) - Cardinality(kept)
      <4>1. Cardinality(alive \ kept) = Cardinality(alive) - Cardinality(alive \cap kept)
        BY <3>2, FS_Difference
      <4>2. alive \cap kept = kept
        BY <3>1
      <4>3. QED
        BY <4>1, <4>2
    <3>5. QED
      BY <1>4, <3>1, <3>2, <3>3, <3>4 DEF Excess
  <2>3. QED
    BY <2>1, <2>2
<1>6. PICK more : more = kept \cup {k}
  OBVIOUS
<1>7. Cardinality(more) \in Nat /\ Cardinality(more) <= Cardinality(kept) + 1
  <2>1. CASE k \in kept
    <3>1. more = kept
      BY <1>6, <2>1
    <3>2. QED
      BY <1>5, <3>1
  <2>2. CASE k \notin kept
    <3>1. Cardinality(more) = Cardinality(kept) + 1
      BY <1>5, <1>6, <2>2, FS_AddElement
    <3>2. QED
      BY <1>5, <3>1
  <2>3. QED
    BY <2>1, <2>2
<1>8. QED
  BY <1>1, <1>4, <1>5, <1>6, <1>7

\* A try never leaves a state whose deadline is over before its window begins: what is refused
\* has something that counts.
LEMMA HitStaysDue ==
  ASSUME LInv, \A x \in DOMAIN windows : windows[x].start <= windows[x].deadAt,
         NEW k \in Keys, Hit(k)
  PROVE  \A x \in DOMAIN windows' : windows'[x].start <= windows'[x].deadAt
<1>1. PICK kept \in Keepable :
        LET s == StateOf([x \in kept |-> windows[x]], k, now)
        IN windows' = With([x \in kept |-> windows[x]], k, IF Admits(s, now) THEN Admit(s) ELSE s)
  BY DEF Hit
<1>2. kept \in SUBSET DOMAIN windows
  BY DEF Keepable
<1>3. PICK s : s = StateOf([x \in kept |-> windows[x]], k, now)
  OBVIOUS
<1>4. /\ DOMAIN windows' = kept \cup {k}
      /\ windows'[k] = IF Admits(s, now) THEN Admit(s) ELSE s
      /\ \A x \in kept \ {k} : windows'[x] = windows[x]
  BY <1>1, <1>3 DEF With
<1>5. s \in WindowState /\ s.start <= now /\ now - s.start < Window /\ Deadline(s) /\ now \in Nat
  BY <1>2, <1>3, StateIs DEF LInv, LimiterTyped
<1>6. /\ s.start \in Nat /\ s.current \in Nat /\ s.previous \in Nat /\ s.deadAt \in Nat
  BY <1>5, LimitFacts DEF WindowState
<1>7. Admits(s, now) => Admit(s).start <= Admit(s).deadAt
  <2>1. Admit(s).start = s.start /\ Admit(s).deadAt = s.start + 2 * Window
    BY <1>5 DEF Admit, WindowState
  <2>2. QED
    BY <1>6, <2>1, LimitFacts
<1>8. ~Admits(s, now) => s.start <= s.deadAt
  <2>1. SUFFICES ASSUME ~Admits(s, now), s.current = 0, s.previous = 0 PROVE FALSE
    BY <1>5, <1>6, LimitFacts DEF Deadline
  <2>2. PICK e \in Nat : e = Window - (now - s.start)
    BY <1>5, <1>6, LimitFacts
  <2>3. ~(0 * e + (0 + 1) * Window <= Limit * Window)
    BY <2>1, <2>2 DEF Admits
  <2>4. Window <= Limit * Window
    BY LimitFacts, Times
  <2>5. QED
    BY <2>2, <2>3, <2>4, LimitFacts
<1>9. QED
  BY <1>2, <1>4, <1>7, <1>8

(***************************************************************************)
(* However many callers come, the map of them stays at its cap, and no     *)
(* count passes the limit (maintain, MAX_TRACKED_CALLERS).                 *)
(***************************************************************************)
THEOREM TheMapStaysCapped == Spec => []LimiterTypeOK
<1> DEFINE Capped == /\ LInv /\ Cardinality(DOMAIN windows) <= MaxTracked
                     /\ \A x \in DOMAIN windows : windows[x].start <= windows[x].deadAt
<1>1. Init => Capped
  <2>1. ASSUME Init PROVE Cardinality(DOMAIN windows) <= MaxTracked /\ DOMAIN windows = {}
    <3>1. DOMAIN windows = {}
      BY <2>1, EmptySeq DEF Init, LimiterInit
    <3>2. QED
      BY <3>1, FS_EmptySet, LimiterAssumption
  <2>2. QED
    BY <2>1, InitLimiter
<1>2. Capped /\ [Next]_vars => Capped'
  <2>1. ASSUME Capped, [Next]_vars
        PROVE  /\ Cardinality(DOMAIN windows') <= MaxTracked
               /\ \A x \in DOMAIN windows' : windows'[x].start <= windows'[x].deadAt
    <3>1. CASE LimiterNext
      BY <2>1, <3>1, HitStaysCapped, HitStaysDue DEF LimiterNext
    <3>2. CASE Restart
      <4>1. DOMAIN windows' = {}
        BY <3>2, EmptySeq DEF Restart, LimiterLost
      <4>2. QED
        BY <4>1, FS_EmptySet, LimiterAssumption
    <3>3. CASE UNCHANGED windows
      BY <2>1, <3>3
    <3>4. QED
      BY <2>1, <3>1, <3>2, <3>3 DEF Next, vars, Tick, limiterVars
  <2>2. QED
    BY <2>1, StepLimiter
<1>3. Capped => LimiterTypeOK
  <2>1. \A s \in WindowState : s.current \in 0..Limit /\ s.previous \in 0..Limit
    BY DEF WindowState
  <2>2. QED
    BY <2>1 DEF LInv, LimiterTyped, LimiterTypeOK
<1>4. QED
  BY <1>1, <1>2, <1>3, PTL DEF Spec

-----------------------------------------------------------------------------
(***************************************************************************)
(* Feed: no entry twice and none left out, for any number of entries,      *)
(* pages of any length, and cut off wherever.                              *)
(***************************************************************************)

Position == Nat \X (0..LastId)

\* What has a value of which kind.
FeedTyped ==
  /\ now \in Nat
  /\ stamped \subseteq Nat \X (1..LastId) /\ trail \subseteq Nat \X (1..LastId)
  /\ wire \in Seq(trail) /\ got \in Seq(trail)
  /\ cursor \in {None} \cup Position /\ place \in {None} \cup Position
  /\ cursor = None => wire = <<>>
  /\ place = None => cursor = None /\ got = <<>>

\* What the client got and what is on its way are in order, one after the other, and end at the
\* cursor.
InOrder ==
  /\ NothingTwice
  /\ \A i, j \in DOMAIN wire : i < j => Before(wire[i], wire[j])
  /\ place # None =>
       /\ \A i \in DOMAIN got : ~Before(place, got[i])
       /\ \A i \in DOMAIN wire : Before(place, wire[i])
  /\ cursor # None =>
       ~Before(cursor, place) /\ \A i \in DOMAIN wire : ~Before(cursor, wire[i])

\* Up to where it is, the client has all there was to have; up to the cursor, it has it or it is
\* on its way.
Complete ==
  /\ \A e \in trail \ missable :
       place # None /\ Before(began, e) =>
         /\ ~Before(place, e) => e \in Range(got)
         /\ cursor # None /\ ~Before(cursor, e) => e \in Range(got) \cup Range(wire)
  /\ caughtUp => cursor # None /\ \A e \in trail : ~Before(cursor, e)

\* The inductive invariant.
FInv == FeedTyped /\ InOrder /\ Complete

LEMMA BeforeIsOrder ==
  ASSUME NEW x \in Position, NEW y \in Position, NEW z \in Position
  PROVE  /\ Before(x, y) /\ Before(y, z) => Before(x, z)
         /\ ~Before(x, x)
         /\ ~(Before(x, y) /\ Before(y, x))
         /\ Before(x, y) /\ ~Before(x, z) => ~Before(y, z)
         /\ ~Before(x, y) /\ Before(x, z) => Before(y, z)
<1>1. x[1] \in Nat /\ x[2] \in Nat /\ y[1] \in Nat /\ y[2] \in Nat /\ z[1] \in Nat /\ z[2] \in Nat
  BY FeedAssumption DEF Position
<1>2. QED
  BY <1>1 DEF Before

\* What the type of the feed says of its entries.
LEMMA Entries ==
  ASSUME FeedTyped
  PROVE  /\ trail \subseteq Position
         /\ Len(got) \in Nat /\ DOMAIN got = 1..Len(got)
         /\ Len(wire) \in Nat /\ DOMAIN wire = 1..Len(wire)
         /\ \A i \in DOMAIN got : got[i] \in trail /\ got[i] \in Position
         /\ \A i \in DOMAIN wire : wire[i] \in trail /\ wire[i] \in Position
         /\ cursor # None => cursor \in Position
         /\ place # None => place \in Position
<1>1. trail \subseteq Position
  BY FeedAssumption DEF FeedTyped, Position
<1>2. /\ Len(got) \in Nat /\ DOMAIN got = 1..Len(got)
      /\ Len(wire) \in Nat /\ DOMAIN wire = 1..Len(wire)
  BY LenProperties DEF FeedTyped
<1>3. (\A i \in 1..Len(got) : got[i] \in trail) /\ (\A i \in 1..Len(wire) : wire[i] \in trail)
  BY ElementOfSeq DEF FeedTyped
<1>4. QED
  BY <1>1, <1>2, <1>3 DEF FeedTyped

LEMMA InitFeed == Init => FInv
<1> SUFFICES ASSUME Init PROVE FInv
  OBVIOUS
<1>1. /\ now = 0 /\ stamped = {} /\ trail = {} /\ cursor = None /\ wire = <<>> /\ place = None
      /\ got = <<>> /\ began = None /\ missable = {} /\ caughtUp = FALSE
  BY DEF Init, FeedInit
<1>2. <<>> \in Seq(trail) /\ DOMAIN <<>> = {}
  BY EmptySeq
<1>3. FeedTyped
  BY <1>1, <1>2 DEF FeedTyped
<1>4. InOrder
  BY <1>1, <1>2 DEF InOrder, NothingTwice
<1>5. Complete
  BY <1>1 DEF Complete
<1>6. QED
  BY <1>3, <1>4, <1>5 DEF FInv

\* What the client got, what is on its way and what it has yet to get stay as they are.
LEMMA FeedIdleStep ==
  ASSUME FInv, UNCHANGED <<trail, cursor, wire, place, got, began, missable, caughtUp>>,
         stamped' \subseteq Nat \X (1..LastId), now' \in Nat
  PROVE  FInv'
<1>1. FeedTyped'
  BY DEF FInv, FeedTyped
<1>2. InOrder'
  BY DEF FInv, InOrder, NothingTwice
<1>3. Complete'
  BY DEF FInv, Complete
<1>4. QED
  BY <1>1, <1>2, <1>3 DEF FInv

LEMMA StampStep ==
  ASSUME FInv, NEW id \in 1..LastId, Stamp(id)
  PROVE  FInv'
<1>1. stamped' \subseteq Nat \X (1..LastId) /\ now' = now /\ now \in Nat
  BY DEF Stamp, FInv, FeedTyped
<1>2. QED
  BY <1>1, FeedIdleStep DEF Stamp

\* An entry behind the cursor, or behind the client, is one it may miss.
LEMMA IsFiledStep ==
  ASSUME FInv, NEW e \in stamped, IsFiled(e)
  PROVE  FInv'
<1>1. /\ stamped' = stamped \ {e} /\ trail' = trail \cup {e} /\ caughtUp' = FALSE
      /\ missable' = IF \E c \in {cursor, place} \ {None} : ~Before(c, e)
                     THEN missable \cup {e} ELSE missable
      /\ UNCHANGED <<cursor, wire, place, got, began, now>>
  BY DEF IsFiled
<1>2. FeedTyped /\ InOrder /\ Complete
  BY DEF FInv
<1>3. FeedTyped'
  <2>1. wire' \in Seq(trail') /\ got' \in Seq(trail')
    BY <1>1, <1>2, SeqMonotonic DEF FeedTyped
  <2>2. QED
    BY <1>1, <1>2, <2>1 DEF FeedTyped
<1>4. InOrder'
  BY <1>1, <1>2 DEF InOrder, NothingTwice
<1>5. Complete'
  <2>1. \A x \in trail' \ missable' :
          x \in trail \ missable \/
            (x = e /\ (place # None => Before(place, e)) /\ (cursor # None => Before(cursor, e)))
    BY <1>1
  <2>2. QED
    BY <1>1, <1>2, <2>1 DEF Complete
<1>6. QED
  BY <1>3, <1>4, <1>5 DEF FInv

LEMMA OpenStreamStep ==
  ASSUME FInv, OpenStream
  PROVE  FInv'
<1>1. PICK head \in Newest : cursor' = head /\ place' = head /\ began' = head
  BY DEF OpenStream
<1>2. /\ cursor = None /\ place = None /\ caughtUp' = FALSE
      /\ UNCHANGED <<stamped, trail, wire, got, missable, now>>
  BY DEF OpenStream
<1>3. FeedTyped /\ wire = <<>> /\ got = <<>> /\ DOMAIN <<>> = {} /\ now \in Nat
  BY <1>2, EmptySeq DEF FInv, FeedTyped
<1>4. head \in Position /\ head # None
  BY <1>1, <1>3, FeedAssumption, Entries DEF Newest, Position
<1>5. FeedTyped'
  BY <1>1, <1>2, <1>3, <1>4 DEF FeedTyped
<1>6. InOrder'
  BY <1>1, <1>2, <1>3, <1>4, BeforeIsOrder DEF InOrder, NothingTwice
<1>7. Complete'
  BY <1>1, <1>2 DEF Complete
<1>8. QED
  BY <1>5, <1>6, <1>7 DEF FInv

\* A stream taken up where the client was; without the id, at the end of its millisecond.
LEMMA ResumeStep ==
  ASSUME FInv, NEW bare \in BOOLEAN, Resume(bare)
  PROVE  FInv'
<1>1. /\ cursor = None /\ place # None
      /\ cursor' = IF bare THEN <<place[1], LastId>> ELSE place
      /\ missable' = IF bare THEN missable \cup {e \in trail : e[1] = place[1]} ELSE missable
      /\ caughtUp' = FALSE
      /\ UNCHANGED <<stamped, trail, wire, place, got, began, now>>
  BY DEF Resume
<1>2. FeedTyped /\ InOrder /\ Complete /\ wire = <<>> /\ DOMAIN wire = {}
  BY <1>1, EmptySeq DEF FInv, FeedTyped
<1>3. place \in Position /\ place[1] \in Nat /\ place[2] \in 0..LastId
  BY <1>1, <1>2, Entries DEF Position
<1>4. cursor' \in Position /\ cursor' # None
  BY <1>1, <1>3, FeedAssumption DEF Position
<1>5. FeedTyped'
  BY <1>1, <1>2, <1>4 DEF FeedTyped
<1>6. \A x \in trail : x[1] \in Nat /\ x[2] \in 1..LastId
  BY <1>2 DEF FeedTyped
<1>7. ~Before(cursor', place)
  <2>1. CASE ~bare
    BY <1>1, <1>3, <2>1, BeforeIsOrder
  <2>2. CASE bare
    BY <1>1, <1>3, <2>2, FeedAssumption DEF Before
  <2>3. QED
    BY <2>1, <2>2
<1>8. InOrder'
  BY <1>1, <1>2, <1>7 DEF InOrder, NothingTwice
<1>9. Complete'
  <2>1. ASSUME NEW x \in trail \ missable', ~Before(cursor', x)
        PROVE  ~Before(place, x)
    <3>1. CASE bare
      BY <1>1, <1>3, <1>6, <2>1, <3>1, FeedAssumption DEF Before
    <3>2. CASE ~bare
      BY <1>1, <2>1, <3>2
    <3>3. QED
      BY <3>1, <3>2
  <2>2. missable \subseteq missable'
    BY <1>1
  <2>3. QED
    BY <1>1, <1>2, <2>1, <2>2 DEF Complete
<1>10. QED
  BY <1>5, <1>8, <1>9 DEF FInv

\* A page: in order, after the cursor, and nothing that comes before its end left out.
LEMMA PageIs ==
  ASSUME FeedTyped, cursor # None, NEW sent \in Pages
  PROVE  /\ sent \in Seq(trail) /\ Len(sent) \in Nat /\ DOMAIN sent = 1..Len(sent)
         /\ \A i \in DOMAIN sent : sent[i] \in trail /\ Before(cursor, sent[i])
         /\ \A i, j \in DOMAIN sent : i < j => Before(sent[i], sent[j])
         /\ \A e \in trail : Before(cursor, e) =>
              \/ e \in Range(sent)
              \/ Len(sent) = Page /\ \A i \in DOMAIN sent : Before(sent[i], e)
         /\ sent # <<>> => Last(sent) = sent[Len(sent)] /\ Len(sent) \in DOMAIN sent
         /\ sent = <<>> => Len(sent) = 0
<1>1. sent \in SeqOf(Rest, Page)
  BY DEF Pages
<1>2. PICK n \in 0..Page : sent \in [1..n -> Rest]
  BY <1>1 DEF SeqOf
<1>3. n \in Nat
  BY <1>2, FeedAssumption
<1>4. sent \in Seq(Rest)
  BY <1>2, <1>3, SeqDef
<1>5. Len(sent) \in Nat /\ DOMAIN sent = 1..Len(sent) /\ (sent # <<>> => Len(sent) # 0)
  BY <1>4, LenProperties, EmptySeq
<1>6. Rest \subseteq trail /\ \A i \in DOMAIN sent : sent[i] \in Rest
  BY <1>4, <1>5, ElementOfSeq DEF Rest
<1>7. sent \in Seq(trail)
  BY <1>4, <1>6, SeqMonotonic
<1>8. sent # <<>> => Last(sent) = sent[Len(sent)] /\ Len(sent) \in DOMAIN sent
  BY <1>5 DEF Last
<1>9. \A e \in Rest \ Range(sent) : Len(sent) = Page /\ \A i \in DOMAIN sent : Before(sent[i], e)
  BY DEF Pages
<1>10. \A i, j \in DOMAIN sent : i < j => Before(sent[i], sent[j])
  BY DEF Pages
<1>11. sent = <<>> => Len(sent) = 0
  BY EmptySeq
<1>12. QED
  BY <1>5, <1>6, <1>7, <1>8, <1>9, <1>10, <1>11 DEF Rest

LEMMA PollStep ==
  ASSUME FInv, Poll
  PROVE  FInv'
<1>1. PICK sent \in Pages :
        wire' = wire \o sent /\ cursor' = NextCursor(sent) /\ caughtUp' = (Len(sent) < Page)
  BY DEF Poll
<1>2. cursor # None /\ UNCHANGED <<stamped, trail, place, got, began, missable, now>>
  BY DEF Poll
<1>3. FeedTyped /\ InOrder /\ Complete /\ place # None
  BY <1>2 DEF FInv, FeedTyped
<1>4. /\ sent \in Seq(trail) /\ Len(sent) \in Nat /\ DOMAIN sent = 1..Len(sent)
      /\ \A i \in DOMAIN sent : sent[i] \in trail /\ Before(cursor, sent[i])
      /\ \A i, j \in DOMAIN sent : i < j => Before(sent[i], sent[j])
      /\ \A e \in trail : Before(cursor, e) =>
           \/ e \in Range(sent)
           \/ Len(sent) = Page /\ \A i \in DOMAIN sent : Before(sent[i], e)
      /\ sent # <<>> => Last(sent) = sent[Len(sent)] /\ Len(sent) \in DOMAIN sent
      /\ sent = <<>> => Len(sent) = 0
  BY <1>1, <1>2, <1>3, PageIs
<1>5. /\ trail \subseteq Position /\ cursor \in Position /\ place \in Position
      /\ Len(wire) \in Nat /\ DOMAIN wire = 1..Len(wire)
      /\ \A i \in DOMAIN wire : wire[i] \in trail /\ wire[i] \in Position
      /\ \A i \in DOMAIN got : got[i] \in Position
  BY <1>2, <1>3, Entries
<1> DEFINE m == Len(wire)
           n == Len(sent)
<1>6. /\ wire' \in Seq(trail) /\ DOMAIN wire' = 1..(m + n)
      /\ \A i \in 1..m : wire'[i] = wire[i]
      /\ \A i \in 1..n : wire'[m + i] = sent[i]
      /\ \A i \in 1..(m + n) : i \in 1..m \/ (i - m \in 1..n /\ wire'[i] = sent[i - m])
  <2>1. wire \in Seq(trail)
    BY <1>3 DEF FeedTyped
  <2>2. /\ wire' \in Seq(trail) /\ Len(wire') = m + n
        /\ \A i \in 1..(m + n) : wire'[i] = IF i <= m THEN wire[i] ELSE sent[i - m]
    BY <1>1, <1>4, <2>1, ConcatProperties
  <2>3. DOMAIN wire' = 1..(m + n)
    BY <2>2, LenProperties
  <2> HIDE DEF m, n
  <2>4. m \in Nat /\ n \in Nat
    BY <1>4, <1>5 DEF m, n
  <2>5. \A i \in 1..m : wire'[i] = wire[i]
    BY <2>2, <2>4
  <2>6. \A i \in 1..(m + n) : i \in 1..m \/ (i - m \in 1..n /\ wire'[i] = sent[i - m])
    BY <2>2, <2>4
  <2>7. ASSUME NEW i \in 1..n PROVE wire'[m + i] = sent[i]
    <3>1. m + i \in 1..(m + n) /\ ~(m + i <= m) /\ (m + i) - m = i
      BY <2>4
    <3>2. QED
      BY <2>2, <3>1
  <2>8. QED
    BY <2>2, <2>3, <2>5, <2>6, <2>7
<1> HIDE DEF m, n
<1>7. m \in Nat /\ n \in Nat /\ DOMAIN wire = 1..m /\ DOMAIN sent = 1..n
  BY <1>4, <1>5 DEF m, n
<1>8. /\ cursor' \in Position /\ cursor' # None
      /\ \A e \in Position : ~Before(cursor', e) <=>
           IF sent = <<>> THEN ~Before(cursor, e) ELSE ~Before(sent[n], e)
      /\ sent = <<>> => cursor' = cursor
      /\ sent # <<>> => cursor' = sent[n] /\ n \in 1..n
  <2>1. CASE sent = <<>>
    BY <1>1, <1>2, <1>5, <2>1 DEF NextCursor
  <2>2. CASE sent # <<>>
    <3>1. cursor' = sent[n] /\ n \in 1..n
      BY <1>1, <1>4, <1>7, <2>2 DEF NextCursor, n
    <3>2. sent[n] \in Position
      BY <1>4, <1>5, <1>7, <3>1
    <3>3. sent[n] # None
      BY <3>2, FeedAssumption DEF Position
    <3>4. QED
      BY <2>2, <3>1, <3>2, <3>3
  <2>3. QED
    BY <2>1, <2>2
<1>9. FeedTyped'
  BY <1>1, <1>2, <1>3, <1>6, <1>8 DEF FeedTyped
<1>10. \A i \in 1..n : sent[i] \in Position /\ Before(cursor, sent[i]) /\ sent[i] \in trail
  BY <1>4, <1>5, <1>7
<1>11. \A i \in 1..m : wire[i] \in Position /\ ~Before(cursor, wire[i]) /\ Before(place, wire[i])
  BY <1>2, <1>3, <1>5, <1>7 DEF InOrder
<1>12. ~Before(cursor, place)
  BY <1>2, <1>3 DEF InOrder
<1>13. \A i \in 1..m, j \in 1..n : Before(wire[i], sent[j])
  BY <1>5, <1>10, <1>11, BeforeIsOrder
<1>14. InOrder'
  <2>1. \A i, j \in DOMAIN wire' : i < j => Before(wire'[i], wire'[j])
    <3> SUFFICES ASSUME NEW i \in 1..(m + n), NEW j \in 1..(m + n), i < j
                 PROVE  Before(wire'[i], wire'[j])
      BY <1>6
    <3>1. CASE j \in 1..m
      <4>1. i \in 1..m
        BY <1>7, <3>1
      <4>2. Before(wire[i], wire[j])
        BY <1>3, <1>7, <3>1, <4>1 DEF InOrder
      <4>3. QED
        BY <1>6, <3>1, <4>1, <4>2
    <3>2. CASE i \in 1..m /\ j \notin 1..m
      BY <1>6, <1>13, <3>2
    <3>3. CASE i \notin 1..m /\ j \notin 1..m
      <4>1. /\ i - m \in 1..n /\ wire'[i] = sent[i - m]
            /\ j - m \in 1..n /\ wire'[j] = sent[j - m]
        BY <1>6, <3>3
      <4>2. i - m < j - m
        BY <1>7
      <4>3. Before(sent[i - m], sent[j - m])
        BY <1>4, <1>7, <4>1, <4>2
      <4>4. QED
        BY <4>1, <4>3
    <3>4. QED
      BY <1>7, <3>1, <3>2, <3>3
  <2>2. \A i \in DOMAIN wire' : Before(place, wire'[i])
    <3>1. \A i \in 1..n : Before(place, sent[i])
      BY <1>5, <1>10, <1>12, BeforeIsOrder
    <3>2. QED
      BY <1>6, <1>11, <3>1
  <2>3. ~Before(cursor', place) /\ \A i \in DOMAIN wire' : ~Before(cursor', wire'[i])
    <3>1. CASE sent = <<>>
      <4>1. n = 0 /\ cursor' = cursor
        BY <1>4, <1>8, <3>1 DEF n
      <4>2. 1..n = {} /\ m + n = m
        BY <1>7, <4>1
      <4>3. QED
        BY <1>6, <1>11, <1>12, <4>1, <4>2
    <3>2. CASE sent # <<>>
      <4>1. cursor' = sent[n] /\ n \in 1..n
        BY <1>8, <3>2
      <4>2. \A i \in 1..n : ~Before(sent[n], sent[i])
        <5>1. \A i \in 1..n : i = n \/ i < n
          BY <1>7
        <5>2. QED
          BY <1>4, <1>7, <1>10, <4>1, <5>1, BeforeIsOrder
      <4>3. \A i \in 1..m : ~Before(sent[n], wire[i])
        BY <1>10, <1>11, <1>13, <4>1, BeforeIsOrder
      <4>4. ~Before(sent[n], place)
        BY <1>5, <1>10, <1>12, <4>1, BeforeIsOrder
      <4>5. QED
        BY <1>6, <4>1, <4>2, <4>3, <4>4
    <3>3. QED
      BY <3>1, <3>2
  <2>4. QED
    BY <1>2, <1>3, <2>1, <2>2, <2>3 DEF InOrder, NothingTwice
<1>15. Range(wire') = Range(wire) \cup Range(sent)
  <2>1. Range(wire') \subseteq Range(wire) \cup Range(sent)
    BY <1>6, <1>7 DEF Range
  <2>2. Range(wire) \subseteq Range(wire')
    <3>1. \A i \in 1..m : i \in 1..(m + n)
      BY <1>7
    <3>2. QED
      BY <1>6, <1>7, <3>1 DEF Range
  <2>3. Range(sent) \subseteq Range(wire')
    <3>1. ASSUME NEW i \in 1..n PROVE sent[i] \in Range(wire')
      <4>1. PICK k \in 1..(m + n) : k = m + i
        BY <1>7
      <4>2. wire'[k] = sent[i] /\ k \in DOMAIN wire'
        BY <1>6, <4>1
      <4>3. QED
        BY <4>2 DEF Range
    <3>2. QED
      BY <1>7, <3>1 DEF Range
  <2>4. QED
    BY <2>1, <2>2, <2>3
<1>16. \A e \in trail : Before(cursor, e) /\ ~Before(cursor', e) => e \in Range(sent)
  BY <1>4, <1>5, <1>7, <1>8
<1>17. caughtUp' => \A e \in trail : ~Before(cursor', e)
  <2> SUFFICES ASSUME n < Page, NEW e \in trail, Before(cursor', e) PROVE FALSE
    BY <1>1 DEF n
  <2>1. Before(cursor, e)
    BY <1>5, <1>8, <1>10, BeforeIsOrder
  <2>2. n # Page
    BY <1>7, FeedAssumption
  <2>3. e \in Range(sent)
    BY <1>4, <2>1, <2>2 DEF n
  <2>4. PICK i \in 1..n : e = sent[i]
    BY <1>7, <2>3 DEF Range
  <2>5. sent # <<>>
    BY <1>4, <2>4 DEF n
  <2>6. i = n \/ Before(sent[i], sent[n])
    <3>1. i = n \/ i < n
      BY <1>7
    <3>2. QED
      BY <1>4, <1>7, <1>8, <2>5, <3>1
  <2>7. QED
    BY <1>5, <1>8, <1>10, <2>4, <2>5, <2>6, BeforeIsOrder
<1>18. Complete'
  BY <1>2, <1>3, <1>8, <1>15, <1>16, <1>17 DEF Complete
<1>19. QED
  BY <1>9, <1>14, <1>18 DEF FInv

\* The next entry reaches the client.
LEMMA ReceiveStep ==
  ASSUME FInv, Receive
  PROVE  FInv'
<1>1. /\ wire # <<>> /\ wire' = Tail(wire) /\ got' = Append(got, Head(wire)) /\ place' = Head(wire)
      /\ UNCHANGED <<stamped, trail, cursor, began, missable, caughtUp, now>>
  BY DEF Receive
<1>2. FeedTyped /\ InOrder /\ Complete /\ cursor # None /\ place # None
  BY <1>1 DEF FInv, FeedTyped
<1>3. /\ trail \subseteq Position /\ cursor \in Position /\ place \in Position
      /\ Len(got) \in Nat /\ DOMAIN got = 1..Len(got)
      /\ Len(wire) \in Nat /\ DOMAIN wire = 1..Len(wire)
      /\ \A i \in DOMAIN got : got[i] \in trail /\ got[i] \in Position
      /\ \A i \in DOMAIN wire : wire[i] \in trail /\ wire[i] \in Position
  BY <1>2, Entries
<1>4. wire \in Seq(trail) /\ got \in Seq(trail) /\ Len(wire) # 0
  BY <1>1, <1>2, EmptySeq DEF FeedTyped
<1> DEFINE m == Len(wire)
           n == Len(got)
           h == wire[1]
<1>5. m \in Nat /\ n \in Nat /\ m >= 1 /\ 1 \in 1..m /\ h \in trail /\ h \in Position /\ h # None
  BY <1>3, <1>4, FeedAssumption DEF Position
<1>6. Head(wire) = h
  OBVIOUS
<1>7. /\ wire' \in Seq(trail) /\ DOMAIN wire' = 1..(m - 1)
      /\ \A i \in 1..(m - 1) : wire'[i] = wire[i + 1]
  <2>1. wire' \in Seq(trail) /\ Len(wire') = m - 1 /\ \A i \in 1..Len(wire') : wire'[i] = wire[i + 1]
    BY <1>1, <1>4, HeadTailProperties
  <2>2. QED
    BY <2>1, LenProperties
<1>8. /\ got' \in Seq(trail) /\ DOMAIN got' = 1..(n + 1) /\ got'[n + 1] = h
      /\ \A i \in 1..n : got'[i] = got[i]
  <2>1. /\ got' \in Seq(trail) /\ Len(got') = n + 1 /\ got'[n + 1] = h
        /\ \A i \in 1..n : got'[i] = got[i]
    BY <1>1, <1>4, <1>5, <1>6, AppendProperties
  <2>2. QED
    BY <2>1, LenProperties
<1>9. /\ place' = h
      /\ \A i \in 1..n : got[i] \in Position /\ ~Before(place, got[i])
      /\ \A i \in 1..m : wire[i] \in Position /\ Before(place, wire[i]) /\ ~Before(cursor, wire[i])
      /\ \A i \in 2..m : Before(h, wire[i])
      /\ Before(place, h) /\ ~Before(cursor, h)
      /\ DOMAIN wire = 1..m /\ DOMAIN got = 1..n
  <2>1. \A i \in 2..m : i \in 1..m /\ 1 < i
    BY <1>5
  <2>2. QED
    BY <1>1, <1>2, <1>3, <1>5, <1>6, <2>1 DEF InOrder
<1> HIDE DEF m, n, h
<1>10. FeedTyped'
  BY <1>1, <1>2, <1>5, <1>7, <1>8, <1>9 DEF FeedTyped
<1>11. \A i \in 1..(m - 1) : i + 1 \in 2..m /\ i + 1 \in 1..m
  BY <1>5
<1>12. InOrder'
  <2>1. \A i \in 1..n : Before(got[i], h)
    BY <1>3, <1>5, <1>9, BeforeIsOrder
  <2>2. NothingTwice'
    <3>1. \A i, j \in 1..(n + 1) : i < j => i \in 1..n /\ (j \in 1..n \/ j = n + 1)
      BY <1>5
    <3>2. \A i, j \in 1..n : i < j => Before(got[i], got[j])
      BY <1>2, <1>9 DEF InOrder, NothingTwice
    <3>3. QED
      BY <1>8, <2>1, <3>1, <3>2 DEF NothingTwice
  <2>3. \A i, j \in DOMAIN wire' : i < j => Before(wire'[i], wire'[j])
    <3>1. \A i, j \in 1..(m - 1) : i < j => i + 1 < j + 1
      BY <1>5
    <3>2. QED
      BY <1>2, <1>7, <1>9, <1>11, <3>1 DEF InOrder
  <2>4. \A i \in DOMAIN got' : ~Before(place', got'[i])
    <3>1. \A i \in 1..(n + 1) : i \in 1..n \/ i = n + 1
      BY <1>5
    <3>2. QED
      BY <1>5, <1>8, <1>9, <2>1, <3>1, BeforeIsOrder
  <2>5. \A i \in DOMAIN wire' : Before(place', wire'[i]) /\ ~Before(cursor, wire'[i])
    BY <1>7, <1>9, <1>11
  <2>6. ~Before(cursor, place')
    BY <1>5, <1>9
  <2>7. QED
    BY <1>1, <2>2, <2>3, <2>4, <2>5, <2>6 DEF InOrder
<1>13. Range(got') \cup Range(wire') = Range(got) \cup Range(wire) /\ h \in Range(got')
       /\ Range(got) \subseteq Range(got')
  <2>1. Range(got') = Range(got) \cup {h}
    <3>1. 1..(n + 1) = 1..n \cup {n + 1}
      BY <1>5
    <3>2. QED
      BY <1>8, <1>9, <3>1 DEF Range
  <2>2. Range(wire) = Range(wire') \cup {h}
    <3>1. \A i \in 1..m : i = 1 \/ (i - 1 \in 1..(m - 1) /\ (i - 1) + 1 = i)
      BY <1>5
    <3>2. Range(wire) \subseteq Range(wire') \cup {h}
      BY <1>7, <1>9, <3>1 DEF Range, h
    <3>3. Range(wire') \cup {h} \subseteq Range(wire)
      BY <1>5, <1>7, <1>9, <1>11 DEF Range, h
    <3>4. QED
      BY <3>2, <3>3
  <2>3. QED
    BY <2>1, <2>2
<1>14. \A e \in Range(wire) : ~Before(h, e) => e = h
  <2>1. \A i \in 1..m : i = 1 \/ i \in 2..m
    BY <1>5
  <2>2. QED
    BY <1>9, <2>1 DEF Range, h
<1>15. \A e \in trail : ~Before(h, e) => ~Before(cursor, e)
  BY <1>3, <1>5, <1>9, BeforeIsOrder
<1>16. Complete'
  <2>1. ASSUME NEW e \in trail \ missable, Before(began, e)
        PROVE  /\ ~Before(place', e) => e \in Range(got')
               /\ ~Before(cursor, e) => e \in Range(got') \cup Range(wire')
    <3>1. ~Before(cursor, e) => e \in Range(got) \cup Range(wire)
      BY <1>2, <2>1 DEF Complete
    <3>2. QED
      BY <1>9, <1>13, <1>14, <1>15, <3>1
  <2>2. QED
    BY <1>1, <1>2, <2>1 DEF Complete
<1>17. QED
  BY <1>10, <1>12, <1>16 DEF FInv

\* The connection is lost, or the process dies.
LEMMA CutOffStep ==
  ASSUME FInv, cursor' = None, wire' = <<>>, caughtUp' = FALSE,
         UNCHANGED <<trail, place, got, began, missable, now>>,
         stamped' \subseteq Nat \X (1..LastId)
  PROVE  FInv'
<1>1. <<>> \in Seq(trail) /\ DOMAIN <<>> = {}
  BY EmptySeq
<1>2. FeedTyped'
  BY <1>1 DEF FInv, FeedTyped
<1>3. InOrder'
  BY <1>1 DEF FInv, InOrder, NothingTwice
<1>4. Complete'
  BY DEF FInv, Complete
<1>5. QED
  BY <1>2, <1>3, <1>4 DEF FInv

\* The invariant is inductive.
LEMMA StepFeed == FInv /\ [Next]_vars => FInv'
<1> SUFFICES ASSUME FInv, [Next]_vars PROVE FInv'
  OBVIOUS
<1>1. now \in Nat /\ stamped \subseteq Nat \X (1..LastId)
  BY DEF FInv, FeedTyped
<1>2. CASE FeedNext
  <2>1. CASE Drop
    BY <1>1, <2>1, CutOffStep DEF Drop
  <2>2. QED
    BY <1>2, <2>1, StampStep, IsFiledStep, ResumeStep, OpenStreamStep, PollStep, ReceiveStep
    DEF FeedNext
<1>3. CASE (LimiterNext \/ AccountsNext \/ AccessNext \/ BootstrapNext \/ RewardsPageNext)
           /\ UNCHANGED feedVars
  BY <1>1, <1>3, ClockStands, FeedIdleStep DEF feedVars
<1>4. CASE Tick
  BY <1>1, <1>4, FeedIdleStep DEF Tick, feedVars
<1>5. CASE Restart
  BY <1>5, CutOffStep DEF Restart, FeedLost
<1>6. CASE UNCHANGED vars
  BY <1>1, <1>6, FeedIdleStep DEF vars, feedVars
<1>7. QED
  BY <1>2, <1>3, <1>4, <1>5, <1>6 DEF Next

(***************************************************************************)
(* The streams a client was cut off from and the ones it took up again     *)
(* make one feed, with no double and no gap but for what came on file      *)
(* behind a cursor (resumeFrom, eventsSince).                              *)
(***************************************************************************)
THEOREM TheFeedIsOne == Spec => []FeedIsSeamless
<1>1. FInv => NothingTwice
  BY DEF FInv, InOrder
<1>2. FInv => NothingMissed
  <2> SUFFICES ASSUME FInv, caughtUp, wire = <<>>, NEW e \in trail \ missable, Before(began, e)
               PROVE  e \in Range(got)
    BY DEF NothingMissed
  <2>1. cursor # None /\ place # None /\ ~Before(cursor, e)
    BY DEF FInv, FeedTyped, Complete
  <2>2. e \in Range(got) \cup Range(wire)
    BY <2>1 DEF FInv, Complete
  <2>3. Range(wire) = {}
    BY EmptySeq DEF Range
  <2>4. QED
    BY <2>2, <2>3
<1>3. QED
  BY <1>1, <1>2, InitFeed, StepFeed, PTL DEF Spec, FeedIsSeamless

=============================================================================
