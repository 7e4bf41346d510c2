------------------------------ MODULE Accounts ------------------------------
(***************************************************************************)
(* The two doors to an account (core/admin.ts, auth.controller.ts,         *)
(* core/siwe-nonces.ts): an email with a password, and a wallet that       *)
(* signed a message around a nonce.  Statements run one at a time; calls   *)
(* interleave between them.                                                *)
(*                                                                         *)
(* Accounts are numbered in the order they were opened, which is how       *)
(* findFirst orders them.  The signature, the message and the chain are    *)
(* one answer: accepted or refused.                                        *)
(*                                                                         *)
(* Definitions called Bug... are variants of the one that follows them, as *)
(* a plausible mistake in the code would make it; nothing here uses them.  *)
(***************************************************************************)
EXTENDS ApiProcess, FiniteSets, Sequences

CONSTANTS
  Emails, Addresses,
  MaxNonces,    \* bound: nonces ever handed out, numbered
  Callers,      \* requests that may be in progress
  NonceLife,    \* ticks a nonce's cookie verifies
  MaxAccounts   \* bound: accounts ever opened

ASSUME AccountsAssumption ==
  /\ None \notin Emails \cup Addresses
  /\ MaxNonces \in Nat /\ NonceLife \in Nat

Nonces == 1..MaxNonces

VARIABLES
  accounts,   \* accounts[i]: email, payout address, address that signed in
  issued,     \* nonces handed out: when their cookies run out, who signs them
  spent,      \* rows: nonces presented
  calls,      \* calls[c]: the request of c, None when there is none
  attempts,   \* history variable: attempts at signing in a nonce has bought
  late,       \* history variable: nonces bought after their cookie ran out
  reached,    \* history variable: <<address, account>>, signed in
  displaced   \* history variable: addresses an account signed in with before
              \* another took their place

history == <<attempts, late, reached, displaced>>
accountVars == <<accounts, issued, spent, calls, history>>

AccountsInit ==
  /\ accounts = <<>> /\ issued = <<>> /\ spent = {}
  /\ calls = [c \in Callers |-> None]
  /\ attempts = [n \in Nonces |-> 0] /\ late = {} /\ reached = {} /\ displaced = {}

Ids == 1..Len(accounts)
At(c, at) == calls[c] # None /\ calls[c].at = at
Goes(c, at) == calls' = [calls EXCEPT ![c].at = at]
Ends(c) == calls' = [calls EXCEPT ![c] = None]

Opens(email, address) ==
  /\ Len(accounts) < MaxAccounts
  /\ accounts' = Append(accounts, [email |-> email, wallet |-> address,
                                   proven |-> address, opened |-> address])

(***************************************************************************)
(* The email door: createUser looks, then inserts under a unique key.      *)
(***************************************************************************)
Mailed(email) == {i \in Ids : accounts[i].email = email}

Register(c, email) ==
  /\ calls[c] = None /\ Left("register") /\ Spend("register")
  /\ calls' = IF Mailed(email) # {} THEN calls
              ELSE [calls EXCEPT ![c] = [at |-> "registering", email |-> email]]
  /\ UNCHANGED <<accounts, issued, spent, now, history>>

BugOpenByEmail(c) ==
  /\ At(c, "registering") /\ Ends(c)
  /\ Opens(calls[c].email, None)
  /\ UNCHANGED <<issued, spent, now, budget, history>>
OpenByEmail(c) ==
  /\ At(c, "registering") /\ Ends(c)
  /\ IF Mailed(calls[c].email) # {} THEN UNCHANGED accounts
     ELSE Opens(calls[c].email, None)
  /\ UNCHANGED <<issued, spent, now, budget, history>>

(***************************************************************************)
(* The payout address of an account: typed, and no proof of anything.      *)
(***************************************************************************)
BugLinkWallet(i, address) ==
  /\ Left("link") /\ Spend("link")
  /\ accounts' = [accounts EXCEPT ![i].wallet = address,
                                  ![i].proven = IF @ = address THEN @ ELSE None]
  /\ UNCHANGED <<issued, spent, calls, now, history>>
LinkWallet(i, address) ==
  /\ Left("link") /\ Spend("link")
  /\ accounts' = [accounts EXCEPT ![i].wallet = address]
  /\ UNCHANGED <<issued, spent, calls, now, history>>

UnlinkWallet(i) ==
  /\ Left("unlink") /\ Spend("unlink")
  /\ accounts' = [accounts EXCEPT ![i].wallet = None]
  /\ UNCHANGED <<issued, spent, calls, now, history>>

\* getLinkedWallet: the payout address counts as proven while it signed in.
BugSaysProven(i) == accounts[i].wallet # None /\ accounts[i].proven # None
SaysProven(i) == accounts[i].wallet # None /\ accounts[i].wallet = accounts[i].proven

(***************************************************************************)
(* The nonce: in a cookie the server signed, and a row once presented.     *)
(***************************************************************************)
IssueNonce(n, address) ==
  /\ n = Cardinality(DOMAIN issued) + 1 /\ Left("nonce") /\ Spend("nonce")
  /\ issued' = [m \in 1..n |-> IF m = n THEN [until |-> now + NonceLife, signer |-> address]
                               ELSE issued[m]]
  /\ UNCHANGED <<accounts, spent, calls, now, history>>

\* Whoever holds the cookie and the message may present them again.
Fresh(n) == now < issued[n].until
Present(c, n) ==
  /\ calls[c] = None /\ n \in DOMAIN issued /\ Fresh(n)
  /\ Left("signin") /\ Spend("signin")
  /\ calls' = [calls EXCEPT ![c] = [at |-> "verified", nonce |-> n, attempt |-> 1, account |-> 0,
                                    address |-> issued[n].signer]]
  /\ UNCHANGED <<accounts, issued, spent, now, history>>

\* spendSiweNonce: whoever writes the row has the attempt.
Spends(n) == n \notin spent
SpendNonce(c) ==
  LET n == calls[c].nonce
  IN /\ At(c, "verified")
     /\ IF Spends(n)
        THEN /\ spent' = spent \cup {n}
             /\ attempts' = [attempts EXCEPT ![n] = @ + 1]
             /\ late' = IF Fresh(n) THEN late ELSE late \cup {n}
             /\ Goes(c, "sweeping")
        ELSE Ends(c) /\ UNCHANGED <<spent, attempts, late>>
     /\ UNCHANGED <<accounts, issued, now, budget, reached, displaced>>

\* sweepExpired takes the rows whose cookie has run out, or fails and is not
\* missed; then checkSiweMessage and verifyWalletSignature say yes or no.
BugSwept == {n \in spent : issued[n].until <= now + 1}
Swept == {n \in spent : issued[n].until < now}
SweepAndVerify(c) ==
  /\ At(c, "sweeping")
  /\ spent' \in {spent \ Swept, spent}
  /\ Goes(c, "signed") \/ Ends(c)
  /\ UNCHANGED <<accounts, issued, now, budget, history>>

(***************************************************************************)
(* findOrCreateUserByWallet: three passes, each a read or two and a write. *)
(***************************************************************************)
BugProvenBy(address) == {i \in Ids : accounts[i].wallet = address}
ProvenBy(address) == {i \in Ids : accounts[i].proven = address}
LinkedTo(address) == {i \in Ids : accounts[i].wallet = address /\ accounts[i].proven = None}
Oldest(I) == CHOOSE i \in I : \A j \in I : i <= j

FindProven(c) ==
  LET found == ProvenBy(calls[c].address)
  IN /\ At(c, "signed")
     /\ calls' = IF found = {} THEN [calls EXCEPT ![c].at = "unproven"]
                 ELSE [calls EXCEPT ![c].at = "known", ![c].account = Oldest(found)]
     /\ UNCHANGED <<accounts, issued, spent, now, budget, history>>

\* The account it was reached by: only dates are written.
Reach(c, i) == reached' = reached \cup {<<calls[c].address, i>>}
SignInAgain(c) ==
  /\ At(c, "known") /\ Ends(c) /\ Reach(c, calls[c].account)
  /\ UNCHANGED <<accounts, issued, spent, now, budget, attempts, late, displaced>>

FindLinked(c) ==
  LET found == LinkedTo(calls[c].address)
  IN /\ At(c, "unproven")
     /\ calls' = IF found = {} THEN [calls EXCEPT ![c].at = "creating"]
                 ELSE [calls EXCEPT ![c].at = "pinning", ![c].account = Oldest(found)]
     /\ UNCHANGED <<accounts, issued, spent, now, budget, history>>

\* The write was refused by the unique key: read again, three times at most.
LostRace(c) ==
  IF calls[c].attempt >= 3 THEN Ends(c)
  ELSE calls' = [calls EXCEPT ![c].at = "signed", ![c].attempt = @ + 1]

\* Whatever the account has become since it was read.
Pin(c) ==
  LET i == calls[c].account
      address == calls[c].address
  IN /\ At(c, "pinning")
     /\ IF ProvenBy(address) \ {i} # {}
        THEN LostRace(c) /\ UNCHANGED <<accounts, reached, displaced>>
        ELSE /\ accounts' = [accounts EXCEPT ![i].proven = address]
             /\ displaced' = displaced \cup ({accounts[i].proven} \ {None, address})
             /\ Ends(c) /\ Reach(c, i)
     /\ UNCHANGED <<issued, spent, now, budget, attempts, late>>

BugOpenByWallet(c) ==
  /\ At(c, "creating")
  /\ Opens(None, calls[c].address) /\ Ends(c) /\ Reach(c, Len(accounts) + 1)
  /\ UNCHANGED <<issued, spent, now, budget, attempts, late, displaced>>
OpenByWallet(c) ==
  /\ At(c, "creating")
  /\ IF ProvenBy(calls[c].address) # {}
     THEN LostRace(c) /\ UNCHANGED <<accounts, reached>>
     ELSE Opens(None, calls[c].address) /\ Ends(c) /\ Reach(c, Len(accounts) + 1)
  /\ UNCHANGED <<issued, spent, now, budget, attempts, late, displaced>>

\* The process dies; the rows stay.
AccountsLost ==
  /\ calls' = [c \in Callers |-> None]
  /\ UNCHANGED <<accounts, issued, spent, history>>

CallSteps(c) ==
  \/ \E email \in Emails : Register(c, email)
  \/ \E n \in Nonces : Present(c, n)
  \/ OpenByEmail(c) \/ SpendNonce(c) \/ SweepAndVerify(c)
  \/ FindProven(c) \/ SignInAgain(c) \/ FindLinked(c) \/ Pin(c) \/ OpenByWallet(c)

AccountsNext ==
  \/ \E c \in Callers : CallSteps(c)
  \/ \E i \in Ids : UnlinkWallet(i) \/ \E address \in Addresses : LinkWallet(i, address)
  \/ \E n \in Nonces, address \in Addresses : IssueNonce(n, address)

(***************************************************************************)
(* Properties.                                                             *)
(***************************************************************************)

\* One account for an email, and one for an address that has signed in.
AccountsTypeOK ==
  /\ \A i \in Ids : /\ accounts[i].email \in Emails \cup {None}
                    /\ accounts[i].wallet \in Addresses \cup {None}
                    /\ accounts[i].proven \in Addresses \cup {None}
  /\ \A i, j \in Ids : /\ accounts[i].email = accounts[j].email => i = j \/ accounts[i].email = None
                       /\ accounts[i].proven = accounts[j].proven => i = j \/ accounts[i].proven = None
  /\ spent \subseteq DOMAIN issued /\ DOMAIN issued \subseteq Nonces
  /\ \A c \in Callers : calls[c] # None /\ calls[c].at \in {"known", "pinning"} => calls[c].account \in Ids

(***************************************************************************)
(* "One nonce, one attempt" (siwe-nonces.ts), however often the request is *)
(* replayed and whenever old rows are swept; except by a request that read *)
(* its cookie in time and wrote its row after the cookie had run out, when *)
(* the row of the first attempt may be swept already.                      *)
(***************************************************************************)
OneNonceOneAttempt == \A n \in Nonces \ late : attempts[n] <= 1

(***************************************************************************)
(* Two tabs are one wallet: an address that signed in reaches one account  *)
(* for good, whatever is typed as a payout address and however sign-ins    *)
(* race; except when two addresses were pinned to one account at once, and *)
(* one took the place of the other (reachWalletAccount).                   *)
(***************************************************************************)
OneAddressOneAccount ==
  \A x, y \in reached : x[1] = y[1] /\ x[1] \notin displaced => x[2] = y[2]

(***************************************************************************)
(* An account with no email keeps the address that opened it, its only way *)
(* in, whatever becomes of its payout address (linkWallet, unlinkWallet).  *)
(***************************************************************************)
WalletAccountsKeepTheirDoor ==
  \A i \in Ids : accounts[i].email = None => accounts[i].proven = accounts[i].opened

(***************************************************************************)
(* An address that is shown as proven has signed in to that account.       *)
(***************************************************************************)
ProvenMeansSigned == \A i \in Ids : SaysProven(i) => <<accounts[i].wallet, i>> \in reached

(***************************************************************************)
(* Typing a payout address gives nobody a door and takes nobody's: an      *)
(* account without an email keeps the address it was opened with, and an   *)
(* address is shown as proven only where it has signed in.                 *)
(***************************************************************************)
AccountsKeepTheirDoors == WalletAccountsKeepTheirDoor /\ ProvenMeansSigned

(***************************************************************************)
(* One lost race is all there is: the account that won is found by the     *)
(* second pass (findOrCreateUserByWallet), unless its address was taken    *)
(* over in between.                                                        *)
(***************************************************************************)
SecondPassFinds == \A c \in Callers : calls[c] # None /\ calls[c].at # "registering" /\ calls[c].attempt > 2
                     => calls[c].address \in displaced

=============================================================================
