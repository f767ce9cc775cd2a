---------------------------- MODULE WalletAccount ----------------------------
(***************************************************************************)
(* Wallet challenges and multi-wallet accounts: AuthService               *)
(* (src/server/src/services/auth.service.ts) and UserService.createUser   *)
(* (src/server/src/services/user.service.ts).                              *)
(*                                                                         *)
(* linkWallet, unlinkWallet and setPrimaryWallet each run in one database  *)
(* transaction that begins with SELECT ... FOR UPDATE on the User row, so  *)
(* the operations on one user are serialised; operations on two users     *)
(* meet only at the unique indexes on Wallet.address and                   *)
(* User.stellarAddress, where the later writer fails with P2002 and its    *)
(* transaction rolls back whole. Each such transaction is therefore one    *)
(* atomic step, and a failing one is no step at all.                       *)
(*                                                                         *)
(* A wallet is identified by its address (Wallet.address is unique). A    *)
(* user's wallets are the sequence wallets[u] in createdAt order, the     *)
(* order of findMany orderBy createdAt asc. Nonces are the model values of *)
(* Challenges; a signature that does not verify changes nothing and is    *)
(* left out, so a LinkWallet step is one whose signature verified.         *)
(***************************************************************************)
EXTENDS Naturals, Sequences

CONSTANTS
    Users,       \* user ids
    Addresses,   \* normalised Stellar addresses
    Challenges,  \* nonces
    Labels,      \* wallet labels other than none
    NoChallenge  \* the row of a nonce never issued

NoUser == "NoUser"          \* a user id that has no User row; userId null
NoLabel == "NoLabel"
Purposes == {"LOGIN", "LINK_WALLET"}

ChallengeRecord ==
    [addr : Addresses, purpose : Purposes, user : Users \cup {NoUser},
     used : BOOLEAN, expired : BOOLEAN]

ASSUME NoChallengeAssumption == NoChallenge \notin ChallengeRecord

\* The sentinels differ from every real address and label.
ASSUME SentinelAssumption == NoUser \notin Addresses /\ NoLabel \notin Labels

VARIABLES
    userAddr,    \* userAddr[u]: User.stellarAddress, or NoUser if no row
    wallets,     \* wallets[u]: the addresses of u's Wallet rows, oldest first
    primary,     \* primary[a]: Wallet.isPrimary of the wallet with address a
    label,       \* label[a]: Wallet.label
    chal,        \* chal[c]: the WalletChallenge row of nonce c
    uses         \* uses[c]: successful consumptions of c, counted up to 2

vars == <<userAddr, wallets, primary, label, chal, uses>>

\* The elements of a list.
SeqElems(ws) == {ws[i] : i \in 1..Len(ws)}

\* The addresses of the wallets of user u: findMany where userId.
WalletsOf(u) == SeqElems(wallets[u])

\* Some Wallet row has address a: findUnique where address.
Linked(a) == \E u \in Users : a \in WalletsOf(u)

UserExists(u) == userAddr[u] # NoUser

\* Some user other than u has stellarAddress a (the unique index on it).
AddressHeldByOther(u, a) == \E v \in Users : v # u /\ userAddr[v] = a

\* The database after the migrations: no rows.
EmptyDatabase ==
    /\ userAddr = [u \in Users |-> NoUser]
    /\ wallets = [u \in Users |-> << >>]
    /\ primary = [a \in Addresses |-> FALSE]
    /\ label = [a \in Addresses |-> NoLabel]
    /\ chal = [c \in Challenges |-> NoChallenge]
    /\ uses = [c \in Challenges |-> 0]

\* The users prisma/seed.ts upserts, alice and bob, with their stellarAddress.
SeedUsers(alice, bob, aa, ba) ==
    [u \in Users |-> IF u = alice THEN aa ELSE IF u = bob THEN ba ELSE NoUser]

(* The database after prisma/seed.ts on an empty one: each seeded user has *)
(* one wallet, at its stellarAddress, primary and labelled 'Primary'.       *)
Seeded(alice, bob, aa, ba, l) ==
    /\ userAddr = SeedUsers(alice, bob, aa, ba)
    /\ wallets = [u \in Users |-> IF u \in {alice, bob}
                                    THEN << SeedUsers(alice, bob, aa, ba)[u] >>
                                    ELSE << >>]
    /\ primary = [a \in Addresses |-> a \in {aa, ba}]
    /\ label = [a \in Addresses |-> IF a \in {aa, ba} THEN l ELSE NoLabel]
    /\ chal = [c \in Challenges |-> NoChallenge]
    /\ uses = [c \in Challenges |-> 0]

Init ==
    \/ EmptyDatabase
    \/ \E alice, bob \in Users, aa, ba \in Addresses, l \in Labels :
          alice # bob /\ aa # ba /\ Seeded(alice, bob, aa, ba, l)

-----------------------------------------------------------------------------
(* createUser: upsert on stellarAddress; a new User row is created when   *)
(* no user has the address, and nothing else is consulted.                 *)
CreateUser(u, a) ==
    /\ ~UserExists(u)
    /\ \A v \in Users : userAddr[v] # a
    /\ userAddr' = [userAddr EXCEPT ![u] = a]
    /\ UNCHANGED <<wallets, primary, label, chal, uses>>

(* generateChallenge: a fresh nonce for the address; LINK_WALLET requires *)
(* a userId, and the foreign key requires that user to exist.              *)
GenerateChallenge(c, a, p, u) ==
    /\ chal[c] = NoChallenge
    /\ p = "LINK_WALLET" => u # NoUser
    /\ u # NoUser => UserExists(u)
    /\ chal' = [chal EXCEPT ![c] = [addr |-> a, purpose |-> p, user |-> u,
                                    used |-> FALSE, expired |-> FALSE]]
    /\ UNCHANGED <<userAddr, wallets, primary, label, uses>>

(* CHALLENGE_TTL_MS passes for a challenge.                               *)
ExpireChallenge(c) ==
    /\ chal[c] # NoChallenge
    /\ ~chal[c].expired
    /\ chal' = [chal EXCEPT ![c].expired = TRUE]
    /\ UNCHANGED <<userAddr, wallets, primary, label, uses>>

\* Mutant: the consume without "usedAt: null" in its where.
ConsumableReused(c, a, p, u) ==
    /\ chal[c] # NoChallenge
    /\ chal[c].addr = a /\ chal[c].purpose = p /\ chal[c].user = u
    /\ ~chal[c].expired

\* The where of the atomic consume in verifyAndConsumeChallenge.
Consumable(c, a, p, u) ==
    /\ chal[c] # NoChallenge
    /\ chal[c].addr = a /\ chal[c].purpose = p /\ chal[c].user = u
    /\ ~chal[c].used
    /\ ~chal[c].expired

\* updateMany set usedAt = now, required to match one row.
Consume(c) ==
    /\ chal' = [chal EXCEPT ![c].used = TRUE]
    /\ uses' = [uses EXCEPT ![c] = IF uses[c] < 2 THEN uses[c] + 1 ELSE 2]

(* linkWallet: lock, the two "already linked" checks, the consume, count  *)
(* the user's wallets, create the wallet (primary if it is the first) and *)
(* make a first wallet the user's stellarAddress.                          *)
LinkWallet(u, a, c, l) ==
    LET isPrimary == wallets[u] = << >> IN
    /\ UserExists(u)
    /\ ~Linked(a)
    /\ ~AddressHeldByOther(u, a)
    /\ Consumable(c, a, "LINK_WALLET", u)
    /\ Consume(c)
    /\ wallets' = [wallets EXCEPT ![u] = Append(@, a)]
    /\ primary' = [primary EXCEPT ![a] = isPrimary]
    /\ label' = [label EXCEPT ![a] = l]
    /\ userAddr' = IF isPrimary THEN [userAddr EXCEPT ![u] = a] ELSE userAddr

\* The first wallet of the list ws other than a, for a list of two or more
\* without repeats: wallets.find(item => item.id !== walletId).
Replacement(ws, a) == IF ws[1] # a THEN ws[1] ELSE ws[2]

\* The list ws without the address a, which it holds once.
Without(ws, a) ==
    LET i == CHOOSE k \in 1..Len(ws) : ws[k] = a
    IN  [j \in 1..(Len(ws) - 1) |-> IF j < i THEN ws[j] ELSE ws[j + 1]]

\* Mutant: a new primary chosen without clearing the flag of the others.
MakePrimaryKeepOthers(u, a) ==
    primary' = [primary EXCEPT ![a] = TRUE]

\* updateMany isPrimary = false for the user's wallets, then isPrimary on a.
MakePrimary(u, a) ==
    primary' = [x \in Addresses |-> IF x \in WalletsOf(u) THEN x = a ELSE primary[x]]

(* unlinkWallet: lock, find the wallet among the user's, refuse the only  *)
(* wallet; a primary hands its role and the stellarAddress to the oldest  *)
(* other wallet; then the wallet is deleted.                               *)
UnlinkWallet(u, a) ==
    /\ UserExists(u)
    /\ a \in WalletsOf(u)
    /\ Len(wallets[u]) > 1
    /\ IF primary[a]
       THEN LET r == Replacement(wallets[u], a) IN
            /\ ~AddressHeldByOther(u, r)
            /\ MakePrimary(u, r)
            /\ userAddr' = [userAddr EXCEPT ![u] = r]
       ELSE UNCHANGED <<primary, userAddr>>
    /\ wallets' = [wallets EXCEPT ![u] = Without(@, a)]
    /\ label' = [label EXCEPT ![a] = NoLabel]
    /\ UNCHANGED <<chal, uses>>

(* setPrimaryWallet: lock, findFirst the wallet of the user, clear every  *)
(* primary flag of the user, set the chosen one, and copy its address to  *)
(* User.stellarAddress (which fails with P2002 if another user has it).    *)
SetPrimaryWallet(u, a) ==
    /\ UserExists(u)
    /\ a \in WalletsOf(u)
    /\ ~AddressHeldByOther(u, a)
    /\ MakePrimary(u, a)
    /\ userAddr' = [userAddr EXCEPT ![u] = a]
    /\ UNCHANGED <<wallets, label, chal, uses>>

(* updateWalletLabel: findFirst the wallet of the user, then update it.   *)
UpdateWalletLabel(u, a, l) ==
    /\ a \in WalletsOf(u)
    /\ label' = [label EXCEPT ![a] = l]
    /\ UNCHANGED <<userAddr, wallets, primary, chal, uses>>

(* The model's nonces are all issued. The code can always issue another; *)
(* the bound on Challenges ends the behaviour here.                        *)
NoncesExhausted ==
    /\ \A c \in Challenges : chal[c] # NoChallenge
    /\ UNCHANGED vars

-----------------------------------------------------------------------------
Next ==
    \/ \E u \in Users, a \in Addresses : CreateUser(u, a)
    \/ \E c \in Challenges, a \in Addresses, p \in Purposes, u \in Users \cup {NoUser} :
          GenerateChallenge(c, a, p, u)
    \/ \E c \in Challenges : ExpireChallenge(c)
    \/ \E u \in Users, a \in Addresses, c \in Challenges, l \in Labels \cup {NoLabel} :
          LinkWallet(u, a, c, l)
    \/ \E u \in Users, a \in Addresses :
          UnlinkWallet(u, a) \/ SetPrimaryWallet(u, a)
    \/ \E u \in Users, a \in Addresses, l \in Labels \cup {NoLabel} :
          UpdateWalletLabel(u, a, l)
    \/ NoncesExhausted

Spec == Init /\ [][Next]_vars

-----------------------------------------------------------------------------
\* The User, Wallet and WalletChallenge rows are typed.
TypeOK ==
    /\ userAddr \in [Users -> Addresses \cup {NoUser}]
    /\ wallets \in [Users -> Seq(Addresses)]
    /\ primary \in [Addresses -> BOOLEAN]
    /\ label \in [Addresses -> Labels \cup {NoLabel}]
    /\ chal \in [Challenges -> ChallengeRecord \cup {NoChallenge}]
    /\ uses \in [Challenges -> 0..2]

(***************************************************************************)
(* Exactly one wallet of a user with wallets is primary, and it is the    *)
(* user's stellarAddress; no deleted wallet keeps the flag. linkWallet,    *)
(* unlinkWallet and setPrimaryWallet each rewrite the flags of several     *)
(* rows and the User row in one transaction.                               *)
(***************************************************************************)
PrimaryConsistent ==
    /\ \A u \in Users :
          WalletsOf(u) # {} => {a \in WalletsOf(u) : primary[a]} = {userAddr[u]}
    /\ \A a \in Addresses : primary[a] => Linked(a)

(***************************************************************************)
(* A nonce authorises at most one wallet link: the consume of             *)
(* verifyAndConsumeChallenge succeeds at most once per challenge, even     *)
(* when the wallet it linked is unlinked and linked again.                 *)
(***************************************************************************)
ChallengeConsumedOnce == \A c \in Challenges : uses[c] <= 1

(***************************************************************************)
(* The spec: a wallet address belongs to one account. An address that is  *)
(* a linked wallet of one user is not the stellarAddress of another user.  *)
(* linkWallet checks both tables; createUser checks only User.             *)
(***************************************************************************)
AddressExclusive ==
    \A a \in Addresses, u \in Users :
        Linked(a) /\ userAddr[u] = a => a \in WalletsOf(u)
=============================================================================
