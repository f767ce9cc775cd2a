------------------------- MODULE WalletAccountProofs -------------------------
(***************************************************************************)
(* Proofs that the wallet operations keep the rows typed and keep exactly  *)
(* one primary wallet per account, for any sets of users, addresses,       *)
(* nonces and labels.                                                      *)
(***************************************************************************)
EXTENDS WalletAccount, SequenceTheorems, TLAPS

\* A list of wallets holds each address once (Wallet.address is unique).
NoRepeats(ws) == \A i, j \in 1..Len(ws) : ws[i] = ws[j] => i = j

(***************************************************************************)
(* Appending an address the list does not hold, as linkWallet's create    *)
(* does, keeps the list free of repeats and adds exactly that address.    *)
(***************************************************************************)
LEMMA AppendLemma ==
    ASSUME NEW S, NEW ws \in Seq(S), NEW a \in S,
           NoRepeats(ws), a \notin SeqElems(ws)
    PROVE  /\ Append(ws, a) \in Seq(S)
           /\ SeqElems(Append(ws, a)) = SeqElems(ws) \cup {a}
           /\ NoRepeats(Append(ws, a))
<1>1. Append(ws, a) \in Seq(S)
    OBVIOUS
<1>2. SeqElems(Append(ws, a)) = SeqElems(ws) \cup {a}
    BY DEF SeqElems
<1>3. NoRepeats(Append(ws, a))
    BY DEF NoRepeats, SeqElems
<1> QED BY <1>1, <1>2, <1>3

(***************************************************************************)
(* Deleting an address from a list that holds it once, as unlinkWallet's  *)
(* delete does, removes exactly that address and keeps the list free of   *)
(* repeats.                                                                *)
(***************************************************************************)
LEMMA WithoutLemma ==
    ASSUME NEW S, NEW ws \in Seq(S), NEW a \in SeqElems(ws), NoRepeats(ws)
    PROVE  /\ Without(ws, a) \in Seq(S)
           /\ SeqElems(Without(ws, a)) = SeqElems(ws) \ {a}
           /\ NoRepeats(Without(ws, a))
<1> DEFINE n == Len(ws)
<1> PICK i \in 1..n : ws[i] = a
    BY DEF SeqElems
<1>1. i \in 1..n /\ ws[i] = a /\ n \in Nat
    OBVIOUS
<1>2. \A k \in 1..n : ws[k] = a => k = i
    BY <1>1 DEF NoRepeats
<1>3. Without(ws, a) = [j \in 1..(n - 1) |-> IF j < i THEN ws[j] ELSE ws[j + 1]]
    <2>1. (CHOOSE k \in 1..n : ws[k] = a) = i
        BY <1>1, <1>2
    <2> QED BY <2>1 DEF Without
<1>4. Without(ws, a) \in Seq(S)
    BY <1>1, <1>3
<1>5. Len(Without(ws, a)) = n - 1 /\ n \in Nat
    BY <1>1, <1>3
<1>6. \A j \in 1..(n - 1) : Without(ws, a)[j] = IF j < i THEN ws[j] ELSE ws[j + 1]
    BY <1>3
<1>7. SeqElems(Without(ws, a)) = SeqElems(ws) \ {a}
    <2>1. SeqElems(Without(ws, a)) \subseteq SeqElems(ws) \ {a}
        <3> SUFFICES ASSUME NEW j \in 1..(n - 1)
                     PROVE  Without(ws, a)[j] \in SeqElems(ws) \ {a}
            BY <1>5 DEF SeqElems
        <3>1. CASE j < i
            <4>1. j \in 1..n /\ j # i
                <5>1. j \in 1..n
                    BY <1>5
                <5>2. j # i
                    BY <3>1
                <5> QED BY <5>1, <5>2
            <4>2. ws[j] # a
                BY <1>2, <4>1
            <4> QED BY <1>6, <3>1, <4>1, <4>2 DEF SeqElems
        <3>2. CASE ~(j < i)
            <4>1. j + 1 \in 1..n /\ j + 1 # i
                <5>1. j + 1 \in 1..n
                    BY <1>5
                <5>2. j + 1 # i
                    BY <1>1, <1>5, <3>2
                <5> QED BY <5>1, <5>2
            <4>2. ws[j + 1] # a
                BY <1>2, <4>1
            <4> QED BY <1>6, <3>2, <4>1, <4>2 DEF SeqElems
        <3> QED BY <3>1, <3>2
    <2>2. SeqElems(ws) \ {a} \subseteq SeqElems(Without(ws, a))
        <3> SUFFICES ASSUME NEW k \in 1..n, ws[k] # a
                     PROVE  ws[k] \in SeqElems(Without(ws, a))
            BY DEF SeqElems
        <3>1. k # i
            BY <1>1
        <3>2. CASE k < i
            <4>1. k \in 1..(n - 1) /\ Without(ws, a)[k] = ws[k]
                BY <1>1, <1>6, <3>2
            <4> QED BY <1>5, <4>1 DEF SeqElems
        <3>3. CASE k > i
            <4>1. k - 1 \in 1..(n - 1) /\ ~(k - 1 < i)
                BY <1>1, <3>3
            <4>2. Without(ws, a)[k - 1] = ws[k]
                BY <1>6, <4>1
            <4> QED BY <1>5, <4>1, <4>2 DEF SeqElems
        <3> QED BY <1>1, <3>1, <3>2, <3>3
    <2> QED BY <2>1, <2>2
<1>8. NoRepeats(Without(ws, a))
    <2> SUFFICES ASSUME NEW j1 \in 1..(n - 1), NEW j2 \in 1..(n - 1),
                        Without(ws, a)[j1] = Without(ws, a)[j2]
                 PROVE  j1 = j2
        BY <1>5 DEF NoRepeats
    <2>1. (IF j1 < i THEN ws[j1] ELSE ws[j1 + 1]) = (IF j2 < i THEN ws[j2] ELSE ws[j2 + 1])
        BY <1>6
    <2> QED BY <2>1, <1>1, <1>5 DEF NoRepeats
<1> QED BY <1>4, <1>7, <1>8

(***************************************************************************)
(* The replacement unlinkWallet promotes is another wallet of the list.   *)
(***************************************************************************)
LEMMA ReplacementLemma ==
    ASSUME NEW S, NEW ws \in Seq(S), NEW a, NoRepeats(ws), Len(ws) > 1
    PROVE  Replacement(ws, a) \in SeqElems(ws) \ {a}
BY DEF Replacement, NoRepeats, SeqElems

-----------------------------------------------------------------------------
(***************************************************************************)
(* The inductive invariant. PrimaryConsistent alone is not preserved: a    *)
(* link needs the new address to be in no list, an unlink needs the       *)
(* deleted address to occur once in its list and in no other user's list,  *)
(* and createUser needs a user without a row to have no wallets.           *)
(***************************************************************************)
IInv ==
    /\ TypeOK
    /\ \A u \in Users : NoRepeats(wallets[u])
    /\ \A u, v \in Users : u # v => WalletsOf(u) \cap WalletsOf(v) = {}
    /\ \A u \in Users : wallets[u] # << >> => UserExists(u)
    /\ PrimaryConsistent

\* The empty database satisfies the inductive invariant.
LEMMA EmptyIInv == EmptyDatabase => IInv
BY SentinelAssumption DEF EmptyDatabase, IInv, TypeOK, NoRepeats, WalletsOf, SeqElems,
   PrimaryConsistent, Linked, UserExists

\* So does the seeded one: two users, each with one primary wallet at its
\* stellarAddress, and the two addresses differ.
LEMMA SeededIInv ==
    ASSUME NEW alice \in Users, NEW bob \in Users, NEW aa \in Addresses,
           NEW ba \in Addresses, NEW l \in Labels, alice # bob, aa # ba,
           Seeded(alice, bob, aa, ba, l)
    PROVE  IInv
<1>. DEFINE A == SeedUsers(alice, bob, aa, ba)
<1>1. /\ A[alice] = aa /\ A[bob] = ba
      /\ \A u \in Users \ {alice, bob} : A[u] = NoUser
      /\ A \in [Users -> Addresses \cup {NoUser}]
  BY DEF SeedUsers
<1>2. /\ wallets[alice] = << aa >> /\ wallets[bob] = << ba >>
      /\ \A u \in Users \ {alice, bob} : wallets[u] = << >>
      /\ userAddr = A
  BY <1>1 DEF Seeded
<1>3. /\ WalletsOf(alice) = {aa} /\ WalletsOf(bob) = {ba}
      /\ \A u \in Users \ {alice, bob} : WalletsOf(u) = {}
  <2>1. \A x : SeqElems(<< x >>) = {x}
    BY DEF SeqElems
  <2>2. SeqElems(<< >>) = {}
    BY DEF SeqElems
  <2>. QED
    BY <1>2, <2>1, <2>2 DEF WalletsOf
<1>4. TypeOK
  BY <1>1, <1>2 DEF Seeded, TypeOK
<1>5. \A u \in Users : NoRepeats(wallets[u])
  BY <1>2 DEF NoRepeats
<1>6. \A u, v \in Users : u # v => WalletsOf(u) \cap WalletsOf(v) = {}
  BY <1>3
<1>7. \A u \in Users : wallets[u] # << >> => UserExists(u)
  BY <1>1, <1>2, SentinelAssumption DEF UserExists
<1>8. PrimaryConsistent
  <2>1. primary = [a \in Addresses |-> a \in {aa, ba}]
    BY DEF Seeded
  <2>2. \A u \in Users : WalletsOf(u) # {} => {a \in WalletsOf(u) : primary[a]} = {userAddr[u]}
    BY <1>1, <1>2, <1>3, <2>1
  <2>3. \A a \in Addresses : primary[a] => Linked(a)
    BY <1>3, <2>1 DEF Linked
  <2>. QED
    BY <2>2, <2>3 DEF PrimaryConsistent
<1>. QED
  BY <1>4, <1>5, <1>6, <1>7, <1>8 DEF IInv

\* The initial state satisfies the inductive invariant.
LEMMA InitIInv == Init => IInv
BY EmptyIInv, SeededIInv DEF Init

(***************************************************************************)
(* createUser adds a User row to a user that has no wallets.               *)
(***************************************************************************)
LEMMA CreateUserIInv ==
    ASSUME IInv, NEW u \in Users, NEW a \in Addresses, CreateUser(u, a)
    PROVE  IInv'
<1> USE DEF IInv
<1>1. wallets[u] = << >>
    BY DEF CreateUser, UserExists
<1>2. TypeOK'
    BY DEF CreateUser, TypeOK
<1>3. \A v \in Users : wallets'[v] # << >> => UserExists(v)'
    BY SentinelAssumption, <1>1 DEF CreateUser, UserExists, TypeOK
<1>4. PrimaryConsistent'
    <2>1. ASSUME NEW v \in Users, WalletsOf(v)' # {}
          PROVE  {x \in WalletsOf(v)' : primary'[x]} = {userAddr'[v]}
        <3>1. v # u /\ WalletsOf(v) # {}
            <4>1. WalletsOf(v)' = WalletsOf(v)
                BY DEF CreateUser, WalletsOf
            <4>2. WalletsOf(u) = {}
                BY <1>1 DEF WalletsOf, SeqElems
            <4> QED BY <2>1, <4>1, <4>2
        <3>2. userAddr'[v] = userAddr[v]
            BY <3>1 DEF CreateUser, TypeOK
        <3> QED BY <3>1, <3>2 DEF CreateUser, PrimaryConsistent, WalletsOf
    <2>2. \A x \in Addresses : primary'[x] => Linked(x)'
        BY DEF CreateUser, PrimaryConsistent, Linked, WalletsOf
    <2> QED BY <2>1, <2>2 DEF PrimaryConsistent
<1> QED BY <1>2, <1>3, <1>4 DEF CreateUser, WalletsOf

(***************************************************************************)
(* A challenge row that is consumed stays a challenge row.                 *)
(***************************************************************************)
LEMMA ConsumeType ==
    ASSUME TypeOK, NEW c \in Challenges, chal[c] # NoChallenge, Consume(c)
    PROVE  chal' \in [Challenges -> ChallengeRecord \cup {NoChallenge}]
           /\ uses' \in [Challenges -> 0..2]
<1>1. chal[c] \in ChallengeRecord
    BY DEF TypeOK
<1>2. [chal[c] EXCEPT !.used = TRUE] \in ChallengeRecord
    BY <1>1 DEF ChallengeRecord
<1>3. chal' \in [Challenges -> ChallengeRecord \cup {NoChallenge}]
    BY <1>2 DEF TypeOK, Consume
<1>4. uses' \in [Challenges -> 0..2]
    BY DEF TypeOK, Consume
<1> QED BY <1>3, <1>4

(***************************************************************************)
(* linkWallet appends an address no list holds; it is the user's primary  *)
(* and stellarAddress exactly when the user had no wallet.                 *)
(***************************************************************************)
LEMMA LinkWalletIInv ==
    ASSUME IInv, NEW u \in Users, NEW a \in Addresses, NEW c \in Challenges,
           NEW l \in Labels \cup {NoLabel}, LinkWallet(u, a, c, l)
    PROVE  IInv'
<1> USE DEF IInv
<1> DEFINE W == WalletsOf(u)
           isPrimary == wallets[u] = << >>
<1>1. /\ wallets' = [wallets EXCEPT ![u] = Append(wallets[u], a)]
      /\ primary' = [primary EXCEPT ![a] = isPrimary]
      /\ label' = [label EXCEPT ![a] = l]
      /\ userAddr' = IF isPrimary THEN [userAddr EXCEPT ![u] = a] ELSE userAddr
      /\ UserExists(u) /\ ~Linked(a) /\ Consume(c) /\ chal[c] # NoChallenge
    BY DEF LinkWallet, Consumable
<1>2. \A v \in Users : a \notin WalletsOf(v)
    BY <1>1 DEF Linked
<1>3. /\ Append(wallets[u], a) \in Seq(Addresses)
      /\ SeqElems(Append(wallets[u], a)) = W \cup {a}
      /\ NoRepeats(Append(wallets[u], a))
    BY <1>2, AppendLemma DEF TypeOK, WalletsOf
<1>4. /\ WalletsOf(u)' = W \cup {a}
      /\ \A v \in Users : v # u => WalletsOf(v)' = WalletsOf(v)
    BY <1>1, <1>3 DEF TypeOK, WalletsOf
<1>5. TypeOK'
    BY <1>1, <1>3, ConsumeType DEF TypeOK
<1>6. \A v \in Users : NoRepeats(wallets'[v])
    BY <1>1, <1>3 DEF TypeOK
<1>7. \A v, w \in Users : v # w => WalletsOf(v)' \cap WalletsOf(w)' = {}
    BY <1>2, <1>4
<1>8. \A v \in Users : wallets'[v] # << >> => UserExists(v)'
    BY <1>1, SentinelAssumption DEF TypeOK, UserExists
<1>9. PrimaryConsistent'
    <2>1. ASSUME NEW v \in Users, WalletsOf(v)' # {}
          PROVE  {x \in WalletsOf(v)' : primary'[x]} = {userAddr'[v]}
        <3>1. CASE v # u
            <4>1. WalletsOf(v) # {} /\ userAddr'[v] = userAddr[v]
                BY <1>1, <1>4, <2>1, <3>1 DEF TypeOK
            <4>2. \A x \in WalletsOf(v) : primary'[x] = primary[x]
                BY <1>1, <1>2 DEF TypeOK
            <4> QED BY <1>4, <3>1, <4>1, <4>2 DEF PrimaryConsistent
        <3>2. CASE v = u /\ isPrimary
            <4>1. W = {}
                BY <3>2 DEF WalletsOf, SeqElems
            <4>2. primary'[a] /\ userAddr'[u] = a
                BY <1>1, <3>2 DEF TypeOK
            <4> QED BY <1>4, <3>2, <4>1, <4>2
        <3>3. CASE v = u /\ ~isPrimary
            <4>1. W # {}
                <5>1. Len(wallets[u]) \in Nat \ {0}
                    BY <3>3, EmptySeq DEF TypeOK, isPrimary
                <5>2. wallets[u][1] \in SeqElems(wallets[u])
                    BY <5>1 DEF SeqElems
                <5> QED BY <5>2 DEF W, WalletsOf
            <4>2. ~primary'[a] /\ userAddr'[u] = userAddr[u]
                BY <1>1, <3>3 DEF TypeOK
            <4>3. \A x \in W : primary'[x] = primary[x]
                BY <1>1, <1>2 DEF TypeOK
            <4> QED BY <1>4, <3>3, <4>1, <4>2, <4>3 DEF PrimaryConsistent
        <3> QED BY <3>1, <3>2, <3>3
    <2>2. ASSUME NEW x \in Addresses, primary'[x] PROVE Linked(x)'
        <3>1. CASE x = a
            BY <1>4, <3>1 DEF Linked
        <3>2. CASE x # a
            <4>1. primary[x]
                BY <1>1, <2>2, <3>2 DEF TypeOK
            <4>2. PICK v \in Users : x \in WalletsOf(v)
                BY <4>1 DEF PrimaryConsistent, Linked
            <4> QED BY <1>4, <4>2 DEF Linked
        <3> QED BY <3>1, <3>2
    <2> QED BY <2>1, <2>2 DEF PrimaryConsistent
<1> QED BY <1>5, <1>6, <1>7, <1>8, <1>9

(***************************************************************************)
(* MakePrimary(u, r) with r a wallet of u leaves r the only primary wallet *)
(* of u and changes no flag of another user's wallet.                      *)
(***************************************************************************)
LEMMA MakePrimaryLemma ==
    ASSUME IInv, NEW u \in Users, NEW r \in WalletsOf(u), MakePrimary(u, r)
    PROVE  /\ primary' \in [Addresses -> BOOLEAN]
           /\ \A x \in WalletsOf(u) : primary'[x] = (x = r)
           /\ \A v \in Users : v # u =>
                 \A x \in WalletsOf(v) : primary'[x] = primary[x]
           /\ \A x \in Addresses : x \notin WalletsOf(u) => primary'[x] = primary[x]
<1>1. primary' \in [Addresses -> BOOLEAN]
    BY DEF MakePrimary, IInv, TypeOK
<1>2. \A x \in WalletsOf(u) : x \in Addresses
    BY DEF IInv, TypeOK, WalletsOf, SeqElems
<1>3. \A v \in Users : v # u => \A x \in WalletsOf(v) : x \notin WalletsOf(u)
    BY DEF IInv
<1>4. \A v \in Users : \A x \in WalletsOf(v) : x \in Addresses
    BY DEF IInv, TypeOK, WalletsOf, SeqElems
<1> QED BY <1>1, <1>2, <1>3, <1>4 DEF MakePrimary

(***************************************************************************)
(* unlinkWallet deletes one of the user's wallets, and a deleted primary   *)
(* hands the flag and the stellarAddress to the replacement.               *)
(***************************************************************************)
LEMMA UnlinkWalletIInv ==
    ASSUME IInv, NEW u \in Users, NEW a \in Addresses, UnlinkWallet(u, a)
    PROVE  IInv'
<1> USE DEF IInv
<1> DEFINE W == WalletsOf(u)
           r == Replacement(wallets[u], a)
<1>1. /\ a \in W /\ Len(wallets[u]) > 1 /\ UserExists(u)
      /\ wallets' = [wallets EXCEPT ![u] = Without(wallets[u], a)]
      /\ label' = [label EXCEPT ![a] = NoLabel]
      /\ UNCHANGED <<chal, uses>>
    BY DEF UnlinkWallet, W
<1>2. /\ Without(wallets[u], a) \in Seq(Addresses)
      /\ SeqElems(Without(wallets[u], a)) = W \ {a}
      /\ NoRepeats(Without(wallets[u], a))
    BY <1>1, WithoutLemma DEF TypeOK, W, WalletsOf
<1>3. r \in W \ {a}
    BY <1>1, ReplacementLemma DEF TypeOK, r, W, WalletsOf
<1>4. /\ WalletsOf(u)' = W \ {a}
      /\ \A v \in Users : v # u => WalletsOf(v)' = WalletsOf(v)
    BY <1>1, <1>2 DEF TypeOK, WalletsOf, W
<1>5. \A v \in Users : \A x \in WalletsOf(v) : x \in Addresses
    BY DEF TypeOK, WalletsOf, SeqElems
<1>8. \A v \in Users : NoRepeats(wallets'[v])
    BY <1>1, <1>2 DEF TypeOK
<1>9. \A v, w \in Users : v # w => WalletsOf(v)' \cap WalletsOf(w)' = {}
    <2>1. \A v \in Users : WalletsOf(v)' \subseteq WalletsOf(v)
        BY <1>4 DEF W
    <2> QED BY <2>1
<1>6. CASE primary[a]
    <2>1. /\ MakePrimary(u, r)
          /\ userAddr' = [userAddr EXCEPT ![u] = r]
        BY <1>6 DEF UnlinkWallet, r
    <2>2. /\ primary' \in [Addresses -> BOOLEAN]
          /\ \A x \in W : primary'[x] = (x = r)
          /\ \A v \in Users : v # u => \A x \in WalletsOf(v) : primary'[x] = primary[x]
          /\ \A x \in Addresses : x \notin W => primary'[x] = primary[x]
        BY <2>1, <1>3, MakePrimaryLemma DEF W
    <2>3. TypeOK'
        BY <1>1, <1>2, <1>3, <1>5, <2>1, <2>2 DEF TypeOK, W
    <2>4. PrimaryConsistent'
        <3>1. ASSUME NEW v \in Users, WalletsOf(v)' # {}
              PROVE  {x \in WalletsOf(v)' : primary'[x]} = {userAddr'[v]}
            <4>1. CASE v = u
                <5>1. userAddr'[u] = r
                    BY <2>1 DEF TypeOK
                <5>2. WalletsOf(v)' = W \ {a}
                    BY <1>4, <4>1
                <5>3. \A x \in W \ {a} : primary'[x] <=> x = r
                    BY <2>2
                <5> QED BY <1>3, <4>1, <5>1, <5>2, <5>3
            <4>2. CASE v # u
                <5>1. userAddr'[v] = userAddr[v] /\ WalletsOf(v) # {}
                    BY <1>4, <2>1, <3>1, <4>2 DEF TypeOK
                <5> QED BY <1>4, <2>2, <4>2, <5>1 DEF PrimaryConsistent
            <4> QED BY <4>1, <4>2
        <3>2. ASSUME NEW x \in Addresses, primary'[x] PROVE Linked(x)'
            <4>1. CASE x \in W
                <5>1. x = r
                    BY <2>2, <3>2, <4>1
                <5> QED BY <1>3, <1>4, <5>1 DEF Linked
            <4>2. CASE x \notin W
                <5>1. PICK v \in Users : x \in WalletsOf(v)
                    BY <2>2, <3>2, <4>2 DEF PrimaryConsistent, Linked
                <5>2. v # u
                    BY <4>2, <5>1 DEF W
                <5> QED BY <1>4, <5>1, <5>2 DEF Linked
            <4> QED BY <4>1, <4>2
        <3> QED BY <3>1, <3>2 DEF PrimaryConsistent
    <2>5. \A v \in Users : wallets'[v] # << >> => UserExists(v)'
        BY <1>1, <1>3, <1>5, <2>1, SentinelAssumption DEF TypeOK, UserExists, W
    <2> QED BY <1>8, <1>9, <2>3, <2>4, <2>5
<1>7. CASE ~primary[a]
    <2>1. UNCHANGED <<primary, userAddr>>
        BY <1>7 DEF UnlinkWallet
    <2>2. TypeOK'
        BY <1>1, <1>2, <2>1 DEF TypeOK
    <2>3. PrimaryConsistent'
        <3>1. ASSUME NEW v \in Users, WalletsOf(v)' # {}
              PROVE  {x \in WalletsOf(v)' : primary'[x]} = {userAddr'[v]}
            <4>1. CASE v = u
                BY <1>1, <1>4, <1>7, <2>1, <4>1 DEF PrimaryConsistent, W
            <4>2. CASE v # u
                BY <1>4, <2>1, <3>1, <4>2 DEF PrimaryConsistent
            <4> QED BY <4>1, <4>2
        <3>2. ASSUME NEW x \in Addresses, primary'[x] PROVE Linked(x)'
            <4>1. PICK v \in Users : x \in WalletsOf(v)
                BY <2>1, <3>2 DEF PrimaryConsistent, Linked
            <4>2. x # a
                BY <1>7, <2>1, <3>2
            <4> QED BY <1>4, <4>1, <4>2 DEF Linked
        <3> QED BY <3>1, <3>2 DEF PrimaryConsistent
    <2>4. \A v \in Users : wallets'[v] # << >> => UserExists(v)'
        BY <1>1, <2>1 DEF TypeOK, UserExists
    <2> QED BY <1>8, <1>9, <2>2, <2>3, <2>4
<1> QED BY <1>6, <1>7

(***************************************************************************)
(* setPrimaryWallet moves the flag and the stellarAddress to one of the   *)
(* user's wallets.                                                         *)
(***************************************************************************)
LEMMA SetPrimaryWalletIInv ==
    ASSUME IInv, NEW u \in Users, NEW a \in Addresses, SetPrimaryWallet(u, a)
    PROVE  IInv'
<1> USE DEF IInv
<1> DEFINE W == WalletsOf(u)
<1>1. /\ a \in W /\ UserExists(u) /\ MakePrimary(u, a)
      /\ userAddr' = [userAddr EXCEPT ![u] = a]
      /\ UNCHANGED <<wallets, label, chal, uses>>
    BY DEF SetPrimaryWallet, W
<1>2. /\ primary' \in [Addresses -> BOOLEAN]
      /\ \A x \in W : primary'[x] = (x = a)
      /\ \A v \in Users : v # u => \A x \in WalletsOf(v) : primary'[x] = primary[x]
      /\ \A x \in Addresses : x \notin W => primary'[x] = primary[x]
    BY <1>1, MakePrimaryLemma DEF W
<1>3. \A v \in Users : WalletsOf(v)' = WalletsOf(v)
    BY <1>1 DEF WalletsOf
<1>4. TypeOK'
    BY <1>1, <1>2 DEF TypeOK
<1>5. PrimaryConsistent'
    <2>1. ASSUME NEW v \in Users, WalletsOf(v)' # {}
          PROVE  {x \in WalletsOf(v)' : primary'[x]} = {userAddr'[v]}
        <3>1. CASE v = u
            <4>1. userAddr'[u] = a
                BY <1>1 DEF TypeOK
            <4>2. \A x \in W : primary'[x] <=> x = a
                BY <1>2
            <4> QED BY <1>1, <1>3, <3>1, <4>1, <4>2 DEF W
        <3>2. CASE v # u
            <4>1. userAddr'[v] = userAddr[v]
                BY <1>1, <3>2 DEF TypeOK
            <4> QED BY <1>2, <1>3, <2>1, <3>2, <4>1 DEF PrimaryConsistent
        <3> QED BY <3>1, <3>2
    <2>2. ASSUME NEW x \in Addresses, primary'[x] PROVE Linked(x)'
        <3>1. CASE x \in W
            BY <1>3, <3>1 DEF Linked, W
        <3>2. CASE x \notin W
            BY <1>2, <1>3, <2>2, <3>2 DEF PrimaryConsistent, Linked
        <3> QED BY <3>1, <3>2
    <2> QED BY <2>1, <2>2 DEF PrimaryConsistent
<1>6. \A v \in Users : wallets'[v] # << >> => UserExists(v)'
    BY <1>1, SentinelAssumption DEF TypeOK, UserExists, W, WalletsOf, SeqElems
<1> QED BY <1>1, <1>3, <1>4, <1>5, <1>6

(***************************************************************************)
(* A step that leaves the User rows, the wallet lists and the primary     *)
(* flags alone preserves every conjunct of IInv but the typing.            *)
(***************************************************************************)
LEMMA AccountsUnchanged ==
    ASSUME IInv, UNCHANGED <<userAddr, wallets, primary>>
    PROVE  /\ \A u \in Users : NoRepeats(wallets[u])'
           /\ \A u, v \in Users : u # v => WalletsOf(u)' \cap WalletsOf(v)' = {}
           /\ \A u \in Users : wallets'[u] # << >> => UserExists(u)'
           /\ PrimaryConsistent'
BY DEF IInv, NoRepeats, WalletsOf, UserExists, PrimaryConsistent, Linked

(***************************************************************************)
(* The steps that touch only challenges or labels.                         *)
(***************************************************************************)
LEMMA OtherStepsIInv ==
    ASSUME IInv,
           \/ \E c \in Challenges, a \in Addresses, p \in Purposes, u \in Users \cup {NoUser} :
                 GenerateChallenge(c, a, p, u)
           \/ \E c \in Challenges : ExpireChallenge(c)
           \/ \E u \in Users, a \in Addresses, l \in Labels \cup {NoLabel} :
                 UpdateWalletLabel(u, a, l)
           \/ NoncesExhausted
           \/ UNCHANGED vars
    PROVE  IInv'
<1> USE DEF IInv
<1>1. CASE \E c \in Challenges, a \in Addresses, p \in Purposes, u \in Users \cup {NoUser} :
              GenerateChallenge(c, a, p, u)
    <2>1. PICK c \in Challenges, a \in Addresses, p \in Purposes, u \in Users \cup {NoUser} :
              GenerateChallenge(c, a, p, u)
        BY <1>1
    <2>2. [addr |-> a, purpose |-> p, user |-> u, used |-> FALSE, expired |-> FALSE]
              \in ChallengeRecord
        BY DEF ChallengeRecord
    <2>3. TypeOK'
        BY <2>1, <2>2 DEF GenerateChallenge, TypeOK
    <2> QED BY <2>1, <2>3, AccountsUnchanged DEF GenerateChallenge
<1>2. CASE \E c \in Challenges : ExpireChallenge(c)
    <2>1. PICK c \in Challenges : ExpireChallenge(c)
        BY <1>2
    <2>2. chal[c] \in ChallengeRecord
        BY <2>1 DEF ExpireChallenge, TypeOK
    <2>3. TypeOK'
        BY <2>1, <2>2 DEF ExpireChallenge, TypeOK, ChallengeRecord
    <2> QED BY <2>1, <2>3, AccountsUnchanged DEF ExpireChallenge
<1>3. CASE \E u \in Users, a \in Addresses, l \in Labels \cup {NoLabel} :
              UpdateWalletLabel(u, a, l)
    <2>1. PICK u \in Users, a \in Addresses, l \in Labels \cup {NoLabel} :
              UpdateWalletLabel(u, a, l)
        BY <1>3
    <2>2. TypeOK'
        BY <2>1 DEF UpdateWalletLabel, TypeOK
    <2> QED BY <2>1, <2>2, AccountsUnchanged DEF UpdateWalletLabel
<1>4. CASE NoncesExhausted \/ UNCHANGED vars
    <2>1. UNCHANGED vars
        BY <1>4 DEF NoncesExhausted
    <2>2. TypeOK'
        BY <2>1 DEF vars, TypeOK
    <2> QED BY <2>1, <2>2, AccountsUnchanged DEF vars
<1> QED BY <1>1, <1>2, <1>3, <1>4

\* Every step of the wallet operations preserves the inductive invariant.
LEMMA NextIInv == IInv /\ [Next]_vars => IInv'
<1> SUFFICES ASSUME IInv, [Next]_vars PROVE IInv'
    OBVIOUS
<1>1. CASE \E u \in Users, a \in Addresses : CreateUser(u, a)
    BY <1>1, CreateUserIInv
<1>2. CASE \E u \in Users, a \in Addresses, c \in Challenges, l \in Labels \cup {NoLabel} :
              LinkWallet(u, a, c, l)
    BY <1>2, LinkWalletIInv
<1>3. CASE \E u \in Users, a \in Addresses : UnlinkWallet(u, a)
    BY <1>3, UnlinkWalletIInv
<1>4. CASE \E u \in Users, a \in Addresses : SetPrimaryWallet(u, a)
    BY <1>4, SetPrimaryWalletIInv
<1> QED BY <1>1, <1>2, <1>3, <1>4, OtherStepsIInv DEF Next

(***************************************************************************)
(* The rows stay typed, and every account with wallets has exactly one    *)
(* primary wallet, which is its stellarAddress, in every reachable state,  *)
(* for all sets of users, addresses, nonces and labels.                    *)
(***************************************************************************)
THEOREM PrimaryConsistentTheorem == Spec => [](TypeOK /\ PrimaryConsistent)
<1>1. IInv => TypeOK /\ PrimaryConsistent
    BY DEF IInv
<1> QED BY <1>1, InitIInv, NextIInv, PTL DEF Spec

-----------------------------------------------------------------------------
(***************************************************************************)
(* The challenge invariant: a nonce's count of successful consumptions is *)
(* 1 exactly when its row has usedAt set, and 0 otherwise. The consume's  *)
(* where requires usedAt null and sets it in the same statement, and no   *)
(* other call writes usedAt or reissues a nonce that has a row.           *)
(***************************************************************************)
UsedOnce(c) == IF chal[c] # NoChallenge /\ chal[c].used THEN 1 ELSE 0

ChalInv == \A c \in Challenges : uses[c] = UsedOnce(c)

\* The consume of linkWallet marks the row used and counts one use.
LEMMA ConsumeChalInv ==
    ASSUME TypeOK, ChalInv, NEW c \in Challenges, chal[c] # NoChallenge,
           ~chal[c].used, Consume(c)
    PROVE  ChalInv'
<1>1. chal[c] \in ChallengeRecord
    BY DEF TypeOK
<1>2. chal'[c] # NoChallenge /\ chal'[c].used
    <2>1. chal'[c] = [chal[c] EXCEPT !.used = TRUE]
        BY DEF Consume, TypeOK
    <2>2. [chal[c] EXCEPT !.used = TRUE] \in ChallengeRecord
          /\ [chal[c] EXCEPT !.used = TRUE].used = TRUE
        BY <1>1 DEF ChallengeRecord
    <2> QED BY <2>1, <2>2, NoChallengeAssumption
<1>3. uses'[c] = 1
    BY DEF Consume, TypeOK, ChalInv, UsedOnce
<1>4. \A d \in Challenges \ {c} : chal'[d] = chal[d] /\ uses'[d] = uses[d]
    BY DEF Consume, TypeOK
<1> QED BY <1>2, <1>3, <1>4 DEF ChalInv, UsedOnce

\* Every step keeps the challenge invariant.
LEMMA NextChalInv == IInv /\ ChalInv /\ [Next]_vars => ChalInv'
<1> SUFFICES ASSUME IInv, ChalInv, [Next]_vars PROVE ChalInv'
    OBVIOUS
<1>0. TypeOK
    BY DEF IInv
<1>1. CASE UNCHANGED <<chal, uses>>
    BY <1>1 DEF ChalInv, UsedOnce
<1>2. ASSUME NEW c \in Challenges, NEW a \in Addresses, NEW p \in Purposes,
             NEW u \in Users \cup {NoUser}, GenerateChallenge(c, a, p, u)
      PROVE  ChalInv'
    <2>1. uses[c] = 0 /\ uses' = uses
        BY <1>2 DEF GenerateChallenge, ChalInv, UsedOnce
    <2>2. chal'[c].used = FALSE
        BY <1>2, <1>0 DEF GenerateChallenge, TypeOK
    <2>3. \A d \in Challenges \ {c} : chal'[d] = chal[d]
        BY <1>2, <1>0 DEF GenerateChallenge, TypeOK
    <2> QED BY <2>1, <2>2, <2>3 DEF ChalInv, UsedOnce
<1>3. ASSUME NEW c \in Challenges, ExpireChallenge(c)
      PROVE  ChalInv'
    <2>1. chal[c] \in ChallengeRecord
        BY <1>3, <1>0 DEF ExpireChallenge, TypeOK
    <2>2. chal'[c] = [chal[c] EXCEPT !.expired = TRUE] /\ uses' = uses
        BY <1>3, <1>0 DEF ExpireChallenge, TypeOK
    <2>3. [chal[c] EXCEPT !.expired = TRUE] \in ChallengeRecord
          /\ [chal[c] EXCEPT !.expired = TRUE].used = chal[c].used
        BY <2>1 DEF ChallengeRecord
    <2>4. chal'[c] # NoChallenge /\ chal'[c].used = chal[c].used
        BY <2>2, <2>3, NoChallengeAssumption
    <2>5. \A d \in Challenges \ {c} : chal'[d] = chal[d]
        BY <1>3, <1>0 DEF ExpireChallenge, TypeOK
    <2> QED BY <1>3, <2>2, <2>4, <2>5 DEF ExpireChallenge, ChalInv, UsedOnce
<1>4. ASSUME NEW u \in Users, NEW a \in Addresses, NEW c \in Challenges,
             NEW l \in Labels \cup {NoLabel}, LinkWallet(u, a, c, l)
      PROVE  ChalInv'
    BY <1>4, <1>0, ConsumeChalInv DEF LinkWallet, Consumable
<1> QED BY <1>1, <1>2, <1>3, <1>4 DEF Next, CreateUser, UnlinkWallet, SetPrimaryWallet,
         UpdateWalletLabel, NoncesExhausted, vars

(***************************************************************************)
(* For all sets of users, addresses, nonces and labels, the atomic consume *)
(* of verifyAndConsumeChallenge succeeds at most once per nonce, however   *)
(* links, unlinks and relinks of the wallet interleave.                    *)
(***************************************************************************)
THEOREM ChallengeConsumedOnceTheorem == Spec => []ChallengeConsumedOnce
<1>1. Init => ChalInv
    BY DEF Init, EmptyDatabase, Seeded, ChalInv, UsedOnce
<1>2. IInv /\ ChalInv /\ [Next]_vars => IInv' /\ ChalInv'
    BY NextIInv, NextChalInv
<1>3. ChalInv => ChallengeConsumedOnce
    BY DEF ChalInv, UsedOnce, ChallengeConsumedOnce
<1> QED BY <1>1, <1>2, <1>3, InitIInv, PTL DEF Spec

=============================================================================
