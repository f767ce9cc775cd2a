---------------------------- MODULE WebSessionProofs ----------------------------
(***************************************************************************)
(* /verify trusts the auth-nonce cookie a request carries. The cookie was  *)
(* set by /challenge, and the signature by Freighter, so whatever the      *)
(* order of the tabs' requests and however often a request is delivered,   *)
(* the checks of /verify only let through a key that signed a nonce bound  *)
(* to it. The invariant records where each cookie and each signature of a  *)
(* request came from, and each session token: every token signToken made  *)
(* names a key that won a token pair at /verify, and the silent refresh    *)
(* only copies the sub of a token it verifies.                             *)
(***************************************************************************)
EXTENDS WebSession, SequenceTheorems, TLAPS

\* A login past LoginStart holds a key, and past Challenge a nonce bound to
\* it; past SignOk Freighter has signed that nonce.
LoginsBound ==
    \A l \in Logins :
        /\ login[l].pc \in {"challenge", "sign", "verify", "waiting"} => login[l].key \in Keys
        /\ login[l].pc \in {"sign", "verify", "waiting"} => login[l].nonce \in Nonces
        /\ login[l].pc = "verify" =>
              [nonce |-> login[l].nonce, key |-> login[l].key] \in signatures

\* The cookies in the jar and in the requests are ones /challenge issued,
\* and the signatures in the requests are ones Freighter made.
CookiesIssued ==
    /\ jar.nonce \in challenges \cup {NoCookie}
    /\ \A m \in wire : m.cookie \in challenges \cup {NoCookie} /\ m.sig \in signatures

\* The cookies of the jar and of the page requests name tokens signed so
\* far, or none.
TokenRange == 0..Len(tokens)

JarTokens ==
    /\ jar.access \in TokenRange /\ jar.refresh \in TokenRange
    /\ \A r \in pages : r.access \in TokenRange /\ r.refresh \in TokenRange

\* k won a token pair at /verify.
Granted(k) == \E j \in 1..Len(grants) : grants[j].sub = k

\* Every token, and every subject admitted to /dashboard, is of such a key.
TokensGranted == \A i \in 1..Len(tokens) : Granted(tokens[i].sub)
AdmittedGranted == \A k \in admitted : Granted(k)

SessionInv == JarTokens /\ TokensGranted /\ AdmittedGranted

IInv == TypeOK /\ LoginsBound /\ CookiesIssued /\ GrantsSigned /\ SessionInv

LEMMA InitIInv == Init => IInv
BY DEF Init, IInv, TypeOK, LoginsBound, CookiesIssued, GrantsSigned, LoginPC, NoCookie,
       SessionInv, JarTokens, TokensGranted, AdmittedGranted, TokenRange, NoToken

\* A step that leaves grants, the tokens, the page requests and the
\* admissions alone, and the jar's session cookies in range, keeps SessionInv.
LEMMA SessionKept ==
    ASSUME SessionInv, UNCHANGED <<grants, tokens, pages, admitted>>,
           jar'.access \in TokenRange, jar'.refresh \in TokenRange
    PROVE  SessionInv'
BY DEF SessionInv, JarTokens, TokensGranted, AdmittedGranted, Granted, TokenRange

\* A new grant keeps the keys that won one before and adds its own.
LEMMA GrantAdds ==
    ASSUME TypeOK, NEW m \in Request, grants' = Grant(m)
    PROVE  /\ \A k : Granted(k) => Granted(k)'
           /\ Granted(m.pk)'
<1>1. grants \in Seq([nonce : Nonces, sub : Keys])
  BY DEF TypeOK
<1>2. /\ Len(grants') = Len(grants) + 1
      /\ \A i \in 1..Len(grants) : grants'[i] = grants[i]
      /\ grants'[Len(grants) + 1].sub = m.pk
  BY <1>1 DEF Grant
<1>. QED
  BY <1>2 DEF Granted

\* Appending a token pair keeps the old tokens and adds two of key k.
LEMMA PairAppended ==
    ASSUME NEW T \in Seq([sub : Keys, type : TokenTypes]), NEW k \in Keys
    PROVE  /\ T \o TokenPair(k) \in Seq([sub : Keys, type : TokenTypes])
           /\ Len(T \o TokenPair(k)) = Len(T) + 2
           /\ \A i \in 1..Len(T) : (T \o TokenPair(k))[i] = T[i]
           /\ \A i \in (Len(T) + 1)..(Len(T) + 2) : (T \o TokenPair(k))[i].sub = k
<1>1. TokenPair(k) \in Seq([sub : Keys, type : TokenTypes]) /\ Len(TokenPair(k)) = 2
  BY DEF TokenPair, TokenTypes
<1>. QED
  BY <1>1, ConcatProperties DEF TokenPair

\* A token signToken made has a key for sub.
LEMMA TokenTyped ==
    ASSUME TypeOK, NEW i \in 1..Len(tokens)
    PROVE  tokens[i] \in [sub : Keys, type : TokenTypes]
BY ElementOfSeq, Zenon DEF TypeOK

\* An accepted request's grant is its cookie, and its signature.
LEMMA AcceptedGrant ==
    ASSUME NEW m \in Request, Accepted(m)
    PROVE  /\ m.cookie \in Bound
           /\ [nonce |-> m.cookie.nonce, key |-> m.pk] = m.cookie
           /\ [nonce |-> m.cookie.nonce, key |-> m.pk] = m.sig
BY DEF Accepted, Request, Bound

\* Appending an accepted request's grant keeps GrantsSigned and the type.
LEMMA GrantKeeps ==
    ASSUME TypeOK, CookiesIssued, GrantsSigned, NEW m \in wire, Accepted(m)
    PROVE  /\ Grant(m) \in Seq([nonce : Nonces, sub : Keys])
           /\ \A i \in 1..Len(Grant(m)) :
                 /\ [nonce |-> Grant(m)[i].nonce, key |-> Grant(m)[i].sub] \in challenges
                 /\ [nonce |-> Grant(m)[i].nonce, key |-> Grant(m)[i].sub] \in signatures
<1>1. m \in Request
  BY DEF TypeOK
<1>2. /\ m.cookie \in Bound
      /\ [nonce |-> m.cookie.nonce, key |-> m.pk] = m.cookie
      /\ [nonce |-> m.cookie.nonce, key |-> m.pk] = m.sig
  BY <1>1, AcceptedGrant
<1>3. m.cookie \in challenges /\ m.sig \in signatures
  BY <1>2 DEF CookiesIssued, Accepted
<1>4. [nonce |-> m.cookie.nonce, sub |-> m.pk] \in [nonce : Nonces, sub : Keys]
  BY <1>1, <1>2 DEF Request, Bound
<1>. QED
  BY <1>2, <1>3, <1>4 DEF Grant, TypeOK, GrantsSigned

\* A login that ends keeps the logins' typing and bindings.
LEMMA LoginEnds ==
    ASSUME TypeOK, LoginsBound, NEW l \in Logins, NEW p \in {"done", "failed"},
           login' = [login EXCEPT ![l].pc = p], signatures' = signatures
    PROVE  /\ login' \in [Logins -> [pc : LoginPC, key : Keys \cup {NoKey},
                                     nonce : Nonces \cup {NoNonce}]]
           /\ LoginsBound'
<1>1. login' \in [Logins -> [pc : LoginPC, key : Keys \cup {NoKey},
                            nonce : Nonces \cup {NoNonce}]]
  BY DEF TypeOK, LoginPC
<1>2. ASSUME NEW q \in Logins
      PROVE  /\ login'[q].pc \in {"challenge", "sign", "verify", "waiting"} => login'[q].key \in Keys
             /\ login'[q].pc \in {"sign", "verify", "waiting"} => login'[q].nonce \in Nonces
             /\ login'[q].pc = "verify" =>
                   [nonce |-> login'[q].nonce, key |-> login'[q].key] \in signatures'
  <2>1. CASE q = l
    BY <2>1 DEF TypeOK
  <2>2. CASE q # l
    BY <2>2 DEF TypeOK, LoginsBound
  <2>. QED
    BY <2>1, <2>2
<1>. QED
  BY <1>1, <1>2 DEF LoginsBound

LEMMA NextIInv == IInv /\ [Next]_vars => IInv'
<1> SUFFICES ASSUME IInv, [Next]_vars PROVE IInv'
  OBVIOUS
<1>. USE DEF IInv
<1>1. ASSUME NEW l \in Logins, NEW k \in Keys, LoginStart(l, k) PROVE IInv'
  <2>1. TypeOK' /\ LoginsBound' /\ CookiesIssued' /\ GrantsSigned'
    BY <1>1 DEF LoginStart, TypeOK, LoginsBound, CookiesIssued, GrantsSigned, LoginPC,
       sessionVars
  <2>2. SessionInv'
    BY <1>1, SessionKept DEF LoginStart, sessionVars, SessionInv, JarTokens
  <2>. QED
    BY <2>1, <2>2
<1>2. ASSUME NEW l \in Logins, LoginNoWallet(l) \/ SignRefused(l) PROVE IInv'
  <2>1. /\ login' = [login EXCEPT ![l].pc = "failed"]
        /\ UNCHANGED <<jar, challenges, signatures, wire, grants, tokens, expired, pages,
                       admitted>>
    BY <1>2 DEF LoginNoWallet, SignRefused, sessionVars
  <2>2. /\ login' \in [Logins -> [pc : LoginPC, key : Keys \cup {NoKey},
                                 nonce : Nonces \cup {NoNonce}]]
        /\ LoginsBound'
    BY <2>1, LoginEnds
  <2>3. TypeOK' /\ CookiesIssued' /\ GrantsSigned'
    BY <2>1, <2>2 DEF TypeOK, CookiesIssued, GrantsSigned
  <2>4. SessionInv'
    BY <2>1, SessionKept DEF SessionInv, JarTokens
  <2>. QED
    BY <2>2, <2>3, <2>4
<1>3. ASSUME NEW l \in Logins, Challenge(l) PROVE IInv'
  <2>1. PICK n \in Nonces \ Drawn :
          /\ challenges' = challenges \cup {[nonce |-> n, key |-> login[l].key]}
          /\ jar' = [jar EXCEPT !.nonce = [nonce |-> n, key |-> login[l].key]]
          /\ login' = [login EXCEPT ![l].pc = "sign", ![l].nonce = n]
    BY <1>3 DEF Challenge
  <2>2. login[l].key \in Keys /\ login[l].pc = "challenge"
    BY <1>3 DEF Challenge, LoginsBound
  <2>3. UNCHANGED <<signatures, wire, grants, tokens, expired, pages, admitted>>
    BY <1>3 DEF Challenge, sessionVars
  <2>4. TypeOK'
    <3>1. [nonce |-> n, key |-> login[l].key] \in Bound
      BY <2>1, <2>2 DEF Bound
    <3>2. jar' \in [nonce : Bound \cup {NoCookie}, access : Nat, refresh : Nat]
      BY <2>1, <3>1 DEF TypeOK
    <3>3. login' \in [Logins -> [pc : LoginPC, key : Keys \cup {NoKey},
                                nonce : Nonces \cup {NoNonce}]]
      <4>1. n \in Nonces /\ login[l] \in [pc : LoginPC, key : Keys \cup {NoKey},
                                            nonce : Nonces \cup {NoNonce}]
        BY <2>1 DEF TypeOK
      <4>2. [login[l] EXCEPT !.pc = "sign", !.nonce = n]
              \in [pc : LoginPC, key : Keys \cup {NoKey}, nonce : Nonces \cup {NoNonce}]
        BY <4>1 DEF LoginPC
      <4>3. login' = [login EXCEPT ![l] = [login[l] EXCEPT !.pc = "sign", !.nonce = n]]
        BY <2>1 DEF TypeOK
      <4>. QED
        BY <4>2, <4>3 DEF TypeOK
    <3>. QED
      BY <2>1, <2>3, <3>1, <3>2, <3>3 DEF TypeOK
  <2>5. LoginsBound'
    <3> SUFFICES ASSUME NEW q \in Logins
          PROVE  /\ login'[q].pc \in {"challenge", "sign", "verify", "waiting"} => login'[q].key \in Keys
                 /\ login'[q].pc \in {"sign", "verify", "waiting"} => login'[q].nonce \in Nonces
                 /\ login'[q].pc = "verify" =>
                       [nonce |-> login'[q].nonce, key |-> login'[q].key] \in signatures'
      BY DEF LoginsBound
    <3>1. CASE q = l
      BY <2>1, <2>2, <3>1 DEF TypeOK
    <3>2. CASE q # l
      BY <2>1, <2>3, <3>2 DEF TypeOK, LoginsBound
    <3>. QED
      BY <3>1, <3>2
  <2>6. CookiesIssued'
    BY <2>1, <2>3 DEF CookiesIssued, TypeOK
  <2>7. GrantsSigned'
    BY <2>1, <2>3 DEF GrantsSigned
  <2>8. SessionInv'
    <3>1. jar'.access = jar.access /\ jar'.refresh = jar.refresh
      BY <2>1 DEF TypeOK
    <3>. QED
      BY <2>3, <3>1, SessionKept DEF SessionInv, JarTokens
  <2>. QED
    BY <2>4, <2>5, <2>6, <2>7, <2>8
<1>4. ASSUME NEW l \in Logins, SignOk(l) PROVE IInv'
  <2>1. login[l].key \in Keys /\ login[l].nonce \in Nonces
    BY <1>4 DEF SignOk, LoginsBound
  <2>2. TypeOK' /\ LoginsBound' /\ CookiesIssued' /\ GrantsSigned'
    BY <1>4, <2>1 DEF SignOk, TypeOK, LoginsBound, CookiesIssued, GrantsSigned, Bound,
       LoginPC, sessionVars
  <2>3. SessionInv'
    BY <1>4, SessionKept DEF SignOk, sessionVars, SessionInv, JarTokens
  <2>. QED
    BY <2>2, <2>3
<1>5. ASSUME NEW l \in Logins, VerifySend(l) PROVE IInv'
  <2>1. /\ login[l].key \in Keys /\ login[l].nonce \in Nonces
        /\ [nonce |-> login[l].nonce, key |-> login[l].key] \in signatures
    BY <1>5 DEF VerifySend, LoginsBound
  <2>2. VerifyRequest(l) \in Request
    BY <2>1 DEF VerifyRequest, Request, TypeOK, Bound
  <2>3. VerifyRequest(l).cookie \in challenges \cup {NoCookie}
          /\ VerifyRequest(l).sig \in signatures
    BY <2>1 DEF VerifyRequest, CookiesIssued
  <2>4. TypeOK' /\ LoginsBound' /\ CookiesIssued' /\ GrantsSigned'
    BY <1>5, <2>1, <2>2, <2>3 DEF VerifySend, TypeOK, LoginsBound, CookiesIssued,
       GrantsSigned, LoginPC, sessionVars
  <2>5. SessionInv'
    BY <1>5, SessionKept DEF VerifySend, sessionVars, SessionInv, JarTokens
  <2>. QED
    BY <2>4, <2>5
<1>6. ASSUME NEW m \in wire, VerifyAccept(m) PROVE IInv'
  <2>1. m \in Request
    BY DEF TypeOK
  <2>2. m.pk \in Keys /\ m.login \in Logins
    BY <2>1 DEF Request
  <2>3. GrantsSigned' /\ grants' \in Seq([nonce : Nonces, sub : Keys])
    BY <1>6, GrantKeeps DEF VerifyAccept, GrantsSigned
  <2>4. /\ login' \in [Logins -> [pc : LoginPC, key : Keys \cup {NoKey},
                                 nonce : Nonces \cup {NoNonce}]]
        /\ LoginsBound'
    BY <1>6, <2>2, LoginEnds DEF VerifyAccept
  <2>5. /\ tokens' \in Seq([sub : Keys, type : TokenTypes])
        /\ Len(tokens') = Len(tokens) + 2
        /\ \A i \in 1..Len(tokens) : tokens'[i] = tokens[i]
        /\ \A i \in (Len(tokens) + 1)..(Len(tokens) + 2) : tokens'[i].sub = m.pk
    <3>1. tokens' = tokens \o TokenPair(m.pk) /\ tokens \in Seq([sub : Keys, type : TokenTypes])
      BY <1>6 DEF VerifyAccept, TypeOK
    <3>2. /\ tokens \o TokenPair(m.pk) \in Seq([sub : Keys, type : TokenTypes])
          /\ Len(tokens \o TokenPair(m.pk)) = Len(tokens) + 2
          /\ \A i \in 1..Len(tokens) : (tokens \o TokenPair(m.pk))[i] = tokens[i]
          /\ \A i \in (Len(tokens) + 1)..(Len(tokens) + 2) :
                (tokens \o TokenPair(m.pk))[i].sub = m.pk
      BY <2>2, <3>1, PairAppended
    <3>. QED
      BY <3>1, <3>2
  <2>6. /\ \A k : Granted(k) => Granted(k)'
        /\ Granted(m.pk)'
    BY <1>6, <2>1, GrantAdds DEF VerifyAccept
  <2>7. jar' = [nonce |-> NoCookie, access |-> Len(tokens) + 1, refresh |-> Len(tokens) + 2]
        /\ UNCHANGED <<challenges, signatures, wire, expired, pages, admitted>>
    BY <1>6 DEF VerifyAccept, SessionCookies
  <2>8. TypeOK'
    BY <2>3, <2>4, <2>5, <2>7 DEF TypeOK
  <2>9. CookiesIssued'
    BY <2>7 DEF CookiesIssued
  <2>10. JarTokens'
    BY <2>5, <2>7 DEF JarTokens, TokenRange, SessionInv
  <2>11. TokensGranted'
    <3> SUFFICES ASSUME NEW i \in 1..Len(tokens') PROVE Granted(tokens[i].sub)'
      BY DEF TokensGranted
    <3>1. CASE i <= Len(tokens)
      BY <3>1, <2>5, <2>6 DEF TokensGranted, SessionInv
    <3>2. CASE i > Len(tokens)
      BY <3>2, <2>5, <2>6
    <3>. QED
      BY <3>1, <3>2, <2>5
  <2>12. AdmittedGranted'
    BY <2>6, <2>7 DEF AdmittedGranted, SessionInv
  <2>. QED
    BY <2>3, <2>4, <2>8, <2>9, <2>10, <2>11, <2>12 DEF SessionInv
<1>7. ASSUME NEW m \in wire, VerifyReject(m) PROVE IInv'
  <2>1. m.login \in Logins
    BY DEF TypeOK, Request
  <2>2. /\ login' \in [Logins -> [pc : LoginPC, key : Keys \cup {NoKey},
                                 nonce : Nonces \cup {NoNonce}]]
        /\ LoginsBound'
    BY <1>7, <2>1, LoginEnds DEF VerifyReject
  <2>3. TypeOK' /\ CookiesIssued' /\ GrantsSigned'
    BY <1>7, <2>2 DEF VerifyReject, TypeOK, CookiesIssued, GrantsSigned, sessionVars
  <2>4. SessionInv'
    BY <1>7, SessionKept DEF VerifyReject, sessionVars, SessionInv, JarTokens
  <2>. QED
    BY <2>2, <2>3, <2>4
<1>8. ASSUME NEW m \in wire, VerifyReplay(m) PROVE IInv'
  <2>1. m \in Request
    BY DEF TypeOK
  <2>2. m.pk \in Keys
    BY <2>1 DEF Request
  <2>3. GrantsSigned' /\ grants' \in Seq([nonce : Nonces, sub : Keys])
    BY <1>8, GrantKeeps DEF VerifyReplay, GrantsSigned
  <2>4. /\ tokens' \in Seq([sub : Keys, type : TokenTypes])
        /\ Len(tokens') = Len(tokens) + 2
        /\ \A i \in 1..Len(tokens) : tokens'[i] = tokens[i]
        /\ \A i \in (Len(tokens) + 1)..(Len(tokens) + 2) : tokens'[i].sub = m.pk
    <3>1. tokens' = tokens \o TokenPair(m.pk) /\ tokens \in Seq([sub : Keys, type : TokenTypes])
      BY <1>8 DEF VerifyReplay, TypeOK
    <3>2. /\ tokens \o TokenPair(m.pk) \in Seq([sub : Keys, type : TokenTypes])
          /\ Len(tokens \o TokenPair(m.pk)) = Len(tokens) + 2
          /\ \A i \in 1..Len(tokens) : (tokens \o TokenPair(m.pk))[i] = tokens[i]
          /\ \A i \in (Len(tokens) + 1)..(Len(tokens) + 2) :
                (tokens \o TokenPair(m.pk))[i].sub = m.pk
      BY <2>2, <3>1, PairAppended
    <3>. QED
      BY <3>1, <3>2
  <2>5. /\ \A k : Granted(k) => Granted(k)'
        /\ Granted(m.pk)'
    BY <1>8, <2>1, GrantAdds DEF VerifyReplay
  <2>6. UNCHANGED <<jar, login, challenges, signatures, wire, expired, pages, admitted>>
    BY <1>8 DEF VerifyReplay
  <2>7. TypeOK' /\ LoginsBound' /\ CookiesIssued'
    BY <2>3, <2>4, <2>6 DEF TypeOK, LoginsBound, CookiesIssued
  <2>8. JarTokens'
    BY <2>4, <2>6 DEF JarTokens, TokenRange, SessionInv
  <2>9. TokensGranted'
    <3> SUFFICES ASSUME NEW i \in 1..Len(tokens') PROVE Granted(tokens[i].sub)'
      BY DEF TokensGranted
    <3>1. CASE i <= Len(tokens)
      BY <3>1, <2>4, <2>5 DEF TokensGranted, SessionInv
    <3>2. CASE i > Len(tokens)
      BY <3>2, <2>4, <2>5
    <3>. QED
      BY <3>1, <3>2, <2>4
  <2>10. AdmittedGranted'
    BY <2>5, <2>6 DEF AdmittedGranted, SessionInv
  <2>. QED
    BY <2>3, <2>7, <2>8, <2>9, <2>10 DEF SessionInv
<1>9. CASE CookieExpires \/ Logout
  <2>1. UNCHANGED <<login, challenges, signatures, wire, grants, tokens, expired, pages,
                    admitted>>
    BY <1>9 DEF CookieExpires, Logout, sessionVars
  <2>2. /\ jar' \in [nonce : Bound \cup {NoCookie}, access : Nat, refresh : Nat]
        /\ jar'.nonce \in {jar.nonce, NoCookie}
        /\ jar'.access \in {jar.access, NoToken} /\ jar'.refresh \in {jar.refresh, NoToken}
    <3>1. CASE CookieExpires
      BY <3>1 DEF CookieExpires, TypeOK, NoToken
    <3>2. CASE Logout
      BY <3>2 DEF Logout, ClearedSession, TypeOK, NoToken
    <3>. QED
      BY <1>9, <3>1, <3>2
  <2>3. TypeOK' /\ LoginsBound' /\ CookiesIssued' /\ GrantsSigned'
    BY <2>1, <2>2 DEF TypeOK, LoginsBound, CookiesIssued, GrantsSigned
  <2>4. SessionInv'
    BY <2>1, <2>2, SessionKept DEF SessionInv, JarTokens, TokenRange, NoToken
  <2>. QED
    BY <2>3, <2>4
<1>10. ASSUME NEW i \in 1..Len(tokens), TokenExpires(i) PROVE IInv'
  <2>1. TypeOK' /\ LoginsBound' /\ CookiesIssued' /\ GrantsSigned'
    BY <1>10 DEF TokenExpires, TypeOK, LoginsBound, CookiesIssued, GrantsSigned
  <2>2. SessionInv'
    BY <1>10, SessionKept DEF TokenExpires, SessionInv, JarTokens
  <2>. QED
    BY <2>1, <2>2
<1>11. ASSUME NEW c \in {"access", "refresh"}, AuthCookieExpires(c) PROVE IInv'
  <2>1. UNCHANGED <<login, challenges, signatures, wire, grants, tokens, expired, pages,
                    admitted>>
    BY <1>11 DEF AuthCookieExpires, sessionVars
  <2>2. /\ jar' \in [nonce : Bound \cup {NoCookie}, access : Nat, refresh : Nat]
        /\ jar'.nonce = jar.nonce
        /\ jar'.access \in {jar.access, NoToken} /\ jar'.refresh \in {jar.refresh, NoToken}
    BY <1>11 DEF AuthCookieExpires, TypeOK, NoToken
  <2>3. TypeOK' /\ LoginsBound' /\ CookiesIssued' /\ GrantsSigned'
    BY <2>1, <2>2 DEF TypeOK, LoginsBound, CookiesIssued, GrantsSigned
  <2>4. SessionInv'
    BY <2>1, <2>2, SessionKept DEF SessionInv, JarTokens, TokenRange, NoToken
  <2>. QED
    BY <2>3, <2>4
<1>12. ASSUME NEW path \in Paths, ProxySend(path) PROVE IInv'
  <2>1. TypeOK' /\ LoginsBound' /\ CookiesIssued' /\ GrantsSigned'
    BY <1>12 DEF ProxySend, TypeOK, LoginsBound, CookiesIssued, GrantsSigned
  <2>2. SessionInv'
    BY <1>12 DEF ProxySend, SessionInv, JarTokens, TokensGranted, AdmittedGranted, Granted,
       TokenRange
  <2>. QED
    BY <2>1, <2>2
<1>13. ASSUME NEW r \in pages, ProxyServe(r) PROVE IInv'
  <2>1. UNCHANGED <<jar, login, challenges, signatures, wire, grants, tokens, expired>>
        /\ pages' = pages \ {r}
    BY <1>13 DEF ProxyServe
  <2>2. admitted' \subseteq admitted \cup {tokens[r.access].sub}
        /\ (admitted' # admitted => Verifies(r.access))
    BY <1>13 DEF ProxyServe, Admit
  <2>3. Verifies(r.access) => r.access \in 1..Len(tokens)
    BY DEF Verifies, NoToken, SessionInv, JarTokens, TokenRange
  <2>4. Verifies(r.access) => tokens[r.access].sub \in Keys /\ Granted(tokens[r.access].sub)
    BY <2>3, TokenTyped DEF SessionInv, TokensGranted
  <2>5. admitted' \subseteq Keys /\ AdmittedGranted'
    BY <2>1, <2>2, <2>4 DEF TypeOK, AdmittedGranted, SessionInv, Granted
  <2>6. TypeOK' /\ LoginsBound' /\ CookiesIssued' /\ GrantsSigned'
    BY <2>1, <2>5 DEF TypeOK, LoginsBound, CookiesIssued, GrantsSigned
  <2>7. JarTokens' /\ TokensGranted'
    BY <2>1 DEF SessionInv, JarTokens, TokensGranted, Granted, TokenRange
  <2>. QED
    BY <2>5, <2>6, <2>7 DEF SessionInv
<1>14. ASSUME NEW r \in pages, ProxyRefresh(r) PROVE IInv'
  <2>. DEFINE t == [sub |-> tokens[r.refresh].sub, type |-> "access"]
  <2>1. r.refresh \in 1..Len(tokens)
    BY <1>14 DEF ProxyRefresh, Refreshable, Verifies, NoToken, SessionInv, JarTokens,
       TokenRange
  <2>2. tokens[r.refresh].sub \in Keys /\ Granted(tokens[r.refresh].sub)
    BY <2>1, TokenTyped DEF SessionInv, TokensGranted
  <2>3. /\ tokens' = Append(tokens, t)
        /\ jar' = [jar EXCEPT !.access = Len(tokens) + 1]
        /\ pages' = pages \ {r}
        /\ admitted' \subseteq admitted \cup {tokens[r.refresh].sub}
        /\ UNCHANGED <<login, challenges, signatures, wire, grants, expired>>
    BY <1>14 DEF ProxyRefresh, Admit, RefreshedToken
  <2>4. /\ tokens' \in Seq([sub : Keys, type : TokenTypes])
        /\ Len(tokens') = Len(tokens) + 1
        /\ \A i \in 1..Len(tokens) : tokens'[i] = tokens[i]
        /\ tokens'[Len(tokens) + 1] = t
    BY <2>2, <2>3 DEF TypeOK, TokenTypes
  <2>5. /\ jar' \in [nonce : Bound \cup {NoCookie}, access : Nat, refresh : Nat]
        /\ jar'.nonce = jar.nonce /\ jar'.refresh = jar.refresh
        /\ jar'.access = Len(tokens) + 1
    BY <2>3 DEF TypeOK
  <2>6. TypeOK'
    BY <2>2, <2>3, <2>4, <2>5 DEF TypeOK
  <2>7. LoginsBound' /\ CookiesIssued' /\ GrantsSigned'
    BY <2>3, <2>5 DEF LoginsBound, CookiesIssued, GrantsSigned
  <2>8. JarTokens'
    BY <2>3, <2>4, <2>5 DEF SessionInv, JarTokens, TokenRange
  <2>9. TokensGranted'
    <3> SUFFICES ASSUME NEW i \in 1..Len(tokens') PROVE Granted(tokens[i].sub)'
      BY DEF TokensGranted
    <3>1. CASE i <= Len(tokens)
      BY <3>1, <2>3, <2>4 DEF TokensGranted, SessionInv, Granted
    <3>2. CASE i > Len(tokens)
      BY <3>2, <2>2, <2>3, <2>4 DEF Granted
    <3>. QED
      BY <3>1, <3>2, <2>4
  <2>10. AdmittedGranted'
    BY <2>2, <2>3 DEF AdmittedGranted, SessionInv, Granted
  <2>. QED
    BY <2>6, <2>7, <2>8, <2>9, <2>10 DEF SessionInv
<1>15. CASE UNCHANGED vars
  BY <1>15 DEF vars, TypeOK, LoginsBound, CookiesIssued, GrantsSigned, SessionInv,
     JarTokens, TokensGranted, AdmittedGranted, Granted, TokenRange
<1>. QED
  BY <1>1, <1>2, <1>3, <1>4, <1>5, <1>6, <1>7, <1>8, <1>9, <1>10, <1>11, <1>12, <1>13,
     <1>14, <1>15 DEF Next

\* A subject admitted to /dashboard won a token pair, and so signed.
LEMMA IInvAdmitted == IInv => AdmittedSigned
<1> SUFFICES ASSUME IInv, NEW k \in admitted
             PROVE  \E c \in challenges \cap signatures : c.key = k
  BY DEF AdmittedSigned
<1>1. PICK j \in 1..Len(grants) : grants[j].sub = k
  BY DEF IInv, SessionInv, AdmittedGranted, Granted
<1>2. [nonce |-> grants[j].nonce, key |-> k] \in challenges \cap signatures
  BY <1>1 DEF IInv, GrantsSigned
<1>. QED
  BY <1>2

(***************************************************************************)
(* For any keys, logins and nonces, /verify issues tokens only to a key    *)
(* that signed a nonce /challenge bound to that key, however the logins'   *)
(* requests interleave and however often a verify request is delivered.    *)
(***************************************************************************)
THEOREM GrantsSignedTheorem == Spec => []GrantsSigned
<1>1. Init => IInv
  BY InitIInv
<1>2. IInv /\ [Next]_vars => IInv'
  BY NextIInv
<1>3. IInv => GrantsSigned
  BY DEF IInv
<1>. QED
  BY <1>1, <1>2, <1>3, PTL DEF Spec

(***************************************************************************)
(* For any keys, logins, nonces and bounds, the proxy middleware admits to *)
(* /dashboard only a key that signed a nonce /challenge bound to it, on    *)
(* the access token /verify set or on one its silent refresh signed, in    *)
(* any order of logins, logouts, token expiry and page requests.           *)
(***************************************************************************)
THEOREM AdmittedSignedTheorem == Spec => []AdmittedSigned
<1>1. Init => IInv
  BY InitIInv
<1>2. IInv /\ [Next]_vars => IInv'
  BY NextIInv
<1>3. IInv => AdmittedSigned
  BY IInvAdmitted
<1>. QED
  BY <1>1, <1>2, <1>3, PTL DEF Spec
=============================================================================
