------------------------------ MODULE WebSession ------------------------------
(***************************************************************************)
(* The frontend's wallet login (src/frontend/src/app/api/v1/auth/*,        *)
(* the cookie helpers of src/frontend/src/utils/stellar.ts and the login   *)
(* and logout of src/frontend/src/hooks/useWalletAuth.ts).                 *)
(*                                                                         *)
(* login() posts the wallet key to /challenge, which draws a random nonce  *)
(* and stores {nonce, publicKey} in the httpOnly auth-nonce cookie; it has *)
(* Freighter sign the nonce and posts the signature to /verify. /verify    *)
(* reads the cookie, checks the key binding and the signature, issues an   *)
(* access and a refresh token into cookies and deletes auth-nonce. The     *)
(* server keeps no record of the nonces it issued or accepted: the cookie  *)
(* the request carries is all it knows.                                    *)
(*                                                                         *)
(* One browser holds the cookie jar; several login() calls (tabs, repeated *)
(* clicks) run at once. The browser attaches the jar's auth-nonce cookie   *)
(* when it sends a request, and a response's Set-Cookie reaches the jar    *)
(* when it arrives. A verify request once sent may be delivered again (a   *)
(* retried POST, or a copy replayed by whoever holds it); the response to  *)
(* such a copy does not reach the browser.                                 *)
(*                                                                         *)
(* The session is the accessToken (1 h) and refreshToken (7 d) cookies.    *)
(* The proxy middleware (src/unnamed/part_015) runs on each request for    *)
(* /dashboard or /login: it admits a request whose access token verifies,  *)
(* and otherwise signs a new access token from a valid refresh token and   *)
(* sets it on its response. A JWT stops verifying when its exp passes; the *)
(* browser drops the cookie that holds it when its maxAge runs out, a      *)
(* little later.                                                           *)
(***************************************************************************)
EXTENDS Naturals, Sequences

CONSTANTS
    Keys,       \* the wallet keys Freighter can sign with
    Logins,     \* login() calls, each run once
    Nonces,     \* the nonces /challenge can draw
    MaxGrants,  \* bound on the token pairs /verify issues
    MaxRefresh  \* bound on the access tokens the silent refresh signs

NoKey == "none"
NoNonce == "none"

\* The jar without an auth-nonce cookie.
NoCookie == [nonce |-> NoNonce, key |-> NoKey]

\* The auth-nonce cookie's value {nonce, publicKey}; a signature is named
\* by the key that made it and the nonce it signs.
Bound == [nonce : Nonces, key : Keys]

\* A cookie without a token; the tokens signed so far are 1..Len(tokens).
NoToken == 0

TokenTypes == {"access", "refresh"}

\* The routes of the proxy's matcher.
Paths == {"/dashboard", "/login"}

LoginPC == {"idle", "challenge", "sign", "verify", "waiting", "done", "failed"}

\* A POST to /verify: the cookie it carried and its JSON body.
Request == [login : Logins, cookie : Bound \cup {NoCookie}, pk : Keys,
            sig : Bound, signer : Keys]

VARIABLES
    jar,          \* the browser's cookies: auth-nonce, accessToken, refreshToken
    login,        \* login[l]: login() call l's progress and locals
    challenges,   \* the {nonce, publicKey} pairs /challenge has issued
    signatures,   \* the signatures Freighter has made
    wire,         \* the verify requests sent so far
    grants,       \* the token pairs /verify issued, in order
    tokens,       \* the JWTs signToken made, in order: their sub and type
    expired,      \* the tokens whose exp has passed
    pages,        \* the page requests sent through the proxy, with their cookies
    admitted      \* the subjects of the requests the proxy let into /dashboard

vars == <<jar, login, challenges, signatures, wire, grants, tokens, expired, pages,
          admitted>>

\* The variables of the session tokens and the proxy.
sessionVars == <<tokens, expired, pages, admitted>>

Init ==
    /\ jar = [nonce |-> NoCookie, access |-> NoToken, refresh |-> NoToken]
    /\ login = [l \in Logins |-> [pc |-> "idle", key |-> NoKey, nonce |-> NoNonce]]
    /\ challenges = {}
    /\ signatures = {}
    /\ wire = {}
    /\ grants = <<>>
    /\ tokens = <<>>
    /\ expired = {}
    /\ pages = {}
    /\ admitted = {}

(* login(key): pk is the key given or the connected publicKey; without    *)
(* one the call sets 'Wallet not connected' and returns.                  *)
LoginStart(l, k) ==
    /\ login[l].pc = "idle"
    /\ login' = [login EXCEPT ![l].pc = "challenge", ![l].key = k]
    /\ UNCHANGED <<jar, challenges, signatures, wire, grants>>
    /\ UNCHANGED sessionVars

LoginNoWallet(l) ==
    /\ login[l].pc = "idle"
    /\ login' = [login EXCEPT ![l].pc = "failed"]
    /\ UNCHANGED <<jar, challenges, signatures, wire, grants>>
    /\ UNCHANGED sessionVars

\* Nonces /challenge has drawn; crypto.randomBytes(32) does not repeat one.
Drawn == {c.nonce : c \in challenges}

(* POST /challenge: a fresh nonce bound to the key in auth-nonce; the     *)
(* response's cookie replaces the jar's, whichever login it was for.      *)
Challenge(l) ==
    /\ login[l].pc = "challenge"
    /\ \E n \in Nonces \ Drawn :
          /\ challenges' = challenges \cup {[nonce |-> n, key |-> login[l].key]}
          /\ jar' = [jar EXCEPT !.nonce = [nonce |-> n, key |-> login[l].key]]
          /\ login' = [login EXCEPT ![l].pc = "sign", ![l].nonce = n]
    /\ UNCHANGED <<signatures, wire, grants>>
    /\ UNCHANGED sessionVars

(* signMessage(nonce, {address: pk}): Freighter signs with pk and reports *)
(* it as signerAddress, or the user refuses and login() fails.            *)
SignOk(l) ==
    /\ login[l].pc = "sign"
    /\ signatures' = signatures \cup {[nonce |-> login[l].nonce, key |-> login[l].key]}
    /\ login' = [login EXCEPT ![l].pc = "verify"]
    /\ UNCHANGED <<jar, challenges, wire, grants>>
    /\ UNCHANGED sessionVars

SignRefused(l) ==
    /\ login[l].pc = "sign"
    /\ login' = [login EXCEPT ![l].pc = "failed"]
    /\ UNCHANGED <<jar, challenges, signatures, wire, grants>>
    /\ UNCHANGED sessionVars

\* The verify request of login l, with the cookie the jar holds now.
VerifyRequest(l) ==
    [login |-> l, cookie |-> jar.nonce, pk |-> login[l].key,
     sig |-> [nonce |-> login[l].nonce, key |-> login[l].key],
     signer |-> login[l].key]

VerifySend(l) ==
    /\ login[l].pc = "verify"
    /\ wire' = wire \cup {VerifyRequest(l)}
    /\ login' = [login EXCEPT ![l].pc = "waiting"]
    /\ UNCHANGED <<jar, challenges, signatures, grants>>
    /\ UNCHANGED sessionVars

(* The checks of POST /verify: an auth-nonce cookie, the body's key equal *)
(* to the bound key and to the signer, and the signature over the         *)
(* cookie's nonce by that key.                                            *)
Accepted(m) ==
    /\ m.cookie # NoCookie
    /\ m.pk = m.cookie.key
    /\ m.pk = m.signer
    /\ m.sig = [nonce |-> m.cookie.nonce, key |-> m.pk]

\* The nonce and subject of the token pair a verify request wins.
Grant(m) == Append(grants, [nonce |-> m.cookie.nonce, sub |-> m.pk])

\* signToken({sub, type: 'access'}, '1h') and ({sub, type: 'refresh'}, '7d').
TokenPair(k) == <<[sub |-> k, type |-> "access"], [sub |-> k, type |-> "refresh"]>>

\* The jar after setAuthCookies(access, refresh) and the delete of auth-nonce.
SessionCookies(a, r) == [nonce |-> NoCookie, access |-> a, refresh |-> r]

(* /verify accepts the browser's request: setAuthCookies and the delete   *)
(* of auth-nonce reach the jar, and login() redirects.                     *)
VerifyAccept(m) ==
    /\ login[m.login].pc = "waiting"
    /\ Accepted(m)
    /\ Len(grants) < MaxGrants
    /\ grants' = Grant(m)
    /\ tokens' = tokens \o TokenPair(m.pk)
    /\ jar' = SessionCookies(Len(tokens) + 1, Len(tokens) + 2)
    /\ login' = [login EXCEPT ![m.login].pc = "done"]
    /\ UNCHANGED <<challenges, signatures, wire, expired, pages, admitted>>

(* /verify answers 400 or 401; login() throws 'Verification failed'.     *)
VerifyReject(m) ==
    /\ login[m.login].pc = "waiting"
    /\ ~Accepted(m)
    /\ login' = [login EXCEPT ![m.login].pc = "failed"]
    /\ UNCHANGED <<jar, challenges, signatures, wire, grants>>
    /\ UNCHANGED sessionVars

(* A copy of a verify request is delivered again after the browser's     *)
(* own was answered: /verify checks the cookie the copy carries and       *)
(* issues tokens to whoever sent it.                                      *)
VerifyReplay(m) ==
    /\ login[m.login].pc \in {"done", "failed"}
    /\ Accepted(m)
    /\ Len(grants) < MaxGrants
    /\ grants' = Grant(m)
    /\ tokens' = tokens \o TokenPair(m.pk)
    /\ UNCHANGED <<jar, login, challenges, signatures, wire, expired, pages, admitted>>

\* The browser drops auth-nonce when its maxAge of 300 s runs out.
CookieExpires ==
    /\ jar.nonce # NoCookie
    /\ jar' = [jar EXCEPT !.nonce = NoCookie]
    /\ UNCHANGED <<login, challenges, signatures, wire, grants>>
    /\ UNCHANGED sessionVars

\* clearAuthCookies: the jar without accessToken and refreshToken.
ClearedSession == [jar EXCEPT !.access = NoToken, !.refresh = NoToken]

(* logout(): POST /logout from the page's origin passes the CSRF check    *)
(* and clearAuthCookies deletes accessToken and refreshToken.              *)
Logout ==
    /\ jar.access # NoToken \/ jar.refresh # NoToken
    /\ jar' = ClearedSession
    /\ UNCHANGED <<login, challenges, signatures, wire, grants>>
    /\ UNCHANGED sessionVars

\* A token's exp passes (1 h after signing for access, 7 d for refresh).
TokenExpires(i) ==
    /\ i \notin expired
    /\ expired' = expired \cup {i}
    /\ UNCHANGED <<jar, login, challenges, signatures, wire, grants, tokens, pages, admitted>>

\* The browser drops an accessToken or refreshToken cookie at its maxAge,
\* which runs out after the exp of the token it holds.
AuthCookieExpires(c) ==
    /\ jar[c] \in expired
    /\ jar' = [jar EXCEPT ![c] = NoToken]
    /\ UNCHANGED <<login, challenges, signatures, wire, grants>>
    /\ UNCHANGED sessionVars

(* A navigation to a route of the matcher: the request carries the jar's  *)
(* accessToken and refreshToken cookies as they are when it is sent.      *)
ProxySend(path) ==
    /\ pages' = pages \cup {[path |-> path, access |-> jar.access, refresh |-> jar.refresh]}
    /\ UNCHANGED <<jar, login, challenges, signatures, wire, grants, tokens, expired,
                   admitted>>

\* verifyToken: the cookie holds a token whose exp has not passed.
Verifies(i) == i # NoToken /\ i \notin expired

\* refreshAccessToken's check: a valid token of type 'refresh'.
Refreshable(i) == Verifies(i) /\ tokens[i].type = "refresh"

\* refreshAccessToken's new token: an access token for the refresh token's sub.
RefreshedToken(i) == [sub |-> tokens[i].sub, type |-> "access"]

\* The access tokens the silent refresh has signed.
Refreshes == Len(tokens) - 2 * Len(grants)

\* /dashboard admits a valid request; /login redirects it to /dashboard.
Admit(path, valid, k) == IF path = "/dashboard" /\ valid THEN admitted \cup {k} ELSE admitted

(* proxy() without a refresh: the access token verifies, or there is no   *)
(* refresh token that refreshAccessToken accepts; the request is served   *)
(* or redirected by isValid alone.                                        *)
ProxyServe(r) ==
    /\ Verifies(r.access) \/ ~Refreshable(r.refresh)
    /\ pages' = pages \ {r}
    /\ admitted' = Admit(r.path, Verifies(r.access),
                         IF Verifies(r.access) THEN tokens[r.access].sub ELSE NoKey)
    /\ UNCHANGED <<jar, login, challenges, signatures, wire, grants, tokens, expired>>

(* proxy() with the silent refresh: the access token does not verify, the *)
(* refresh token does; a new access token for its sub is signed and its   *)
(* Set-Cookie reaches the jar with the response.                          *)
ProxyRefresh(r) ==
    /\ ~Verifies(r.access)
    /\ Refreshable(r.refresh)
    /\ Refreshes < MaxRefresh
    /\ tokens' = Append(tokens, RefreshedToken(r.refresh))
    /\ jar' = [jar EXCEPT !.access = Len(tokens) + 1]
    /\ pages' = pages \ {r}
    /\ admitted' = Admit(r.path, TRUE, tokens[r.refresh].sub)
    /\ UNCHANGED <<login, challenges, signatures, wire, grants, expired>>

Next ==
    \/ \E l \in Logins :
          \/ \E k \in Keys : LoginStart(l, k)
          \/ LoginNoWallet(l) \/ Challenge(l) \/ SignOk(l) \/ SignRefused(l)
          \/ VerifySend(l)
    \/ \E m \in wire : VerifyAccept(m) \/ VerifyReject(m) \/ VerifyReplay(m)
    \/ CookieExpires \/ Logout
    \/ \E i \in 1..Len(tokens) : TokenExpires(i)
    \/ \E c \in {"access", "refresh"} : AuthCookieExpires(c)
    \/ \E path \in Paths : ProxySend(path)
    \/ \E r \in pages : ProxyServe(r) \/ ProxyRefresh(r)

Spec == Init /\ [][Next]_vars

-----------------------------------------------------------------------------
\* The browser's, the logins' and the server's records keep their shape.
TypeOK ==
    /\ jar \in [nonce : Bound \cup {NoCookie}, access : Nat, refresh : Nat]
    /\ login \in [Logins -> [pc : LoginPC, key : Keys \cup {NoKey},
                             nonce : Nonces \cup {NoNonce}]]
    /\ challenges \subseteq Bound
    /\ signatures \subseteq Bound
    /\ wire \subseteq Request
    /\ grants \in Seq([nonce : Nonces, sub : Keys])
    /\ tokens \in Seq([sub : Keys, type : TokenTypes])
    /\ expired \subseteq 1..Len(tokens)
    /\ pages \subseteq [path : Paths, access : Nat, refresh : Nat]
    /\ admitted \subseteq Keys

(***************************************************************************)
(* A nonce wins tokens once: /verify is meant to accept each challenge a   *)
(* single time (the nonce is single-use), so no two token pairs are issued *)
(* on one nonce.                                                           *)
(***************************************************************************)
NonceSingleUse ==
    \A i, j \in 1..Len(grants) : i # j => grants[i].nonce # grants[j].nonce

(***************************************************************************)
(* Tokens go only to a key that signed a nonce /challenge bound to it:     *)
(* every token pair's subject holds a challenge for the pair's nonce and   *)
(* made a signature over it, whatever the order of the tabs' requests.     *)
(***************************************************************************)
GrantsSigned ==
    \A i \in 1..Len(grants) :
        /\ [nonce |-> grants[i].nonce, key |-> grants[i].sub] \in challenges
        /\ [nonce |-> grants[i].nonce, key |-> grants[i].sub] \in signatures

(***************************************************************************)
(* The proxy lets into /dashboard only a key that signed in: every subject *)
(* a request was admitted for, on the access token /verify set or on one   *)
(* the silent refresh signed from a refresh token, holds a challenge it    *)
(* signed, however the tokens expire and the requests interleave.          *)
(***************************************************************************)
AdmittedSigned ==
    \A k \in admitted : \E c \in challenges \cap signatures : c.key = k

(***************************************************************************)
(* The browser's accessToken and refreshToken cookies are of one wallet.   *)
(* proxy() sets the refreshed access token on its response whatever the    *)
(* jar holds when the response arrives, so a refresh that was in flight    *)
(* while another wallet logged in leaves the old wallet's access token     *)
(* beside the new wallet's refresh token. No run checks this: TLC reports  *)
(* it violated on the session_replay instance in 13 steps.                 *)
(***************************************************************************)
JarOneSubject ==
    jar.access # NoToken /\ jar.refresh # NoToken =>
        tokens[jar.access].sub = tokens[jar.refresh].sub
=============================================================================
