---------------------------- MODULE OAuth2Tokens ----------------------------
(***************************************************************************)
(* The token endpoints of authentication/oauth2server over its in-memory   *)
(* Store: redemption of authorization codes, rotation of refresh tokens,   *)
(* detection of reuse, revocation and the sweep.                           *)
(*                                                                         *)
(* A request is a few calls of the Store with other requests in between:   *)
(* it consumes its credential, then stores an access token, then a refresh *)
(* token; or it finds a replay, then revokes the family.  It may fail, or  *)
(* its process die, between any two calls.  The family of a code is minted *)
(* with it at /authorize, so the code itself names the family here.  An    *)
(* access and a refresh token stored by one issueTokenPair share the name  *)
(* of the pair.                                                            *)
(***************************************************************************)
EXTENDS Naturals, FiniteSets

CONSTANTS Codes,        \* authorization codes, and with them token families
          Clients,      \* registered clients
          Reqs,         \* requests to /token and /revoke
          Pairs,        \* names for the token pairs that can be minted
          Scopes,       \* scopes
          CodeTTL, AccessTTL, RefreshTTL,
          DetectReuse,  \* WithRefreshReuseDetection
          None

ASSUME OAuthAssumption ==
  /\ CodeTTL \in Nat /\ AccessTTL \in Nat /\ RefreshTTL \in Nat
  /\ DetectReuse \in BOOLEAN
  /\ None \notin Codes \union Pairs \union Clients
  /\ Codes \intersect Pairs = {}

Credentials == Codes \union Pairs

VARIABLES
  registered, \* clients that authenticateClient finds
  codes,      \* Store.codes
  access,     \* Store.access
  refresh,    \* Store.refresh
  at,         \* where a request is
  job,        \* what it carries from one Store call to the next
  issued,     \* ghost: the codes issued so far, a code being a fresh random one
  minted,     \* ghost: pairs whose credentials were minted
  presented,  \* ghost: which request presented which credential at /token
  replays,    \* ghost: credentials counted in reuseDetected
  ended,      \* ghost: families a RevokeFamily call has revoked
  overlapped  \* ghost: of those, the ones with an issueTokenPair under way

storeVars == <<registered, codes, access, refresh>>
ghostVars == <<issued, presented, replays, ended, overlapped>>
oauthVars == <<storeVars, at, job, minted, ghostVars>>

Code == [client : Clients, scopes : SUBSET Scopes, left : 0..CodeTTL, redeemed : BOOLEAN]
Access == [fam : Codes, client : Clients, scopes : SUBSET Scopes,
           left : 0..AccessTTL, revoked : BOOLEAN]
Refresh == [fam : Codes, client : Clients, scopes : SUBSET Scopes,
            left : 0..RefreshTTL, revoked : BOOLEAN, redeemed : BOOLEAN]
Job == [fam : Codes, client : Clients, scopes : SUBSET Scopes, pair : Pairs \union {None}]

\* The state is of its types.
OAuthTypeOK ==
  /\ registered \subseteq Clients
  /\ codes \in [Codes -> Code \union {None}]
  /\ access \in [Pairs -> Access \union {None}]
  /\ refresh \in [Pairs -> Refresh \union {None}]
  /\ at \in [Reqs -> {"idle", "access", "refresh", "revoke", "done"}]
  /\ job \in [Reqs -> Job \union {None}]
  /\ issued \subseteq Codes
  /\ minted \subseteq Pairs
  /\ presented \subseteq (Credentials \X Reqs)
  /\ replays \subseteq Credentials
  /\ ended \subseteq Codes /\ overlapped \subseteq ended

OAuthInit ==
  /\ registered = Clients
  /\ codes = [c \in Codes |-> None]
  /\ access = [p \in Pairs |-> None] /\ refresh = [p \in Pairs |-> None]
  /\ at = [r \in Reqs |-> "idle"] /\ job = [r \in Reqs |-> None]
  /\ issued = {}
  /\ minted = {} /\ presented = {} /\ replays = {}
  /\ ended = {} /\ overlapped = {}

-----------------------------------------------------------------------------
(* What a credential is good for.                                          *)

Redeemable(c) == codes[c] # None /\ ~codes[c].redeemed /\ codes[c].left > 0
CodeSpent(c) == codes[c] # None /\ codes[c].redeemed
Rotatable(p) == /\ refresh[p] # None /\ ~refresh[p].redeemed
                /\ ~refresh[p].revoked /\ refresh[p].left > 0
RefreshSpent(p) == refresh[p] # None /\ refresh[p].redeemed
Active(p) == access[p] # None /\ ~access[p].revoked /\ access[p].left > 0

\* A request that is between consuming its credential and storing a pair.
Minting(r, f) == at[r] \in {"access", "refresh"} /\ job[r].fam = f

Goes(r, to, j) == /\ at' = [at EXCEPT ![r] = to]
                  /\ job' = [job EXCEPT ![r] = j]
Ends(r) == Goes(r, "done", None)
Presents(r, cred) == presented' = presented \union {<<cred, r>>}

\* A request of an authenticated client: the first read of every handler.
Authenticated(r, cl) == at[r] = "idle" /\ cl \in registered

-----------------------------------------------------------------------------
(* Clients and /authorize.                                                 *)

\* DeleteClient, or a registration that lapses: its tokens stay.  A client that
\* registers again gets a new identifier.
LoseClient(cl) ==
  /\ cl \in registered
  /\ registered' = registered \ {cl}
  /\ UNCHANGED <<codes, access, refresh, at, job, minted, ghostVars>>

\* The deadline is computed before the write, so it may be nearer by then.
IssueCode(c, cl, S, left) ==
  /\ cl \in registered /\ c \notin issued
  /\ codes' = [codes EXCEPT ![c] = [client |-> cl, scopes |-> S, left |-> left, redeemed |-> FALSE]]
  /\ issued' = issued \union {c}
  /\ UNCHANGED <<registered, access, refresh, at, job, minted, presented, replays, ended, overlapped>>

-----------------------------------------------------------------------------
(* grantAuthorizationCode.                                                 *)

\* The code is consumed first; a client, redirect_uri or code_verifier that
\* does not fit spends it for nothing.
RedeemCode(r, cl, c, fits) ==
  /\ Authenticated(r, cl) /\ Redeemable(c)
  /\ codes' = [codes EXCEPT ![c].redeemed = TRUE]
  /\ IF codes[c].client = cl /\ fits
     THEN Goes(r, "access", [fam |-> c, client |-> cl, scopes |-> codes[c].scopes, pair |-> None])
     ELSE Ends(r)
  /\ Presents(r, c)
  /\ UNCHANGED <<registered, access, refresh, minted, issued, replays, ended, overlapped>>

\* handleCodeReplay: the record names the family to revoke.
ReplayCode(r, cl, c) ==
  /\ Authenticated(r, cl) /\ CodeSpent(c)
  /\ Goes(r, "revoke", [fam |-> c, client |-> codes[c].client, scopes |-> codes[c].scopes, pair |-> None])
  /\ Presents(r, c) /\ replays' = replays \union {c}
  /\ UNCHANGED <<storeVars, minted, issued, ended, overlapped>>

-----------------------------------------------------------------------------
(* grantRefreshToken.                                                      *)

\* S is the requested scope; naming none asks for the whole of the old one.
\* A token of another client ends its family, a scope too wide only the token.
Rotated(r, cl, p, S) ==
  LET old == refresh[p]
      next == [fam |-> old.fam, client |-> cl, pair |-> None,
               scopes |-> IF S = {} THEN old.scopes ELSE S]
  IN  CASE old.client # cl -> Goes(r, "revoke", next)
        [] old.client = cl /\ S \subseteq old.scopes -> Goes(r, "access", next)
        [] OTHER -> Ends(r)

\* Variant of Rotate: the token is read and not marked as redeemed.
RotateUnmarked(r, cl, p, S) ==
  /\ Authenticated(r, cl) /\ Rotatable(p)
  /\ Rotated(r, cl, p, S)
  /\ Presents(r, p)
  /\ UNCHANGED <<storeVars, minted, issued, replays, ended, overlapped>>

Rotate(r, cl, p, S) ==
  /\ Authenticated(r, cl) /\ Rotatable(p)
  /\ refresh' = [refresh EXCEPT ![p].redeemed = TRUE]
  /\ Rotated(r, cl, p, S)
  /\ Presents(r, p)
  /\ UNCHANGED <<registered, codes, access, minted, issued, replays, ended, overlapped>>

\* refreshRotationError: a replay, whether or not the token was revoked since.
ReplayRefresh(r, cl, p) ==
  /\ Authenticated(r, cl) /\ RefreshSpent(p)
  /\ IF DetectReuse
     THEN Goes(r, "revoke", [fam |-> refresh[p].fam, client |-> refresh[p].client,
                             scopes |-> refresh[p].scopes, pair |-> None])
     ELSE Ends(r)
  /\ Presents(r, p) /\ replays' = replays \union {p}
  /\ UNCHANGED <<storeVars, minted, issued, ended, overlapped>>

\* Anything unknown, expired or revoked, or a client that is not known.
Refused(r) ==
  /\ at[r] = "idle" /\ Ends(r)
  /\ UNCHANGED <<storeVars, minted, ghostVars>>

-----------------------------------------------------------------------------
(* issueTokenPair: two writes, access first.                               *)

StoreAccess(r, p, left) ==
  /\ at[r] = "access" /\ p \notin minted
  /\ minted' = minted \union {p}
  /\ access' = [access EXCEPT ![p] = [fam |-> job[r].fam, client |-> job[r].client,
                  scopes |-> job[r].scopes, left |-> left, revoked |-> FALSE]]
  /\ Goes(r, "refresh", [job[r] EXCEPT !.pair = p])
  /\ UNCHANGED <<registered, codes, refresh, ghostVars>>

StoreRefresh(r, left) ==
  /\ at[r] = "refresh"
  /\ refresh' = [refresh EXCEPT ![job[r].pair] = [fam |-> job[r].fam, client |-> job[r].client,
                   scopes |-> job[r].scopes, left |-> left, revoked |-> FALSE, redeemed |-> FALSE]]
  /\ Ends(r)
  /\ UNCHANGED <<registered, codes, access, minted, ghostVars>>

\* A Store call returns an error, or the process dies: nothing is undone, and
\* a revocation that fails is only recorded.
Fail(r) ==
  /\ at[r] \in {"access", "refresh", "revoke"} /\ Ends(r)
  /\ UNCHANGED <<storeVars, minted, ghostVars>>

-----------------------------------------------------------------------------
(* Revocation.                                                             *)

\* Variant of RevokeFamily: the access tokens of the family are left alone.
RevokeFamilyRefreshOnly(r) ==
  /\ at[r] = "revoke"
  /\ LET f == job[r].fam
         Revoked(t) == IF t # None /\ t.fam = f THEN [t EXCEPT !.revoked = TRUE] ELSE t
     IN  /\ refresh' = [p \in Pairs |-> Revoked(refresh[p])]
         /\ ended' = ended \union {f}
         /\ overlapped' = overlapped \union {g \in {f} : \E q \in Reqs : Minting(q, g)}
  /\ Ends(r)
  /\ UNCHANGED <<registered, codes, access, minted, issued, presented, replays>>

\* Store.RevokeFamily, for a replay, a foreign client or a sign-out.
RevokeFamily(r) ==
  /\ at[r] = "revoke"
  /\ LET f == job[r].fam
         Revoked(t) == IF t # None /\ t.fam = f THEN [t EXCEPT !.revoked = TRUE] ELSE t
     IN  /\ access' = [p \in Pairs |-> Revoked(access[p])]
         /\ refresh' = [p \in Pairs |-> Revoked(refresh[p])]
         /\ ended' = ended \union {f}
         /\ overlapped' = overlapped \union {g \in {f} : \E q \in Reqs : Minting(q, g)}
  /\ Ends(r)
  /\ UNCHANGED <<registered, codes, minted, issued, presented, replays>>

\* Variant of SignOut: the token is consumed on the way.
SignOutConsumes(r, cl, p) ==
  /\ Authenticated(r, cl) /\ Rotatable(p) /\ refresh[p].client = cl
  /\ refresh' = [refresh EXCEPT ![p].redeemed = TRUE]
  /\ Goes(r, "revoke", [fam |-> refresh[p].fam, client |-> cl, scopes |-> refresh[p].scopes, pair |-> None])
  /\ UNCHANGED <<registered, codes, access, minted, ghostVars>>

\* /revoke of a refresh token reads it, redeemed or not, and does not consume it.
SignOut(r, cl, p) ==
  /\ Authenticated(r, cl)
  /\ refresh[p] # None /\ ~refresh[p].revoked /\ refresh[p].left > 0 /\ refresh[p].client = cl
  /\ Goes(r, "revoke", [fam |-> refresh[p].fam, client |-> cl, scopes |-> refresh[p].scopes, pair |-> None])
  /\ UNCHANGED <<storeVars, minted, ghostVars>>

\* /revoke of an access token takes that token only.
RevokeAccess(r, cl, p) ==
  /\ Authenticated(r, cl) /\ Active(p) /\ access[p].client = cl
  /\ access' = [access EXCEPT ![p].revoked = TRUE]
  /\ Ends(r)
  /\ UNCHANGED <<registered, codes, refresh, minted, ghostVars>>

-----------------------------------------------------------------------------
(* Time, and the sweep of what has passed its deadline.                    *)

OAuthTick ==
  LET Older(t) == IF t = None THEN None ELSE [t EXCEPT !.left = IF @ = 0 THEN 0 ELSE @ - 1]
  IN  /\ codes' = [c \in Codes |-> Older(codes[c])]
      /\ access' = [p \in Pairs |-> Older(access[p])]
      /\ refresh' = [p \in Pairs |-> Older(refresh[p])]
      /\ UNCHANGED <<registered, at, job, minted, ghostVars>>

SweepStore ==
  LET Kept(t) == IF t # None /\ t.left > 0 THEN t ELSE None
  IN  /\ codes' = [c \in Codes |-> Kept(codes[c])]
      /\ access' = [p \in Pairs |-> Kept(access[p])]
      /\ refresh' = [p \in Pairs |-> Kept(refresh[p])]
      /\ UNCHANGED <<registered, at, job, minted, ghostVars>>

TokenStep(r) ==
  \/ \E cl \in Clients, c \in Codes :
       \/ \E fits \in BOOLEAN : RedeemCode(r, cl, c, fits)
       \/ ReplayCode(r, cl, c)
  \/ \E cl \in Clients, p \in Pairs :
       \/ \E S \in SUBSET Scopes : Rotate(r, cl, p, S)
       \/ ReplayRefresh(r, cl, p)
       \/ SignOut(r, cl, p)
       \/ RevokeAccess(r, cl, p)
  \/ \E p \in Pairs, left \in 0..AccessTTL : StoreAccess(r, p, left)
  \/ \E left \in 0..RefreshTTL : StoreRefresh(r, left)
  \/ RevokeFamily(r)
  \/ Refused(r)
  \/ Fail(r)

OAuthNext ==
  \/ \E cl \in Clients : LoseClient(cl)
  \/ \E c \in Codes, cl \in Clients, S \in SUBSET Scopes, left \in 0..CodeTTL : IssueCode(c, cl, S, left)
  \/ \E r \in Reqs : TokenStep(r)
  \/ OAuthTick
  \/ SweepStore

OAuthSpec == OAuthInit /\ [][OAuthNext]_oauthVars

-----------------------------------------------------------------------------
(* A family has at most one credential that can still be exchanged at      *)
(* /token, however many requests race, fail half-way or replay: codes are  *)
(* consumed before they are checked, a refresh token before its successor  *)
(* is minted, and a family is never forked.                                *)
OneSuccessor ==
  /\ \A p, q \in Pairs :
       Rotatable(p) /\ Rotatable(q) /\ refresh[p].fam = refresh[q].fam => p = q
  /\ \A p \in Pairs : Rotatable(p) => ~Redeemable(refresh[p].fam)

(* Once RevokeFamily has run for a replay, a foreign client or a sign-out, *)
(* no token of the family is usable, now or later.  The one exception is a *)
(* revocation that ran while an issueTokenPair of the family was under     *)
(* way: nothing in the two writes looks at the family again.               *)
EndedFamilyIsDead ==
  \A f \in ended \ overlapped, p \in Pairs :
    /\ Active(p) => access[p].fam # f
    /\ Rotatable(p) => refresh[p].fam # f

(* A credential is counted as reused, and its family revoked for it, only  *)
(* if two requests really presented it at /token: a sign-out that races an *)
(* honest rotation does not look like a replay.                            *)
ReuseIsReal ==
  \A cred \in replays :
    \E r, q \in Reqs : r # q /\ {<<cred, r>>, <<cred, q>>} \subseteq presented
=============================================================================
