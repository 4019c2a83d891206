-------------------------- MODULE CredentialProofs --------------------------
(***************************************************************************)
(* Tokens, secrets and permissions: the token endpoints of oauth2server,   *)
(* the caching source of secrets and the cached resolver of authorization, *)
(* for any codes, clients, scopes, deadlines, names, roles and processes,  *)
(* and any number of concurrent requests.                                  *)
(***************************************************************************)
EXTENDS OAuth2Tokens, CachingSource, PolicyCache, TLAPS

-----------------------------------------------------------------------------
(* oauth2server.                                                           *)

(* Where a request is between two calls of the Store.                      *)
UnderWay == {"access", "refresh", "revoke"}

(* A request between two Store calls carries a job, and a pair from the    *)
(* first of its two writes on.                                             *)
JobsTyped ==
  \A r \in Reqs : /\ at[r] \in UnderWay => job[r] \in Job
                  /\ at[r] = "refresh" => job[r].pair \in Pairs

(* The type invariant, with what a request carries.                        *)
TokensTyped == OAuthTypeOK /\ JobsTyped

(* No code was issued and no request has begun.                            *)
LEMMA TokensTypedStart == OAuthInit => TokensTyped
<1> SUFFICES ASSUME OAuthInit PROVE TokensTyped
  OBVIOUS
<1>1. OAuthTypeOK
  BY OAuthAssumption DEF OAuthInit, OAuthTypeOK
<1>2. JobsTyped
  BY DEF OAuthInit, JobsTyped, UnderWay
<1> QED BY <1>1, <1>2 DEF TokensTyped

(* A request that goes on carries a job.                                   *)
LEMMA GoesTyped ==
  ASSUME TokensTyped, NEW r \in Reqs, NEW to \in {"access", "revoke"}, NEW j \in Job,
         Goes(r, to, j)
  PROVE  /\ at' \in [Reqs -> {"idle", "access", "refresh", "revoke", "done"}]
         /\ job' \in [Reqs -> Job \union {None}]
         /\ JobsTyped'
BY DEF TokensTyped, OAuthTypeOK, JobsTyped, Goes, UnderWay

(* A request that has ended carries nothing.                               *)
LEMMA EndsTyped ==
  ASSUME TokensTyped, NEW r \in Reqs, Ends(r)
  PROVE  /\ at' \in [Reqs -> {"idle", "access", "refresh", "revoke", "done"}]
         /\ job' \in [Reqs -> Job \union {None}]
         /\ JobsTyped'
BY DEF TokensTyped, OAuthTypeOK, JobsTyped, Ends, Goes, UnderWay

(* Every step keeps the types.                                             *)
LEMMA TokensStayTyped == TokensTyped /\ [OAuthNext]_oauthVars => TokensTyped'
<1> SUFFICES ASSUME TokensTyped, [OAuthNext]_oauthVars PROVE TokensTyped'
  OBVIOUS
<1> USE OAuthAssumption DEF TokensTyped, OAuthTypeOK, storeVars, ghostVars, Credentials
<1>1. CASE UNCHANGED oauthVars
  BY <1>1 DEF oauthVars, JobsTyped
<1>2. ASSUME NEW cl \in Clients, LoseClient(cl) PROVE TokensTyped'
  BY <1>2 DEF LoseClient, JobsTyped
<1>3. ASSUME NEW c \in Codes, NEW cl \in Clients, NEW S \in SUBSET Scopes,
             NEW left \in 0..CodeTTL, IssueCode(c, cl, S, left)
      PROVE  TokensTyped'
  BY <1>3 DEF IssueCode, JobsTyped, Code
<1>4. ASSUME NEW r \in Reqs, NEW cl \in Clients, NEW c \in Codes, NEW fits \in BOOLEAN,
             RedeemCode(r, cl, c, fits)
      PROVE  TokensTyped'
  <2>1. codes[c] \in Code
    BY <1>4 DEF RedeemCode, Redeemable
  <2>2. codes' \in [Codes -> Code \union {None}]
    BY <1>4, <2>1 DEF RedeemCode, Code
  <2>3. [fam |-> c, client |-> cl, scopes |-> codes[c].scopes, pair |-> None] \in Job
    BY <2>1 DEF Code, Job
  <2> QED BY <1>4, <2>2, <2>3, GoesTyped, EndsTyped DEF RedeemCode, Presents
<1>5. ASSUME NEW r \in Reqs, NEW cl \in Clients, NEW c \in Codes, ReplayCode(r, cl, c)
      PROVE  TokensTyped'
  <2>1. [fam |-> c, client |-> codes[c].client, scopes |-> codes[c].scopes, pair |-> None] \in Job
    BY <1>5 DEF ReplayCode, CodeSpent, Code, Job
  <2> QED BY <1>5, <2>1, GoesTyped DEF ReplayCode, Presents
<1>6. ASSUME NEW r \in Reqs, NEW cl \in Clients, NEW p \in Pairs, NEW S \in SUBSET Scopes,
             Rotate(r, cl, p, S)
      PROVE  TokensTyped'
  <2>1. refresh[p] \in Refresh
    BY <1>6 DEF Rotate, Rotatable
  <2>2. refresh' \in [Pairs -> Refresh \union {None}]
    BY <1>6, <2>1 DEF Rotate, Refresh
  <2>3. [fam |-> refresh[p].fam, client |-> cl, pair |-> None,
         scopes |-> IF S = {} THEN refresh[p].scopes ELSE S] \in Job
    BY <2>1 DEF Refresh, Job
  <2>4. /\ at' \in [Reqs -> {"idle", "access", "refresh", "revoke", "done"}]
        /\ job' \in [Reqs -> Job \union {None}]
        /\ JobsTyped'
    BY <1>6, <2>3, GoesTyped, EndsTyped DEF Rotate, Rotated
  <2> QED BY <1>6, <2>2, <2>4 DEF Rotate, Presents
<1>7. ASSUME NEW r \in Reqs, NEW cl \in Clients, NEW p \in Pairs, ReplayRefresh(r, cl, p)
      PROVE  TokensTyped'
  <2>1. [fam |-> refresh[p].fam, client |-> refresh[p].client,
         scopes |-> refresh[p].scopes, pair |-> None] \in Job
    BY <1>7 DEF ReplayRefresh, RefreshSpent, Refresh, Job
  <2> QED BY <1>7, <2>1, GoesTyped, EndsTyped DEF ReplayRefresh, Presents
<1>8. ASSUME NEW r \in Reqs, NEW cl \in Clients, NEW p \in Pairs, SignOut(r, cl, p)
      PROVE  TokensTyped'
  <2>1. [fam |-> refresh[p].fam, client |-> cl, scopes |-> refresh[p].scopes, pair |-> None] \in Job
    BY <1>8 DEF SignOut, Refresh, Job
  <2> QED BY <1>8, <2>1, GoesTyped DEF SignOut
<1>9. ASSUME NEW r \in Reqs, NEW cl \in Clients, NEW p \in Pairs, RevokeAccess(r, cl, p)
      PROVE  TokensTyped'
  <2>1. access[p] \in Access
    BY <1>9 DEF RevokeAccess, Active
  <2>2. [access[p] EXCEPT !.revoked = TRUE] \in Access
    BY <2>1 DEF Access
  <2>3. access' \in [Pairs -> Access \union {None}]
    BY <1>9, <2>2 DEF RevokeAccess
  <2> QED BY <1>9, <2>3, EndsTyped DEF RevokeAccess
<1>10. ASSUME NEW r \in Reqs, NEW p \in Pairs, NEW left \in 0..AccessTTL, StoreAccess(r, p, left)
       PROVE  TokensTyped'
  <2>1. job[r] \in Job
    BY <1>10 DEF StoreAccess, JobsTyped, UnderWay
  <2>2. access' \in [Pairs -> Access \union {None}]
    BY <1>10, <2>1 DEF StoreAccess, Access, Job
  <2>3. [job[r] EXCEPT !.pair = p] \in Job /\ [job[r] EXCEPT !.pair = p].pair = p
    BY <2>1 DEF Job
  <2>4. /\ at' \in [Reqs -> {"idle", "access", "refresh", "revoke", "done"}]
        /\ job' \in [Reqs -> Job \union {None}]
        /\ JobsTyped'
    BY <1>10, <2>3 DEF StoreAccess, Goes, JobsTyped, UnderWay
  <2> QED BY <1>10, <2>2, <2>4 DEF StoreAccess
<1>11. ASSUME NEW r \in Reqs, NEW left \in 0..RefreshTTL, StoreRefresh(r, left)
       PROVE  TokensTyped'
  <2>1. job[r] \in Job /\ job[r].pair \in Pairs
    BY <1>11 DEF StoreRefresh, JobsTyped, UnderWay
  <2>2. refresh' \in [Pairs -> Refresh \union {None}]
    BY <1>11, <2>1 DEF StoreRefresh, Refresh, Job
  <2> QED BY <1>11, <2>2, EndsTyped DEF StoreRefresh
<1>12. ASSUME NEW r \in Reqs, RevokeFamily(r) PROVE TokensTyped'
  <2>1. job[r] \in Job
    BY <1>12 DEF RevokeFamily, JobsTyped, UnderWay
  <2>2. job[r].fam \in Codes
    BY <2>1 DEF Job
  <2>3. access' \in [Pairs -> Access \union {None}]
    <3>1. \A t \in Access : [t EXCEPT !.revoked = TRUE] \in Access
      BY DEF Access
    <3> QED BY <1>12, <3>1 DEF RevokeFamily
  <2>4. refresh' \in [Pairs -> Refresh \union {None}]
    <3>1. \A t \in Refresh : [t EXCEPT !.revoked = TRUE] \in Refresh
      BY DEF Refresh
    <3> QED BY <1>12, <3>1 DEF RevokeFamily
  <2> QED BY <1>12, <2>2, <2>3, <2>4, EndsTyped DEF RevokeFamily
<1>13. ASSUME NEW r \in Reqs, Refused(r) \/ Fail(r) PROVE TokensTyped'
  BY <1>13, EndsTyped DEF Refused, Fail
<1>14. CASE OAuthTick
  <2>1. codes' \in [Codes -> Code \union {None}]
    <3>1. \A t \in Code : [t EXCEPT !.left = IF @ = 0 THEN 0 ELSE @ - 1] \in Code
      BY DEF Code
    <3> QED BY <1>14, <3>1 DEF OAuthTick
  <2>2. access' \in [Pairs -> Access \union {None}]
    <3>1. \A t \in Access : [t EXCEPT !.left = IF @ = 0 THEN 0 ELSE @ - 1] \in Access
      BY DEF Access
    <3> QED BY <1>14, <3>1 DEF OAuthTick
  <2>3. refresh' \in [Pairs -> Refresh \union {None}]
    <3>1. \A t \in Refresh : [t EXCEPT !.left = IF @ = 0 THEN 0 ELSE @ - 1] \in Refresh
      BY DEF Refresh
    <3> QED BY <1>14, <3>1 DEF OAuthTick
  <2> QED BY <1>14, <2>1, <2>2, <2>3 DEF OAuthTick, JobsTyped
<1>15. CASE SweepStore
  <2>1. codes' \in [Codes -> Code \union {None}]
    BY <1>15 DEF SweepStore
  <2>2. access' \in [Pairs -> Access \union {None}]
    BY <1>15 DEF SweepStore
  <2>3. refresh' \in [Pairs -> Refresh \union {None}]
    BY <1>15 DEF SweepStore
  <2> QED BY <1>15, <2>1, <2>2, <2>3 DEF SweepStore, JobsTyped
<1> HIDE DEF TokensTyped, OAuthTypeOK
<1>16. ASSUME NEW r \in Reqs, TokenStep(r) PROVE TokensTyped'
  BY <1>4, <1>5, <1>6, <1>7, <1>8, <1>9, <1>10, <1>11, <1>12, <1>13, <1>16 DEF TokenStep
<1> QED
  BY <1>1, <1>2, <1>3, <1>14, <1>15, <1>16 DEF OAuthNext

-----------------------------------------------------------------------------
(* The code of a family that has tokens, or a request at work on it, or    *)
(* that was revoked, can not be exchanged any more, nor issued again.      *)
Past(f) == f \in issued /\ ~Redeemable(f)

(* OneSuccessor and EndedFamilyIsDead, strengthened: the right to continue *)
(* a family is in one place, its code, its unspent refresh token or the    *)
(* one request that consumed either of them and has not stored the next.   *)
FamilyInv ==
  /\ \A c \in Codes : codes[c] # None => c \in issued
  /\ \A r \in Reqs : at[r] \in UnderWay => Past(job[r].fam)
  /\ \A p \in Pairs : refresh[p] # None => Past(refresh[p].fam)
  /\ \A f \in ended : Past(f)
  /\ \A q, r \in Reqs, f \in Codes : Minting(q, f) /\ Minting(r, f) => q = r
  /\ \A r \in Reqs, p \in Pairs : Minting(r, refresh[p].fam) => ~Rotatable(p)
  /\ \A r \in Reqs, f \in ended \ overlapped : ~Minting(r, f)
  /\ OneSuccessor
  /\ EndedFamilyIsDead

(* There is no family yet.                                                 *)
LEMMA FamilyStarts == OAuthInit => FamilyInv
BY DEF OAuthInit, FamilyInv, OneSuccessor, EndedFamilyIsDead, Past, Rotatable, Redeemable,
       Active, Minting, UnderWay

(* Families are named by the codes they began with.                        *)
LEMMA FamTyped ==
  ASSUME TokensTyped
  PROVE  /\ \A p \in Pairs : refresh[p] # None => refresh[p].fam \in Codes
         /\ \A p \in Pairs : access[p] # None => access[p].fam \in Codes
         /\ \A r \in Reqs : at[r] \in UnderWay => job[r].fam \in Codes
         /\ ended \subseteq Codes
BY DEF TokensTyped, OAuthTypeOK, JobsTyped, Refresh, Access, Job

(* Whatever became of a pair, nothing of it is usable that was not.        *)
NoMoreOf(p) ==
  /\ refresh'[p] # None => refresh[p] # None /\ refresh'[p].fam = refresh[p].fam
  /\ Rotatable(p)' => Rotatable(p)
  /\ Active(p)' => Active(p) /\ access'[p].fam = access[p].fam

(* A step that brings no token to life, and after which nobody mints who   *)
(* did not before, keeps the invariant.                                    *)
Subdued ==
  /\ \A f \in Codes : Past(f) => Past(f)'
  /\ \A c \in Codes : codes'[c] # None => c \in issued'
  /\ \A p \in Pairs : NoMoreOf(p)
  /\ \A r \in Reqs, f \in Codes : Minting(r, f)' => Minting(r, f)
  /\ \A r \in Reqs : at'[r] \in UnderWay => Past(job[r].fam)'
  /\ UNCHANGED <<ended, overlapped>>

(* Such a step breaks nothing the families are promised.                   *)
LEMMA SubduedKeeps == ASSUME TokensTyped, FamilyInv, Subdued PROVE FamilyInv'
<1> USE FamTyped DEF FamilyInv, Subdued, NoMoreOf, OneSuccessor, EndedFamilyIsDead
<1>1. \A p \in Pairs : refresh'[p] # None => Past(refresh[p].fam)'
  OBVIOUS
<1>2. \A f \in ended' : Past(f)'
  OBVIOUS
<1>3. \A q, r \in Reqs, f \in Codes : (Minting(q, f) /\ Minting(r, f))' => q = r
  OBVIOUS
<1>4. \A p \in Pairs : Rotatable(p)' => refresh'[p].fam \in Codes
        /\ refresh'[p].fam = refresh[p].fam
  BY DEF Rotatable
<1>5. \A r \in Reqs, p \in Pairs : Minting(r, refresh[p].fam)' => ~Rotatable(p)'
  BY <1>4
<1>6. OneSuccessor'
  BY <1>1, <1>4 DEF Past, Rotatable
<1>7. EndedFamilyIsDead'
  BY <1>4
<1> QED BY <1>1, <1>2, <1>3, <1>5, <1>6, <1>7

(* Codes are only spent, and only an unissued one is issued.               *)
LEMMA PastIsForever ==
  ASSUME TokensTyped, FamilyInv, [OAuthNext]_oauthVars
  PROVE  /\ \A f \in Codes : Past(f) => Past(f)'
         /\ \A c \in Codes : codes'[c] # None => c \in issued'
<1> USE OAuthAssumption DEF storeVars, ghostVars
<1>0. codes \in [Codes -> Code \union {None}] /\ \A c \in Codes : codes[c] # None => c \in issued
  BY DEF TokensTyped, OAuthTypeOK, FamilyInv
<1>1. ASSUME UNCHANGED <<codes, issued>>
      PROVE  /\ \A f \in Codes : Past(f) => Past(f)'
             /\ \A c \in Codes : codes'[c] # None => c \in issued'
  BY <1>0, <1>1 DEF Past, Redeemable
<1>2. ASSUME UNCHANGED issued,
             \A c \in Codes : codes'[c] # None => codes[c] # None
               /\ (Redeemable(c)' => Redeemable(c))
      PROVE  /\ \A f \in Codes : Past(f) => Past(f)'
             /\ \A c \in Codes : codes'[c] # None => c \in issued'
  BY <1>0, <1>2 DEF Past, Redeemable
<1>3. ASSUME NEW c \in Codes, NEW cl \in Clients, NEW S \in SUBSET Scopes,
             NEW left \in 0..CodeTTL, IssueCode(c, cl, S, left)
      PROVE  /\ \A f \in Codes : Past(f) => Past(f)'
             /\ \A d \in Codes : codes'[d] # None => d \in issued'
  BY <1>0, <1>3 DEF IssueCode, Past, Redeemable
<1>4. ASSUME NEW r \in Reqs, NEW cl \in Clients, NEW c \in Codes, NEW fits \in BOOLEAN,
             RedeemCode(r, cl, c, fits)
      PROVE  /\ \A f \in Codes : Past(f) => Past(f)'
             /\ \A d \in Codes : codes'[d] # None => d \in issued'
  <2>1. UNCHANGED issued /\ codes[c] \in Code /\ codes[c] # None
        /\ codes' = [codes EXCEPT ![c] = [codes[c] EXCEPT !.redeemed = TRUE]]
    BY <1>0, <1>4 DEF RedeemCode, Redeemable
  <2>2. [codes[c] EXCEPT !.redeemed = TRUE].redeemed
    BY <2>1 DEF Code
  <2> QED BY <1>0, <1>2, <2>1, <2>2 DEF Redeemable
<1>5. CASE OAuthTick
  <2> DEFINE Older(t) == [t EXCEPT !.left = IF @ = 0 THEN 0 ELSE @ - 1]
  <2>1. \A t \in Code : Older(t).redeemed = t.redeemed /\ (Older(t).left > 0 => t.left > 0)
    BY DEF Code
  <2> QED BY <1>0, <1>2, <1>5, <2>1 DEF OAuthTick, Redeemable
<1>6. CASE SweepStore
  BY <1>0, <1>2, <1>6 DEF SweepStore, Redeemable
<1>7. ASSUME NEW r \in Reqs, TokenStep(r)
      PROVE  \/ UNCHANGED <<codes, issued>>
             \/ \E cl \in Clients, c \in Codes, fits \in BOOLEAN : RedeemCode(r, cl, c, fits)
  BY <1>7 DEF TokenStep, ReplayCode, Rotate, ReplayRefresh, SignOut, RevokeAccess,
              StoreAccess, StoreRefresh, RevokeFamily, Refused, Fail
<1>8. CASE UNCHANGED oauthVars \/ \E cl \in Clients : LoseClient(cl)
  BY <1>8, <1>1 DEF oauthVars, LoseClient
<1> QED BY <1>1, <1>3, <1>4, <1>5, <1>6, <1>7, <1>8 DEF OAuthNext

(* A request that goes on to revoke, or ends, mints nothing.               *)
LEMMA MovesOn ==
  ASSUME TokensTyped, FamilyInv, [OAuthNext]_oauthVars, NEW r \in Reqs,
         Ends(r) \/ \E j \in Job : Goes(r, "revoke", j) /\ Past(j.fam)
  PROVE  /\ \A q \in Reqs, f \in Codes : Minting(q, f)' => Minting(q, f)
         /\ \A q \in Reqs : at'[q] \in UnderWay => Past(job[q].fam)'
<1>1. \A f \in Codes : Past(f) => Past(f)'
  BY PastIsForever
<1>2. at \in [Reqs -> {"idle", "access", "refresh", "revoke", "done"}]
      /\ job \in [Reqs -> Job \union {None}]
  BY DEF TokensTyped, OAuthTypeOK
<1>3. \A j \in Job : j.fam \in Codes
  BY DEF Job
<1>4. \A q \in Reqs : at[q] \in UnderWay => job[q].fam \in Codes /\ Past(job[q].fam)
  BY FamTyped DEF FamilyInv
<1>5. \A q \in Reqs \ {r} : at'[q] = at[q] /\ job'[q] = job[q]
  BY <1>2 DEF Ends, Goes
<1>6. CASE Ends(r)
  <2>1. at'[r] = "done"
    BY <1>2, <1>6 DEF Ends, Goes
  <2> QED BY <1>1, <1>4, <1>5, <2>1 DEF Minting, UnderWay
<1>7. ASSUME NEW j \in Job, Goes(r, "revoke", j), Past(j.fam)
      PROVE  /\ \A q \in Reqs, f \in Codes : Minting(q, f)' => Minting(q, f)
             /\ \A q \in Reqs : at'[q] \in UnderWay => Past(job[q].fam)'
  <2>1. at'[r] = "revoke" /\ job'[r] = j
    BY <1>2, <1>7 DEF Goes
  <2> QED BY <1>1, <1>3, <1>4, <1>5, <1>7, <2>1 DEF Minting, UnderWay
<1> QED BY <1>6, <1>7

(* A step that leaves the tokens alone.                                    *)
LEMMA SameTokens ==
  ASSUME UNCHANGED <<access, refresh>>
  PROVE  \A p \in Pairs : NoMoreOf(p)
BY DEF NoMoreOf, Rotatable, Active

(* Every step keeps the right to continue a family in one place: consuming *)
(* a code or a refresh token is one step of the Store.                     *)
LEMMA FamilyInvStep == TokensTyped /\ FamilyInv /\ [OAuthNext]_oauthVars => FamilyInv'
<1> SUFFICES ASSUME TokensTyped, FamilyInv, [OAuthNext]_oauthVars PROVE FamilyInv'
  OBVIOUS
<1> USE DEF storeVars, ghostVars
<1>0. /\ \A f \in Codes : Past(f) => Past(f)'
      /\ \A c \in Codes : codes'[c] # None => c \in issued'
      /\ \A p \in Pairs : refresh[p] # None => refresh[p].fam \in Codes /\ Past(refresh[p].fam)
      /\ \A r \in Reqs : at[r] \in UnderWay => job[r].fam \in Codes /\ Past(job[r].fam)
  BY PastIsForever, FamTyped DEF FamilyInv
<1>1. ASSUME UNCHANGED <<access, refresh, ended, overlapped, at, job>> PROVE FamilyInv'
  <2>1. /\ \A r \in Reqs, f \in Codes : Minting(r, f)' => Minting(r, f)
        /\ \A r \in Reqs : at'[r] \in UnderWay => Past(job[r].fam)'
    BY <1>0, <1>1 DEF Minting
  <2> QED BY <1>0, <1>1, <2>1, SameTokens, SubduedKeeps DEF Subdued
<1>2. ASSUME NEW r \in Reqs, UNCHANGED <<access, refresh, ended, overlapped>>,
             Ends(r) \/ \E j \in Job : Goes(r, "revoke", j) /\ Past(j.fam)
      PROVE  FamilyInv'
  BY <1>0, <1>2, MovesOn, SameTokens, SubduedKeeps DEF Subdued
<1>3. CASE UNCHANGED oauthVars \/ \E cl \in Clients : LoseClient(cl)
  BY <1>1, <1>3 DEF oauthVars, LoseClient
<1>4. ASSUME NEW c \in Codes, NEW cl \in Clients, NEW S \in SUBSET Scopes,
             NEW left \in 0..CodeTTL, IssueCode(c, cl, S, left)
      PROVE  FamilyInv'
  BY <1>1, <1>4 DEF IssueCode
<1>5. ASSUME NEW r \in Reqs, NEW cl \in Clients, NEW c \in Codes, ReplayCode(r, cl, c)
      PROVE  FamilyInv'
  <2> DEFINE j == [fam |-> c, client |-> codes[c].client, scopes |-> codes[c].scopes, pair |-> None]
  <2>1. codes[c] \in Code /\ codes[c] # None
    BY <1>5 DEF ReplayCode, CodeSpent, TokensTyped, OAuthTypeOK
  <2>2. j \in Job /\ j.fam = c
    BY <2>1 DEF Code, Job
  <2>3. Past(c)
    BY <1>5, <2>1 DEF ReplayCode, CodeSpent, Past, Redeemable, FamilyInv
  <2> HIDE DEF j
  <2>4. Goes(r, "revoke", j)
    BY <1>5 DEF ReplayCode, j
  <2> QED BY <1>2, <1>5, <2>2, <2>3, <2>4 DEF ReplayCode
<1>6. ASSUME NEW r \in Reqs, NEW cl \in Clients, NEW p \in Pairs, ReplayRefresh(r, cl, p)
      PROVE  FamilyInv'
  <2> DEFINE j == [fam |-> refresh[p].fam, client |-> refresh[p].client,
                   scopes |-> refresh[p].scopes, pair |-> None]
  <2>1. refresh[p] \in Refresh /\ refresh[p] # None
    BY <1>6 DEF ReplayRefresh, RefreshSpent, TokensTyped, OAuthTypeOK
  <2>2. j \in Job /\ j.fam = refresh[p].fam /\ Past(refresh[p].fam)
    BY <1>0, <2>1 DEF Refresh, Job
  <2> HIDE DEF j
  <2>3. Goes(r, "revoke", j) \/ Ends(r)
    BY <1>6 DEF ReplayRefresh, j
  <2> QED BY <1>2, <1>6, <2>2, <2>3 DEF ReplayRefresh
<1>7. ASSUME NEW r \in Reqs, NEW cl \in Clients, NEW p \in Pairs, SignOut(r, cl, p)
      PROVE  FamilyInv'
  <2> DEFINE j == [fam |-> refresh[p].fam, client |-> cl,
                   scopes |-> refresh[p].scopes, pair |-> None]
  <2>1. refresh[p] \in Refresh /\ refresh[p] # None
    BY <1>7 DEF SignOut, TokensTyped, OAuthTypeOK
  <2>2. j \in Job /\ j.fam = refresh[p].fam /\ Past(refresh[p].fam)
    BY <1>0, <2>1 DEF Refresh, Job
  <2> HIDE DEF j
  <2>3. Goes(r, "revoke", j)
    BY <1>7 DEF SignOut, j
  <2> QED BY <1>2, <1>7, <2>2, <2>3 DEF SignOut
<1>8. ASSUME NEW r \in Reqs, Refused(r) \/ Fail(r) PROVE FamilyInv'
  BY <1>2, <1>8 DEF Refused, Fail
<1>9. ASSUME UNCHANGED <<ended, overlapped>>, \A p \in Pairs : NoMoreOf(p),
             UNCHANGED <<at, job>> \/ \E r \in Reqs : Ends(r)
      PROVE  FamilyInv'
  <2>1. /\ \A q \in Reqs, f \in Codes : Minting(q, f)' => Minting(q, f)
        /\ \A q \in Reqs : at'[q] \in UnderWay => Past(job[q].fam)'
    <3>1. CASE UNCHANGED <<at, job>>
      BY <1>0, <3>1 DEF Minting
    <3>2. CASE \E r \in Reqs : Ends(r)
      BY <3>2, MovesOn
    <3> QED BY <1>9, <3>1, <3>2
  <2> QED BY <1>0, <1>9, <2>1, SubduedKeeps DEF Subdued
<1>10. ASSUME NEW r \in Reqs, NEW cl \in Clients, NEW p \in Pairs, RevokeAccess(r, cl, p)
       PROVE  FamilyInv'
  <2>1. access[p] \in Access /\ access \in [Pairs -> Access \union {None}]
    BY <1>10 DEF RevokeAccess, Active, TokensTyped, OAuthTypeOK
  <2>2. [access[p] EXCEPT !.revoked = TRUE].revoked
    BY <2>1 DEF Access
  <2>3. ~Active(p)' /\ \A q \in Pairs \ {p} : access'[q] = access[q]
    BY <1>10, <2>1, <2>2 DEF RevokeAccess, Active
  <2>4. \A q \in Pairs : NoMoreOf(q)
    BY <1>10, <2>3 DEF RevokeAccess, NoMoreOf, Active, Rotatable
  <2> QED BY <1>9, <1>10, <2>4 DEF RevokeAccess
<1>11. CASE OAuthTick
  <2> DEFINE Older(t) == [t EXCEPT !.left = IF @ = 0 THEN 0 ELSE @ - 1]
  <2>1. \A t \in Access :
          /\ Older(t).fam = t.fam /\ Older(t).revoked = t.revoked
          /\ Older(t).left > 0 => t.left > 0
    BY OAuthAssumption DEF Access
  <2>2. \A t \in Refresh :
          /\ Older(t).fam = t.fam /\ Older(t).revoked = t.revoked
          /\ Older(t).redeemed = t.redeemed
          /\ Older(t).left > 0 => t.left > 0
    BY OAuthAssumption DEF Refresh
  <2>3. \A p \in Pairs :
          /\ access[p] \in Access \union {None} /\ refresh[p] \in Refresh \union {None}
          /\ access'[p] = IF access[p] = None THEN None ELSE Older(access[p])
          /\ refresh'[p] = IF refresh[p] = None THEN None ELSE Older(refresh[p])
    BY <1>11 DEF OAuthTick, TokensTyped, OAuthTypeOK
  <2> HIDE DEF Older
  <2>4. \A p \in Pairs : NoMoreOf(p)
    BY <2>1, <2>2, <2>3 DEF NoMoreOf, Active, Rotatable
  <2> QED BY <1>9, <1>11, <2>4 DEF OAuthTick
<1>12. CASE SweepStore
  <2>1. \A p \in Pairs : access'[p] \in {access[p], None} /\ refresh'[p] \in {refresh[p], None}
    BY <1>12 DEF SweepStore
  <2>2. \A p \in Pairs : NoMoreOf(p)
    BY <2>1 DEF NoMoreOf, Active, Rotatable
  <2> QED BY <1>9, <1>12, <2>2 DEF SweepStore
<1>13. ASSUME NEW r \in Reqs, NEW j \in Job, Goes(r, "access", j), Past(j.fam)',
              UNCHANGED <<access, ended, overlapped>>, \A p \in Pairs : NoMoreOf(p),
              \A q \in Reqs : ~Minting(q, j.fam),
              \A p \in Pairs : Rotatable(p)' => refresh[p].fam # j.fam,
              j.fam \notin ended \ overlapped
       PROVE  FamilyInv'
  <2> DEFINE f == j.fam
  <2>0. f \in Codes
    BY DEF Job
  <2>1. /\ at'[r] = "access" /\ job'[r] = j
        /\ \A q \in Reqs \ {r} : at'[q] = at[q] /\ job'[q] = job[q]
    BY <1>13 DEF Goes, TokensTyped, OAuthTypeOK
  <2>2. /\ \A g \in Codes : Minting(r, g)' <=> g = f
        /\ \A q \in Reqs \ {r}, g \in Codes : Minting(q, g)' <=> Minting(q, g)
    BY <2>1 DEF Minting
  <2>3. \A q \in Reqs : at'[q] \in UnderWay => Past(job[q].fam)'
    BY <1>0, <1>13, <2>1
  <2>4. \A p \in Pairs : refresh'[p] # None =>
           /\ refresh[p] # None /\ refresh'[p].fam = refresh[p].fam
           /\ refresh'[p].fam \in Codes /\ Past(refresh[p].fam)'
    BY <1>0, <1>13 DEF NoMoreOf
  <2>5. \A p \in Pairs : Rotatable(p)' => /\ Rotatable(p)
                                          /\ refresh'[p] # None
                                          /\ refresh'[p].fam # f
    BY <1>13, <2>4 DEF NoMoreOf, Rotatable
  <2>6. \A q, s \in Reqs, g \in Codes : (Minting(q, g) /\ Minting(s, g))' => q = s
    BY <1>13, <2>2 DEF FamilyInv
  <2>7. \A q \in Reqs, p \in Pairs : Minting(q, refresh[p].fam)' => ~Rotatable(p)'
    BY <2>2, <2>4, <2>5 DEF FamilyInv
  <2>8. \A q \in Reqs, g \in ended' \ overlapped' : ~Minting(q, g)'
    BY <1>13, <2>2, FamTyped DEF FamilyInv
  <2>9. OneSuccessor'
    BY <2>4, <2>5 DEF FamilyInv, OneSuccessor, Past
  <2>10. EndedFamilyIsDead'
    BY <1>13, <2>4, <2>5 DEF FamilyInv, EndedFamilyIsDead, NoMoreOf
  <2>11. \A g \in ended' : Past(g)'
    BY <1>0, <1>13, FamTyped DEF FamilyInv
  <2> QED BY <1>0, <2>3, <2>4, <2>6, <2>7, <2>8, <2>9, <2>10, <2>11 DEF FamilyInv
<1>14. ASSUME NEW r \in Reqs, NEW cl \in Clients, NEW c \in Codes, NEW fits \in BOOLEAN,
              RedeemCode(r, cl, c, fits)
       PROVE  FamilyInv'
  <2> DEFINE j == [fam |-> c, client |-> cl, scopes |-> codes[c].scopes, pair |-> None]
  <2>1. codes[c] \in Code /\ Redeemable(c) /\ ~Past(c)
    BY <1>14 DEF RedeemCode, Redeemable, Past, TokensTyped, OAuthTypeOK
  <2>2. j \in Job /\ j.fam = c
    BY <2>1 DEF Code, Job
  <2> HIDE DEF j
  <2>3. Past(c)'
    <3>1. [codes[c] EXCEPT !.redeemed = TRUE].redeemed
      BY <2>1 DEF Code
    <3>2. codes'[c].redeemed
      BY <1>14, <3>1 DEF RedeemCode, TokensTyped, OAuthTypeOK
    <3>3. c \in issued'
      BY <1>14, <2>1 DEF RedeemCode, Redeemable, FamilyInv
    <3> QED BY <3>2, <3>3 DEF Past, Redeemable
  <2>4. \A q \in Reqs : ~Minting(q, c)
    BY <1>0, <2>1 DEF Minting, UnderWay
  <2>5. \A p \in Pairs : Rotatable(p)' => refresh[p].fam # c
    BY <1>0, <1>14, <2>1 DEF RedeemCode, Rotatable
  <2>6. c \notin ended \ overlapped
    BY <2>1 DEF FamilyInv
  <2>7. Goes(r, "access", j) \/ Ends(r)
    BY <1>14 DEF RedeemCode, j
  <2>8. UNCHANGED <<access, refresh, ended, overlapped>>
    BY <1>14 DEF RedeemCode
  <2>9. CASE Goes(r, "access", j)
    BY <1>13, <2>2, <2>3, <2>4, <2>5, <2>6, <2>8, <2>9, SameTokens
  <2> QED BY <1>2, <2>7, <2>8, <2>9
<1>15. ASSUME NEW r \in Reqs, NEW cl \in Clients, NEW p \in Pairs, NEW S \in SUBSET Scopes,
              Rotate(r, cl, p, S)
       PROVE  FamilyInv'
  <2> DEFINE f == refresh[p].fam
             j == [fam |-> f, client |-> cl, pair |-> None,
                   scopes |-> IF S = {} THEN refresh[p].scopes ELSE S]
  <2>1. refresh[p] \in Refresh /\ Rotatable(p) /\ refresh[p] # None
    BY <1>15 DEF Rotate, Rotatable, TokensTyped, OAuthTypeOK
  <2>2. j \in Job /\ j.fam = f /\ Past(f) /\ f \in Codes
    BY <1>0, <2>1 DEF Refresh, Job
  <2>3. /\ [refresh[p] EXCEPT !.redeemed = TRUE].redeemed
        /\ [refresh[p] EXCEPT !.redeemed = TRUE].fam = f
    BY <2>1 DEF Refresh
  <2>4. /\ refresh'[p].redeemed /\ refresh'[p].fam = f
        /\ \A q \in Pairs \ {p} : refresh'[q] = refresh[q]
    BY <1>15, <2>3 DEF Rotate, TokensTyped, OAuthTypeOK
  <2> HIDE DEF j, f
  <2>5. UNCHANGED <<access, ended, overlapped>>
    BY <1>15 DEF Rotate
  <2>6. \A q \in Pairs : NoMoreOf(q)
    BY <2>1, <2>4, <2>5 DEF NoMoreOf, Rotatable, Active, f
  <2>7. \A q \in Reqs : ~Minting(q, f)
    BY <2>1 DEF FamilyInv, f
  <2>8. \A q \in Pairs : Rotatable(q)' => refresh[q].fam # f
    BY <2>1, <2>4 DEF FamilyInv, OneSuccessor, Rotatable, f
  <2>9. f \notin ended \ overlapped
    BY <2>1 DEF FamilyInv, EndedFamilyIsDead, f
  <2>10. Goes(r, "access", j) \/ Goes(r, "revoke", j) \/ Ends(r)
    BY <1>15 DEF Rotate, Rotated, j, f
  <2>11. CASE Goes(r, "access", j)
    BY <1>0, <1>13, <2>2, <2>5, <2>6, <2>7, <2>8, <2>9, <2>11
  <2>12. CASE Ends(r) \/ Goes(r, "revoke", j)
    BY <1>0, <2>2, <2>5, <2>6, <2>12, MovesOn, SubduedKeeps DEF Subdued
  <2> QED BY <2>10, <2>11, <2>12
<1>16. ASSUME NEW r \in Reqs, NEW p \in Pairs, NEW left \in 0..AccessTTL, StoreAccess(r, p, left)
       PROVE  FamilyInv'
  <2> DEFINE f == job[r].fam
  <2>1. at[r] = "access" /\ job[r] \in Job /\ f \in Codes /\ Minting(r, f)
    BY <1>0, <1>16 DEF StoreAccess, TokensTyped, JobsTyped, UnderWay, Minting
  <2>2. [job[r] EXCEPT !.pair = p].fam = f
    BY <2>1 DEF Job
  <2>3. /\ at'[r] = "refresh" /\ job'[r].fam = f
        /\ \A q \in Reqs \ {r} : at'[q] = at[q] /\ job'[q] = job[q]
    BY <1>16, <2>2 DEF StoreAccess, Goes, TokensTyped, OAuthTypeOK
  <2>4. UNCHANGED <<codes, refresh, issued, ended, overlapped>>
    BY <1>16 DEF StoreAccess
  <2>5. \A q \in Reqs, g \in Codes : Minting(q, g)' <=> Minting(q, g)
    BY <2>1, <2>3 DEF Minting
  <2>6. \A q \in Reqs : at'[q] \in UnderWay => Past(job[q].fam)'
    BY <1>0, <2>1, <2>3 DEF UnderWay
  <2>7. access'[p].fam = f /\ \A q \in Pairs \ {p} : access'[q] = access[q]
    BY <1>16 DEF StoreAccess, TokensTyped, OAuthTypeOK
  <2>8. f \notin ended \ overlapped
    BY <2>1 DEF FamilyInv
  <2> HIDE DEF f
  <2>9. \A q \in Pairs : Rotatable(q)' <=> Rotatable(q)
    BY <2>4 DEF Rotatable
  <2>10. EndedFamilyIsDead'
    BY <2>4, <2>7, <2>8, <2>9 DEF FamilyInv, EndedFamilyIsDead, Active
  <2>11. OneSuccessor'
    BY <2>4, <2>9 DEF FamilyInv, OneSuccessor, Redeemable
  <2>12. \A q \in Reqs, t \in Pairs : Minting(q, refresh[t].fam)' => ~Rotatable(t)'
    BY <1>0, <2>4, <2>5, <2>9 DEF FamilyInv, Rotatable
  <2>13. \A g \in ended' : Past(g)'
    BY <1>0, <2>4, FamTyped DEF FamilyInv
  <2>14. \A q \in Reqs, g \in ended' \ overlapped' : ~Minting(q, g)'
    BY <2>4, <2>5, FamTyped DEF FamilyInv
  <2>15. \A t \in Pairs : refresh'[t] # None => Past(refresh[t].fam)'
    BY <1>0, <2>4
  <2>16. \A q, t \in Reqs, g \in Codes : (Minting(q, g) /\ Minting(t, g))' => q = t
    BY <2>5 DEF FamilyInv
  <2> QED BY <1>0, <2>6, <2>10, <2>11, <2>12, <2>13, <2>14, <2>15, <2>16 DEF FamilyInv
<1>17. ASSUME NEW r \in Reqs, NEW left \in 0..RefreshTTL, StoreRefresh(r, left)
       PROVE  FamilyInv'
  <2>a. /\ at[r] = "refresh" /\ job[r].pair \in Pairs
        /\ job[r].fam \in Codes /\ Past(job[r].fam) /\ Minting(r, job[r].fam)
    BY <1>0, <1>17 DEF StoreRefresh, TokensTyped, JobsTyped, UnderWay, Minting
  <2>b. PICK f \in Codes, p \in Pairs : f = job[r].fam /\ p = job[r].pair
    BY <2>a
  <2>1. p \in Pairs
    OBVIOUS
  <2>2. f \in Codes /\ Past(f) /\ Minting(r, f)
    BY <2>a, <2>b
  <2>3. refresh'[p].fam = f /\ \A q \in Pairs \ {p} : refresh'[q] = refresh[q]
    BY <1>17, <2>b DEF StoreRefresh, TokensTyped, OAuthTypeOK
  <2>4. UNCHANGED <<codes, access, issued, ended, overlapped>>
    BY <1>17 DEF StoreRefresh
  <2>5. /\ \A q \in Reqs, g \in Codes : Minting(q, g)' => Minting(q, g) /\ q # r
        /\ \A q \in Reqs : at'[q] \in UnderWay => Past(job[q].fam)'
    <3>1. at'[r] = "done"
      BY <1>17 DEF StoreRefresh, Ends, Goes, TokensTyped, OAuthTypeOK
    <3> QED BY <1>17, <3>1, MovesOn DEF StoreRefresh, Minting
  <2>6. \A q \in Pairs \ {p} : (Rotatable(q)' <=> Rotatable(q))
          /\ (Rotatable(q) => refresh[q].fam # f)
    BY <2>2, <2>3 DEF Rotatable, FamilyInv
  <2>7. f \notin ended \ overlapped
    BY <2>2 DEF FamilyInv
  <2>8. \A q \in Reqs : ~Minting(q, f)'
    BY <2>2, <2>5 DEF FamilyInv
  <2>9. \A t \in Pairs : refresh'[t] # None => refresh'[t].fam \in Codes /\ Past(refresh[t].fam)'
    BY <1>0, <2>1, <2>2, <2>3
  <2>10. OneSuccessor'
    <3>1. \A t \in Pairs : Rotatable(t)' => ~Redeemable(refresh[t].fam)'
      BY <2>9 DEF Rotatable, Past
    <3>2. \A t, u \in Pairs :
            (Rotatable(t) /\ Rotatable(u) /\ refresh[t].fam = refresh[u].fam)' => t = u
      BY <2>3, <2>6 DEF FamilyInv, OneSuccessor
    <3> QED BY <3>1, <3>2 DEF OneSuccessor
  <2>11. EndedFamilyIsDead'
    BY <2>3, <2>4, <2>6, <2>7 DEF FamilyInv, EndedFamilyIsDead, Active
  <2>12. \A q \in Reqs, t \in Pairs : Minting(q, refresh[t].fam)' => ~Rotatable(t)'
    <3>1. \A q \in Reqs : Minting(q, refresh[p].fam)' => ~Rotatable(p)'
      BY <2>3, <2>8
    <3>2. \A q \in Reqs, t \in Pairs \ {p} : Minting(q, refresh[t].fam)' => ~Rotatable(t)'
      BY <2>3, <2>5, <2>6, <2>9 DEF FamilyInv, Rotatable
    <3> QED BY <3>1, <3>2
  <2>13. \A g \in ended' : Past(g)'
    BY <1>0, <2>4, FamTyped DEF FamilyInv
  <2>14. \A q \in Reqs, g \in ended' \ overlapped' : ~Minting(q, g)'
    BY <2>4, <2>5, FamTyped DEF FamilyInv
  <2>15. \A q, t \in Reqs, g \in Codes : (Minting(q, g) /\ Minting(t, g))' => q = t
    BY <2>5 DEF FamilyInv
  <2> QED BY <1>0, <2>5, <2>9, <2>10, <2>11, <2>12, <2>13, <2>14, <2>15 DEF FamilyInv
<1>18. ASSUME NEW r \in Reqs, RevokeFamily(r) PROVE FamilyInv'
  <2> DEFINE f == job[r].fam
             Off(t) == [t EXCEPT !.revoked = TRUE]
  <2>1. f \in Codes /\ Past(f)
    BY <1>0, <1>18 DEF RevokeFamily, UnderWay
  <2>2. \A t \in Access : Off(t).fam = t.fam /\ Off(t).revoked
    BY DEF Access
  <2>3. \A t \in Refresh : Off(t).fam = t.fam /\ Off(t).revoked
    BY DEF Refresh
  <2>4. \A p \in Pairs :
          /\ access[p] \in Access \union {None} /\ refresh[p] \in Refresh \union {None}
          /\ access'[p] = IF access[p] # None /\ access[p].fam = f THEN Off(access[p])
             ELSE access[p]
          /\ refresh'[p] = IF refresh[p] # None /\ refresh[p].fam = f
             THEN Off(refresh[p]) ELSE refresh[p]
    BY <1>18 DEF RevokeFamily, TokensTyped, OAuthTypeOK
  <2>5. /\ ended' = ended \union {f}
        /\ overlapped' = overlapped \union {g \in {f} : \E q \in Reqs : Minting(q, g)}
    BY <1>18 DEF RevokeFamily
  <2> HIDE DEF f, Off
  <2>6. \A p \in Pairs : NoMoreOf(p)
    BY <2>2, <2>3, <2>4 DEF NoMoreOf, Active, Rotatable
  <2>7. \A p \in Pairs : (Active(p)' => access'[p].fam # f)
          /\ (Rotatable(p)' => refresh'[p].fam # f)
    BY <2>2, <2>3, <2>4 DEF Active, Rotatable
  <2>8. /\ \A q \in Reqs, g \in Codes : Minting(q, g)' => Minting(q, g)
        /\ \A q \in Reqs : at'[q] \in UnderWay => Past(job[q].fam)'
    BY <1>18, MovesOn DEF RevokeFamily
  <2>9. \A p \in Pairs : refresh'[p] # None =>
           /\ refresh'[p].fam = refresh[p].fam /\ refresh'[p].fam \in Codes
           /\ Past(refresh[p].fam)'
    BY <1>0, <2>6 DEF NoMoreOf
  <2>10. OneSuccessor'
    BY <2>6, <2>9 DEF FamilyInv, OneSuccessor, NoMoreOf, Past, Rotatable
  <2>11. EndedFamilyIsDead'
    BY <2>5, <2>6, <2>7, <2>9 DEF FamilyInv, EndedFamilyIsDead, NoMoreOf, Rotatable
  <2>12. \A q \in Reqs, t \in Pairs : Minting(q, refresh[t].fam)' => ~Rotatable(t)'
    BY <2>6, <2>8, <2>9 DEF FamilyInv, NoMoreOf, Rotatable
  <2>13. \A g \in ended' : Past(g)'
    BY <1>0, <2>1, <2>5, FamTyped DEF FamilyInv
  <2>14. \A q \in Reqs, g \in ended' \ overlapped' : ~Minting(q, g)'
    BY <2>1, <2>5, <2>8, FamTyped DEF FamilyInv
  <2>15. \A q, t \in Reqs, g \in Codes : (Minting(q, g) /\ Minting(t, g))' => q = t
    BY <2>8 DEF FamilyInv
  <2> QED BY <1>0, <2>8, <2>9, <2>10, <2>11, <2>12, <2>13, <2>14, <2>15 DEF FamilyInv
<1>19. ASSUME NEW r \in Reqs, TokenStep(r) PROVE FamilyInv'
  BY <1>5, <1>6, <1>7, <1>8, <1>10, <1>14, <1>15, <1>16, <1>17, <1>18, <1>19 DEF TokenStep
<1> QED BY <1>3, <1>4, <1>11, <1>12, <1>19 DEF OAuthNext

(* The families of tokens in every reachable state.                        *)
LEMMA FamilyInvHolds == OAuthSpec => []FamilyInv
BY TokensTypedStart, TokensStayTyped, FamilyStarts, FamilyInvStep, PTL DEF OAuthSpec

(* A family has at most one credential, its code or one refresh token,     *)
(* that can still be exchanged, however requests race, fail half way or    *)
(* are retried (memory.go, ConsumeRefreshToken; token.go, issueTokenPair). *)
THEOREM FamiliesAreNotForked == OAuthSpec => []OneSuccessor
<1>1. FamilyInv => OneSuccessor
  BY DEF FamilyInv
<1> QED BY <1>1, FamilyInvHolds, PTL

(* Nothing of a revoked family is usable, except by a token that was being *)
(* stored while the family was revoked (memory.go, RevokeFamily).          *)
THEOREM EndedFamiliesStayDead == OAuthSpec => []EndedFamilyIsDead
<1>1. FamilyInv => EndedFamilyIsDead
  BY DEF FamilyInv
<1> QED BY <1>1, FamilyInvHolds, PTL

-----------------------------------------------------------------------------
(* ReuseIsReal, strengthened: what is marked as redeemed was presented, by *)
(* a request that has left its first step behind for good, so that the one *)
(* that finds the mark is another.                                         *)
MarkInv ==
  /\ \A c \in Codes : CodeSpent(c) => \E q \in Reqs : <<c, q>> \in presented
  /\ \A p \in Pairs : RefreshSpent(p) => \E q \in Reqs : <<p, q>> \in presented
  /\ \A cred \in Credentials, q \in Reqs : <<cred, q>> \in presented => at[q] # "idle"
  /\ ReuseIsReal

(* Every step keeps the marks and the presentations in accord.             *)
LEMMA MarkInvStep == TokensTyped /\ MarkInv /\ [OAuthNext]_oauthVars => MarkInv'
<1> SUFFICES ASSUME TokensTyped, MarkInv, [OAuthNext]_oauthVars PROVE MarkInv'
  OBVIOUS
<1> USE OAuthAssumption DEF storeVars, ghostVars
<1>0. /\ at \in [Reqs -> {"idle", "access", "refresh", "revoke", "done"}]
      /\ codes \in [Codes -> Code \union {None}]
      /\ refresh \in [Pairs -> Refresh \union {None}]
      /\ replays \subseteq Credentials
  BY DEF TokensTyped, OAuthTypeOK
<1>1. ASSUME \A c \in Codes : CodeSpent(c)' => CodeSpent(c),
             \A p \in Pairs : RefreshSpent(p)' => RefreshSpent(p),
             \A q \in Reqs : at'[q] = "idle" => at[q] = "idle",
             UNCHANGED <<presented, replays>>
      PROVE  MarkInv'
  <2>1. \A c \in Codes : CodeSpent(c)' => \E q \in Reqs : <<c, q>> \in presented'
    BY <1>1 DEF MarkInv
  <2>2. \A p \in Pairs : RefreshSpent(p)' => \E q \in Reqs : <<p, q>> \in presented'
    BY <1>1 DEF MarkInv
  <2>3. \A cred \in Credentials, q \in Reqs : <<cred, q>> \in presented' => at'[q] # "idle"
    BY <1>1 DEF MarkInv
  <2>4. ReuseIsReal'
    <3>1. presented' = presented /\ replays' = replays /\ ReuseIsReal
      BY <1>1 DEF MarkInv
    <3> QED BY <3>1, Zenon DEF ReuseIsReal
  <2> QED BY <2>1, <2>2, <2>3, <2>4 DEF MarkInv
<1>2. ASSUME NEW cred \in Credentials, NEW r \in Reqs, at[r] = "idle", at'[r] # "idle",
             \A q \in Reqs \ {r} : at'[q] = at[q], Presents(r, cred),
             \A c \in Codes : CodeSpent(c)' => CodeSpent(c) \/ c = cred,
             \A p \in Pairs : RefreshSpent(p)' => RefreshSpent(p) \/ p = cred,
             \/ UNCHANGED replays
             \/ /\ replays' = replays \union {cred}
                /\ \E q \in Reqs : <<cred, q>> \in presented
      PROVE  MarkInv'
  <2>0. presented \subseteq presented' /\ <<cred, r>> \in presented'
    BY <1>2 DEF Presents
  <2>1. \A c \in Codes : CodeSpent(c)' => \E q \in Reqs : <<c, q>> \in presented'
    BY <1>2, <2>0 DEF MarkInv
  <2>2. \A p \in Pairs : RefreshSpent(p)' => \E q \in Reqs : <<p, q>> \in presented'
    BY <1>2, <2>0 DEF MarkInv
  <2>3. \A x \in Credentials, q \in Reqs : <<x, q>> \in presented' => at'[q] # "idle"
    <3>1. ASSUME NEW x \in Credentials, NEW q \in Reqs, <<x, q>> \in presented'
          PROVE  at'[q] # "idle"
      <4>1. q = r \/ <<x, q>> \in presented
        BY <1>2, <3>1 DEF Presents
      <4> QED BY <1>2, <4>1 DEF MarkInv
    <3> QED BY <3>1
  <2>4. ReuseIsReal'
    <3>1. ASSUME NEW x \in replays
          PROVE  \E t, q \in Reqs : t # q /\ {<<x, t>>, <<x, q>>} \subseteq presented'
      <4>1. PICK t \in Reqs, q \in Reqs : t # q /\ {<<x, t>>, <<x, q>>} \subseteq presented
        BY DEF MarkInv, ReuseIsReal
      <4> QED BY <2>0, <4>1
    <3>2. ASSUME NEW q \in Reqs, <<cred, q>> \in presented
          PROVE  q # r /\ {<<cred, r>>, <<cred, q>>} \subseteq presented'
      <4>1. q # r
        BY <1>2, <3>2 DEF MarkInv
      <4> QED BY <2>0, <3>2, <4>1
    <3>3. ASSUME NEW x \in replays'
          PROVE  \E t, q \in Reqs : t # q /\ {<<x, t>>, <<x, q>>} \subseteq presented'
      <4>1. CASE x \in replays
        BY <3>1, <4>1
      <4>2. CASE x \notin replays
        <5>1. x = cred /\ \E q \in Reqs : <<cred, q>> \in presented
          BY <1>2, <3>3, <4>2
        <5> QED BY <3>2, <5>1
      <4> QED BY <4>1, <4>2
    <3> QED BY <3>3, Zenon DEF ReuseIsReal
  <2> QED BY <2>1, <2>2, <2>3, <2>4 DEF MarkInv
<1>a. ASSUME NEW r \in Reqs, NEW to \in {"access", "refresh", "revoke", "done"}, NEW j,
             Goes(r, to, j)
      PROVE  at'[r] # "idle" /\ \A q \in Reqs \ {r} : at'[q] = at[q]
  BY <1>0, <1>a DEF Goes
<1>b. ASSUME UNCHANGED codes PROVE \A c \in Codes : CodeSpent(c)' => CodeSpent(c)
  BY <1>b DEF CodeSpent
<1>c. ASSUME UNCHANGED refresh PROVE \A p \in Pairs : RefreshSpent(p)' => RefreshSpent(p)
  BY <1>c DEF RefreshSpent
<1>3. ASSUME NEW r \in Reqs, NEW cl \in Clients, NEW c \in Codes, NEW fits \in BOOLEAN,
             RedeemCode(r, cl, c, fits)
      PROVE  MarkInv'
  <2>1. at[r] = "idle" /\ at'[r] # "idle" /\ \A q \in Reqs \ {r} : at'[q] = at[q]
    BY <1>3, <1>a DEF RedeemCode, Authenticated, Ends
  <2>2. \A d \in Codes : CodeSpent(d)' => CodeSpent(d) \/ d = c
    BY <1>0, <1>3 DEF RedeemCode, CodeSpent
  <2>3. c \in Credentials /\ UNCHANGED <<refresh, replays>> /\ Presents(r, c)
    BY <1>3 DEF Credentials, RedeemCode
  <2> QED BY <1>2, <1>c, <2>1, <2>2, <2>3
<1>4. ASSUME NEW r \in Reqs, NEW cl \in Clients, NEW c \in Codes, ReplayCode(r, cl, c)
      PROVE  MarkInv'
  <2>1. at[r] = "idle" /\ at'[r] # "idle" /\ \A q \in Reqs \ {r} : at'[q] = at[q]
    BY <1>4, <1>a DEF ReplayCode, Authenticated
  <2>2. \E q \in Reqs : <<c, q>> \in presented
    BY <1>4 DEF ReplayCode, MarkInv
  <2>3. c \in Credentials /\ UNCHANGED <<codes, refresh>> /\ Presents(r, c)
        /\ replays' = replays \union {c}
    BY <1>4 DEF Credentials, ReplayCode
  <2> QED BY <1>2, <1>b, <1>c, <2>1, <2>2, <2>3
<1>5. ASSUME NEW r \in Reqs, NEW cl \in Clients, NEW p \in Pairs, NEW S \in SUBSET Scopes,
             Rotate(r, cl, p, S)
      PROVE  MarkInv'
  <2>1. at[r] = "idle" /\ at'[r] # "idle" /\ \A q \in Reqs \ {r} : at'[q] = at[q]
    BY <1>5, <1>a DEF Rotate, Rotated, Authenticated, Ends
  <2>2. \A q \in Pairs : RefreshSpent(q)' => RefreshSpent(q) \/ q = p
    BY <1>0, <1>5 DEF Rotate, RefreshSpent
  <2>3. p \in Credentials /\ UNCHANGED <<codes, replays>> /\ Presents(r, p)
    BY <1>5 DEF Credentials, Rotate
  <2> QED BY <1>2, <1>b, <2>1, <2>2, <2>3
<1>6. ASSUME NEW r \in Reqs, NEW cl \in Clients, NEW p \in Pairs, ReplayRefresh(r, cl, p)
      PROVE  MarkInv'
  <2>1. at[r] = "idle" /\ at'[r] # "idle" /\ \A q \in Reqs \ {r} : at'[q] = at[q]
    BY <1>6, <1>a DEF ReplayRefresh, Authenticated, Ends
  <2>2. \E q \in Reqs : <<p, q>> \in presented
    BY <1>6 DEF ReplayRefresh, MarkInv
  <2>3. p \in Credentials /\ UNCHANGED <<codes, refresh>> /\ Presents(r, p)
        /\ replays' = replays \union {p}
    BY <1>6 DEF Credentials, ReplayRefresh
  <2> QED BY <1>2, <1>b, <1>c, <2>1, <2>2, <2>3
<1>7. ASSUME NEW r \in Reqs, NEW to \in {"access", "refresh", "revoke", "done"}, NEW j,
             Goes(r, to, j), UNCHANGED <<codes, presented, replays>>,
             \A p \in Pairs : RefreshSpent(p)' => RefreshSpent(p)
      PROVE  MarkInv'
  BY <1>1, <1>7, <1>a, <1>b
<1>8. ASSUME NEW r \in Reqs, NEW cl \in Clients, NEW p \in Pairs,
             SignOut(r, cl, p) \/ RevokeAccess(r, cl, p)
      PROVE  MarkInv'
  BY <1>7, <1>8, <1>c DEF SignOut, RevokeAccess, Ends
<1>9. ASSUME NEW r \in Reqs, NEW p \in Pairs, NEW left \in 0..AccessTTL, StoreAccess(r, p, left)
      PROVE  MarkInv'
  BY <1>7, <1>9, <1>c DEF StoreAccess
<1>10. ASSUME NEW r \in Reqs, NEW left \in 0..RefreshTTL, StoreRefresh(r, left)
       PROVE  MarkInv'
  <2>1. ~refresh'[job[r].pair].redeemed /\ \A p \in Pairs \ {job[r].pair} : refresh'[p] = refresh[p]
    BY <1>0, <1>10 DEF StoreRefresh, TokensTyped, JobsTyped
  <2>2. \A p \in Pairs : RefreshSpent(p)' => RefreshSpent(p)
    BY <2>1 DEF RefreshSpent
  <2> QED BY <1>7, <1>10, <2>2 DEF StoreRefresh, Ends
<1>11. ASSUME NEW r \in Reqs, RevokeFamily(r) PROVE MarkInv'
  <2>1. \A t \in Refresh : [t EXCEPT !.revoked = TRUE].redeemed = t.redeemed
    BY DEF Refresh
  <2>2. \A p \in Pairs : refresh'[p] \in {refresh[p], [refresh[p] EXCEPT !.revoked = TRUE]}
                         /\ (refresh[p] = None => refresh'[p] = None)
    BY <1>11 DEF RevokeFamily
  <2>3. \A p \in Pairs : RefreshSpent(p)' => RefreshSpent(p)
    BY <1>0, <2>1, <2>2 DEF RefreshSpent
  <2> QED BY <1>7, <1>11, <2>3 DEF RevokeFamily, Ends
<1>12. ASSUME NEW r \in Reqs, Refused(r) \/ Fail(r) PROVE MarkInv'
  BY <1>7, <1>12, <1>c DEF Refused, Fail, Ends
<1>13. CASE UNCHANGED oauthVars \/ \E cl \in Clients : LoseClient(cl)
  BY <1>1, <1>13, <1>b, <1>c DEF oauthVars, LoseClient
<1>14. ASSUME NEW c \in Codes, NEW cl \in Clients, NEW S \in SUBSET Scopes,
              NEW left \in 0..CodeTTL, IssueCode(c, cl, S, left)
       PROVE  MarkInv'
  <2>1. ~codes'[c].redeemed /\ \A d \in Codes \ {c} : codes'[d] = codes[d]
    BY <1>0, <1>14 DEF IssueCode
  <2>2. \A d \in Codes : CodeSpent(d)' => CodeSpent(d)
    BY <2>1 DEF CodeSpent
  <2> QED BY <1>1, <1>14, <1>c, <2>2 DEF IssueCode
<1>15. CASE OAuthTick
  <2> DEFINE Older(t) == [t EXCEPT !.left = IF @ = 0 THEN 0 ELSE @ - 1]
  <2>1. \A t \in Code : Older(t).redeemed = t.redeemed
    BY DEF Code
  <2>2. \A t \in Refresh : Older(t).redeemed = t.redeemed
    BY DEF Refresh
  <2>3. /\ \A c \in Codes : codes'[c] = IF codes[c] = None THEN None ELSE Older(codes[c])
        /\ \A p \in Pairs : refresh'[p] = IF refresh[p] = None THEN None ELSE Older(refresh[p])
    BY <1>15 DEF OAuthTick
  <2> HIDE DEF Older
  <2>4. \A c \in Codes : CodeSpent(c)' => CodeSpent(c)
    BY <1>0, <2>1, <2>3 DEF CodeSpent
  <2>5. \A p \in Pairs : RefreshSpent(p)' => RefreshSpent(p)
    BY <1>0, <2>2, <2>3 DEF RefreshSpent
  <2> QED BY <1>1, <1>15, <2>4, <2>5 DEF OAuthTick
<1>16. CASE SweepStore
  <2>1. /\ \A c \in Codes : codes'[c] \in {codes[c], None}
        /\ \A p \in Pairs : refresh'[p] \in {refresh[p], None}
    BY <1>16 DEF SweepStore
  <2>2. \A c \in Codes : CodeSpent(c)' => CodeSpent(c)
    BY <2>1 DEF CodeSpent
  <2>3. \A p \in Pairs : RefreshSpent(p)' => RefreshSpent(p)
    BY <2>1 DEF RefreshSpent
  <2> QED BY <1>1, <1>16, <2>2, <2>3 DEF SweepStore
<1>17. ASSUME NEW r \in Reqs, TokenStep(r) PROVE MarkInv'
  BY <1>3, <1>4, <1>5, <1>6, <1>8, <1>9, <1>10, <1>11, <1>12, <1>17 DEF TokenStep
<1> QED BY <1>13, <1>14, <1>15, <1>16, <1>17 DEF OAuthNext

(* Nobody is accused of reuse for a sign-out, or for a request that raced  *)
(* its own rotation: two requests presented what is counted as reused      *)
(* (token.go, handleCodeReplay and refreshRotationError).                 *)
THEOREM ReuseIsNeverMadeUp == OAuthSpec => []ReuseIsReal
<1>1. OAuthInit => MarkInv
  BY DEF OAuthInit, MarkInv, ReuseIsReal, CodeSpent, RefreshSpent
<1>2. MarkInv => ReuseIsReal
  BY DEF MarkInv
<1> QED BY <1>1, <1>2, TokensTypedStart, TokensStayTyped, MarkInvStep, PTL DEF OAuthSpec

-----------------------------------------------------------------------------
(* secrets: TTLCachingSource.                                              *)

(* A flight under way, and a reader under way.                             *)
Trips == [at : {"none", "look", "fetch", "apply", "tell"}, old : Ver, ans : Answer]
Calls == [at : {"idle", "miss", "wait", "fallback", "done"},
          name : Secret \cup {NoSecret}, ans : Answer]

(* Versions are versions, and a reader that has asked has asked for some   *)
(* name.                                                                   *)
VersionsTyped ==
    /\ backend = [n \in Secret |-> backend[n]] /\ \A n \in Secret : backend[n].ver \in Ver
    /\ held \in [Secret -> Ver]
    /\ trip \in [Secret -> Trips]
    /\ read \in [SecReader -> Calls]
    /\ known \in [Secret -> Ver] /\ least \in [SecReader -> Ver]
    /\ \A r \in SecReader : read[r].at # "idle" => read[r].name \in Secret

(* What is cached is the newest answer applied; an answer in flight is no  *)
(* older than that, because one flight per name is under way; and the      *)
(* backend is never behind.                                                *)
KnownInv ==
    \A n \in Secret :
      /\ known[n] <= backend[n].ver
      /\ held[n] # 0 => held[n] = known[n]
      /\ trip[n].at \in {"apply", "tell"} /\ trip[n].ans.kind # "error" =>
           known[n] <= trip[n].ans.ver /\ trip[n].ans.ver <= backend[n].ver
      /\ trip[n].at = "tell" /\ trip[n].ans.kind # "error" => trip[n].ans.ver = known[n]

(* What a reader is to be answered with is known by now, and was answered. *)
AskedInv ==
    \A r \in SecReader :
      /\ read[r].at \in {"miss", "wait", "fallback"} => least[r] <= known[read[r].name]
      /\ read[r].at = "done" /\ read[r].ans.kind = "value" => read[r].ans.ver >= least[r]

(* The reports made, and those whose goroutine has still to run.           *)
Reported == {p \in Report : started[p] + heard[p] > 0}

(* What makes RotationsFollow inductive: whether its goroutine has run or  *)
(* not, a change is reported once, from an older value to a newer one that *)
(* is applied; two reports to a hook do not overlap; and the one being     *)
(* made now begins where the earlier ones ended.                           *)
ToldInv ==
    /\ started \in [Report -> Nat] /\ heard \in [Report -> Nat]
    /\ \A p \in Reported : /\ started[p] + heard[p] = 1
                           /\ p[3] < p[4] /\ p[4] <= known[p[2]]
                           /\ trip[p[2]].at = "tell" /\ trip[p[2]].ans.kind = "value"
                              /\ trip[p[2]].old # 0 =>
                                p[4] <= trip[p[2]].old
    /\ \A p, q \in Reported : p[1] = q[1] /\ p[2] = q[2] /\ p # q =>
         p[4] <= q[3] \/ q[4] <= p[3]
    /\ \A n \in Secret : trip[n].at = "tell" /\ trip[n].ans.kind = "value" =>
       trip[n].old <= trip[n].ans.ver
    /\ hooks \subseteq SecHook \X Secret

(* The inductive invariant of AnswerNeverOlder.                            *)
SecretInv == VersionsTyped /\ KnownInv /\ AskedInv

(* The answers, flights and calls the actions build have their types.      *)
LEMMA Answers ==
    /\ 0 \in Ver /\ Ver \subseteq Nat /\ NoAnswer \in Answer /\ NoTrip \in Trips /\ Idle \in Calls
    /\ \A v \in Ver, k \in {"value", "absent", "error"} : [kind |-> k, ver |-> v] \in Answer
    /\ [NoAnswer EXCEPT !.kind = "error"] \in Answer
    /\ [NoTrip EXCEPT !.at = "look"] \in Trips /\ [NoTrip EXCEPT !.at = "fetch"] \in Trips
    /\ \A a \in Answer : a.ver \in Ver
BY SecretAssumption DEF Ver, Answer, NoAnswer, NoTrip, Trips, Idle, Calls

(* Nothing is cached and nobody has asked.                                 *)
LEMMA SecretStarts == SecretInit => SecretInv /\ ToldInv
<1> SUFFICES ASSUME SecretInit PROVE SecretInv /\ ToldInv
    OBVIOUS
<1>1. VersionsTyped
  <2>1. 1 \in Ver
        BY SecretAssumption DEF Ver
  <2> QED BY Answers, <2>1 DEF SecretInit, VersionsTyped, Idle
<1>2. KnownInv /\ AskedInv
      BY DEF SecretInit, KnownInv, AskedInv, NoTrip, Idle
<1>3. ToldInv
      BY DEF SecretInit, ToldInv, Reported, NoTrip
<1> QED BY <1>1, <1>2, <1>3 DEF SecretInv

(* Every step keeps the types.                                             *)
LEMMA TypedStep == VersionsTyped /\ [SecretNext]_secretVars => VersionsTyped'
<1> SUFFICES ASSUME VersionsTyped, [SecretNext]_secretVars PROVE VersionsTyped'
    OBVIOUS
<1> USE Answers DEF VersionsTyped
<1>1. ASSUME NEW n \in Secret, NEW b \in BOOLEAN, BackendChanges(n, b) PROVE VersionsTyped'
      BY <1>1, SecretAssumption DEF BackendChanges, Ver
<1>2. ASSUME NEW n \in Secret, NEW b \in BOOLEAN, BackendAnswers(n, b) PROVE VersionsTyped'
  <2> DEFINE ans == [kind |-> IF b THEN "error" ELSE IF backend[n].there THEN "value" ELSE "absent",
                     ver |-> backend[n].ver]
  <2>1. ans \in Answer
        OBVIOUS
  <2>2. trip' = [trip EXCEPT ![n].at = "apply", ![n].ans = ans]
          /\ UNCHANGED <<backend, held, read, known, least>>
        BY <1>2 DEF BackendAnswers
  <2> HIDE DEF ans
  <2>3. trip' \in [Secret -> Trips]
        BY <2>1, <2>2 DEF Trips
  <2> QED BY <2>2, <2>3
<1>3. ASSUME NEW n \in Secret, NEW ans \in Answer, Land(n, ans)
      PROVE /\ trip' \in [Secret -> Trips] /\ read' \in [SecReader -> Calls]
                           /\ \A r \in SecReader : read'[r].name = read[r].name
                              /\ (read[r].at = "idle" => read'[r].at = "idle")
  <2>1. trip' \in [Secret -> Trips]
        BY <1>3 DEF Land
  <2>2. \A r \in SecReader : /\ read'[r] \in Calls
                             /\ read'[r].name = read[r].name
                             /\ (read[r].at = "idle" => read'[r].at = "idle")
        BY <1>3 DEF Land, Calls
  <2> QED BY <1>3, <2>1, <2>2 DEF Land
<1>4. ASSUME NEW n \in Secret, TripLooks(n) PROVE VersionsTyped'
  <2>1. CASE Fresh(n)
    <3>1. Holding(n) \in Answer
          BY DEF Holding
    <3>2. Land(n, Holding(n)) /\ UNCHANGED <<backend, held, known, least>>
          BY <1>4, <2>1 DEF TripLooks
    <3>3. /\ trip' \in [Secret -> Trips] /\ read' \in [SecReader -> Calls]
          /\ \A r \in SecReader : read'[r].name = read[r].name
             /\ (read[r].at = "idle" => read'[r].at = "idle")
          BY <1>3, <3>1, <3>2
    <3> QED BY <3>2, <3>3
  <2>2. CASE ~Fresh(n)
    <3>1. trip' = [trip EXCEPT ![n].at = "fetch"] /\ UNCHANGED <<backend, held, read, known, least>>
          BY <1>4, <2>2 DEF TripLooks
    <3>2. trip' \in [Secret -> Trips]
          BY <3>1 DEF Trips
    <3> QED BY <3>1, <3>2
  <2> QED BY <2>1, <2>2
<1>5. ASSUME NEW n \in Secret, FetchApplies(n) PROVE VersionsTyped'
  <2>1. trip' \in [Secret -> Trips] /\ trip[n].ans.ver \in Ver
        BY <1>5 DEF FetchApplies, Trips
  <2> QED BY <1>5, <2>1 DEF FetchApplies
<1>6. ASSUME NEW n \in Secret, FetchTells(n) PROVE VersionsTyped'
  <2>1. trip[n].ans \in Answer
        BY DEF Trips
  <2>2. Land(n, trip[n].ans) /\ UNCHANGED <<backend, held, known, least>>
        BY <1>6 DEF FetchTells
  <2>3. /\ trip' \in [Secret -> Trips] /\ read' \in [SecReader -> Calls]
        /\ \A r \in SecReader : read'[r].name = read[r].name
           /\ (read[r].at = "idle" => read'[r].at = "idle")
        BY <1>3, <2>1, <2>2
  <2> QED BY <2>2, <2>3
<1>7. ASSUME NEW n \in Secret, Refreshes(n) PROVE VersionsTyped'
      BY <1>7 DEF Refreshes
<1>8. ASSUME NEW r \in SecReader, NEW where \in {"wait", "fallback", "done"}, NEW ans \in Answer,
             read[r].at # "idle", Reads(r, where, ans)
      PROVE  /\ read' \in [SecReader -> Calls]
             /\ \A q \in SecReader : read'[q].at # "idle" => read'[q].name \in Secret
      BY <1>8 DEF Reads, Calls
<1>9. ASSUME NEW r \in SecReader, Resolve(r) PROVE VersionsTyped'
  <2>1. trip' \in [Secret -> Trips]
        BY <1>9 DEF Resolve
  <2> QED BY <1>8, <1>9, <2>1 DEF Resolve
<1>10. ASSUME NEW r \in SecReader, GivesUp(r) PROVE VersionsTyped'
      BY <1>8, <1>10 DEF GivesUp
<1>11. ASSUME NEW r \in SecReader, FallsBack(r) PROVE VersionsTyped'
  <2> DEFINE ans == IF held[read[r].name] # 0 THEN Holding(read[r].name)
                    ELSE [NoAnswer EXCEPT !.kind = "error"]
  <2>1. read[r].name \in Secret /\ read[r].at # "idle"
        BY <1>11 DEF FallsBack
  <2>2. ans \in Answer
        BY <2>1 DEF Holding
  <2>3. Reads(r, "done", ans) /\ UNCHANGED <<backend, held, trip, known, least>>
        BY <1>11 DEF FallsBack
  <2> HIDE DEF ans
  <2> QED BY <1>8, <2>1, <2>2, <2>3
<1>12. ASSUME NEW r \in SecReader, Returns(r) PROVE VersionsTyped'
      BY <1>12 DEF Returns, Idle
<1>13. ASSUME NEW r \in SecReader, NEW n \in Secret, GetSecret(r, n) PROVE VersionsTyped'
  <2>1. Holding(n) \in Answer
        BY DEF Holding
  <2> QED BY <1>13, <2>1 DEF GetSecret, Calls
<1>14. CASE UNCHANGED <<backend, held, trip, read, known, least>>
      BY <1>14
<1> QED BY <1>1, <1>2, <1>4, <1>5, <1>6, <1>7, <1>9, <1>10, <1>11, <1>12, <1>13, <1>14
        DEF SecretNext, TripStep, Lapse, OnChange, Wakes, RefreshRests, RefreshExits, HookRuns,
            CloseStops, CloseShuts, secretVars

\* What KnownInv says of one name.
Known(n) ==
    /\ known[n] <= backend[n].ver
    /\ held[n] # 0 => held[n] = known[n]
    /\ trip[n].at \in {"apply", "tell"} /\ trip[n].ans.kind # "error" =>
         known[n] <= trip[n].ans.ver /\ trip[n].ans.ver <= backend[n].ver
    /\ trip[n].at = "tell" /\ trip[n].ans.kind # "error" => trip[n].ans.ver = known[n]

(* Versions are numbers.                                                   *)
LEMMA Versions ==
    VersionsTyped => \A n \in Secret : /\ backend[n].ver \in Nat /\ held[n] \in Nat
                                          /\ known[n] \in Nat
                                       /\ trip[n].old \in Nat /\ trip[n].ans.ver \in Nat
<1> SUFFICES ASSUME VersionsTyped, NEW n \in Secret
             PROVE  /\ backend[n].ver \in Nat /\ held[n] \in Nat /\ known[n] \in Nat
                    /\ trip[n].old \in Nat /\ trip[n].ans.ver \in Nat
    OBVIOUS
<1>1. trip[n] \in Trips
      BY DEF VersionsTyped
<1>2. trip[n].old \in Ver /\ trip[n].ans \in Answer
      BY <1>1 DEF Trips
<1> QED BY <1>2, Answers DEF VersionsTyped

(* Flights, refreshes, lapses and changes of the backend keep KnownInv.    *)
LEMMA KnownStep == VersionsTyped /\ KnownInv /\ [SecretNext]_secretVars => KnownInv'
<1> SUFFICES ASSUME VersionsTyped, KnownInv, [SecretNext]_secretVars PROVE KnownInv'
    OBVIOUS
<1>0. ASSUME NEW n \in Secret, Known(n)',
             \A q \in Secret \ {n} : /\ backend'[q] = backend[q] /\ held'[q] = held[q]
                                     /\ known'[q] = known[q] /\ trip'[q] = trip[q]
      PROVE  KnownInv'
      BY <1>0 DEF Known, KnownInv
<1>a. \A n \in Secret : Known(n)
      BY DEF Known, KnownInv
<1>b. /\ DOMAIN backend = Secret /\ DOMAIN held = Secret /\ DOMAIN known = Secret
      /\ DOMAIN trip = Secret
      /\ \A n \in Secret : DOMAIN trip[n] = {"at", "old", "ans"}
      BY DEF VersionsTyped, Trips
<1> USE <1>b, Versions
<1>1. ASSUME NEW n \in Secret, NEW b \in BOOLEAN, BackendChanges(n, b) PROVE KnownInv'
      BY <1>0, <1>a, <1>1 DEF BackendChanges, Known
<1>2. ASSUME NEW n \in Secret, NEW b \in BOOLEAN, BackendAnswers(n, b) PROVE KnownInv'
  <2>1. Known(n)'
        BY <1>a, <1>2 DEF BackendAnswers, Known
  <2> QED BY <1>0, <1>2, <2>1 DEF BackendAnswers
<1>3. ASSUME NEW n \in Secret, TripLooks(n) PROVE KnownInv'
  <2>1. \/ trip' = [trip EXCEPT ![n] = NoTrip]
        \/ trip' = [trip EXCEPT ![n].at = "fetch"]
        BY <1>3 DEF TripLooks, Land
  <2>2. UNCHANGED <<backend, held, known>>
        BY <1>3 DEF TripLooks
  <2>3. trip'[n].at \in {"none", "fetch"}
        BY <2>1 DEF NoTrip
  <2> QED BY <1>0, <1>a, <2>1, <2>2, <2>3 DEF Known
<1>4. ASSUME NEW n \in Secret, FetchApplies(n) PROVE KnownInv'
  <2>1. trip' = [trip EXCEPT ![n].at = "tell", ![n].old = held[n]] /\ backend' = backend
          /\ trip[n].at = "apply"
        BY <1>4 DEF FetchApplies
  <2>2. trip'[n].ans = trip[n].ans
        BY <2>1
  <2>3. CASE trip[n].ans.kind = "error"
        BY <1>0, <1>a, <1>4, <2>1, <2>2, <2>3 DEF FetchApplies, Known
  <2>4. CASE trip[n].ans.kind # "error"
    <3>1. /\ known'[n] = trip[n].ans.ver
          /\ held'[n] # 0 => held'[n] = trip[n].ans.ver
          /\ \A q \in Secret \ {n} : known'[q] = known[q] /\ held'[q] = held[q]
          BY <1>4, <2>4 DEF FetchApplies
    <3>2. Known(n)'
      <4>1. trip'[n].at = "tell" /\ trip'[n].ans = trip[n].ans /\ backend'[n] = backend[n]
            BY <2>1
      <4>2. trip[n].ans.ver <= backend[n].ver
            BY <1>a, <2>1, <2>4 DEF Known
      <4> QED BY <3>1, <4>1, <4>2 DEF Known
    <3> QED BY <1>0, <2>1, <3>1, <3>2
  <2> QED BY <2>3, <2>4
<1>5. ASSUME NEW n \in Secret, FetchTells(n) PROVE KnownInv'
      BY <1>0, <1>a, <1>5 DEF FetchTells, Land, NoTrip, Known
<1>6. ASSUME NEW n \in Secret, Refreshes(n) PROVE KnownInv'
      BY <1>0, <1>a, <1>6 DEF Refreshes, NoTrip, Known
<1>7. ASSUME NEW r \in SecReader, Resolve(r) PROVE KnownInv'
  <2>1. read[r].name \in Secret
        BY <1>7 DEF Resolve, VersionsTyped
  <2> QED BY <1>0, <1>a, <1>7, <2>1 DEF Resolve, NoTrip, Known
<1>8. CASE UNCHANGED <<backend, held, trip, known>>
      BY <1>8 DEF KnownInv
<1> QED BY <1>1, <1>2, <1>3, <1>4, <1>5, <1>6, <1>7, <1>8 DEF SecretNext, TripStep, Lapse,
           GivesUp, FallsBack, Returns, GetSecret, OnChange, Wakes, RefreshRests,
           RefreshExits, HookRuns, CloseStops, CloseShuts, secretVars

(* A reader that waits shares a flight which began after it asked, or one  *)
(* whose answer is no older than what was known then.                      *)
LEMMA AskedStep == SecretInv /\ [SecretNext]_secretVars => AskedInv'
<1> SUFFICES ASSUME VersionsTyped, KnownInv, AskedInv, [SecretNext]_secretVars PROVE AskedInv'
    BY DEF SecretInv
<1>a. /\ DOMAIN read = SecReader /\ DOMAIN known = Secret /\ DOMAIN least = SecReader
      /\ \A r \in SecReader : /\ DOMAIN read[r] = {"at", "name", "ans"}
                                 /\ least[r] \in Nat /\ read[r].ans.ver \in Nat
                              /\ read[r].at # "idle" => read[r].name \in Secret
                              /\ read[r].at \in {"idle", "miss", "wait", "fallback", "done"}
      BY SecretAssumption DEF VersionsTyped, Calls, Answer, Ver
<1> USE <1>a, Versions
<1>1. ASSUME NEW n \in Secret, NEW ans, ans.ver \in Nat, Land(n, ans),
             ans.kind # "error" => ans.ver >= known[n],
             UNCHANGED <<known, least>>
      PROVE  AskedInv'
  <2>1. \A r \in SecReader :
          \/ read'[r] = read[r]
          \/ read[r].at = "wait" /\ read'[r].at = "fallback" /\ read'[r].name = read[r].name
          \/ /\ read[r].at = "wait" /\ read[r].name = n /\ ans.kind # "error"
             /\ read'[r].at = "done" /\ read'[r].ans = ans
        BY <1>1 DEF Land
  <2> QED BY <1>1, <2>1 DEF AskedInv
<1>4. ASSUME NEW n \in Secret, TripLooks(n) PROVE AskedInv'
  <2>1. CASE Fresh(n)
    <3>1. Land(n, Holding(n)) /\ UNCHANGED <<known, least>>
          BY <1>4, <2>1 DEF TripLooks
    <3>2. Holding(n).ver \in Nat /\ Holding(n).ver >= known[n]
          BY <2>1 DEF Fresh, Holding, KnownInv
    <3> QED BY <1>1, <3>1, <3>2
  <2>2. CASE ~Fresh(n)
    <3>1. UNCHANGED <<read, known, least>>
          BY <1>4, <2>2 DEF TripLooks
    <3> QED BY <3>1 DEF AskedInv
  <2> QED BY <2>1, <2>2
<1>5. ASSUME NEW n \in Secret, FetchApplies(n) PROVE AskedInv'
  <2>1. UNCHANGED <<read, least>>
        BY <1>5 DEF FetchApplies
  <2>2. \A q \in Secret : known[q] <= known'[q] /\ known'[q] \in Nat
    <3>1. CASE trip[n].ans.kind = "error"
          BY <1>5, <3>1 DEF FetchApplies
    <3>2. CASE trip[n].ans.kind # "error"
          BY <1>5, <3>2 DEF FetchApplies, KnownInv
    <3> QED BY <3>1, <3>2
  <2> QED BY <2>1, <2>2 DEF AskedInv
<1>6. ASSUME NEW n \in Secret, FetchTells(n) PROVE AskedInv'
  <2>1. Land(n, trip[n].ans) /\ UNCHANGED <<known, least>> /\ trip[n].at = "tell"
        BY <1>6 DEF FetchTells
  <2>2. trip[n].ans.kind # "error" => trip[n].ans.ver >= known[n]
        BY <2>1 DEF KnownInv
  <2> QED BY <1>1, <2>1, <2>2
<1>8. ASSUME NEW r \in SecReader, Resolve(r) \/ GivesUp(r) PROVE AskedInv'
  <2>1. /\ read[r].at \in {"miss", "wait"} /\ read'[r].at \in {"wait", "fallback"}
        /\ read'[r].name = read[r].name
        /\ \A q \in SecReader \ {r} : read'[q] = read[q]
        /\ UNCHANGED <<known, least>>
        BY <1>8 DEF Resolve, GivesUp, Reads
  <2> QED BY <2>1 DEF AskedInv
<1>10. ASSUME NEW r \in SecReader, FallsBack(r) PROVE AskedInv'
  <2>1. /\ read[r].at = "fallback" /\ read'[r].at = "done"
        /\ \A q \in SecReader \ {r} : read'[q] = read[q]
        /\ UNCHANGED <<known, least>>
        BY <1>10 DEF FallsBack, Reads
  <2>2. read'[r].ans.kind = "value" => held[read[r].name] # 0
          /\ read'[r].ans.ver = held[read[r].name]
        BY <1>10 DEF FallsBack, Reads, Holding, NoAnswer
  <2> QED BY <2>1, <2>2 DEF AskedInv, KnownInv
<1>11. ASSUME NEW r \in SecReader, Returns(r) PROVE AskedInv'
      BY <1>11 DEF Returns, Idle, AskedInv
<1>12. ASSUME NEW r \in SecReader, NEW n \in Secret, GetSecret(r, n) PROVE AskedInv'
  <2>1. CASE Fresh(n)
        BY <1>12, <2>1 DEF GetSecret, Fresh, Holding, KnownInv, AskedInv
  <2>2. CASE ~Fresh(n)
        BY <1>12, <2>2 DEF GetSecret, AskedInv
  <2> QED BY <2>1, <2>2
<1>13. CASE UNCHANGED <<read, known, least>>
      BY <1>13 DEF AskedInv
<1> QED BY <1>4, <1>5, <1>6, <1>8, <1>10, <1>11, <1>12,
           <1>13 DEF SecretNext, TripStep, BackendChanges, BackendAnswers, Lapse,
                     Refreshes, OnChange, Wakes, RefreshRests, RefreshExits, HookRuns, CloseStops,
                     CloseShuts, secretVars

(* Every step keeps the inductive invariant.                               *)
LEMMA SecretInvStep == SecretInv /\ [SecretNext]_secretVars => SecretInv'
BY TypedStep, KnownStep, AskedStep DEF SecretInv

(* No reader is answered with a value older than one that was applied      *)
(* before it asked: for any number of readers, names and changes, through  *)
(* lapses, failed fetches, fallbacks and Close (caching.go, GetSecret).    *)
THEOREM SecretsAreNotUnseen == SecretSpec => []AnswerNeverOlder
<1>1. SecretInv => AnswerNeverOlder
      BY DEF SecretInv, AskedInv, AnswerNeverOlder
<1> QED BY SecretStarts, SecretInvStep, <1>1, PTL DEF SecretSpec

(* Every step keeps the reports in line.                                   *)
LEMMA ToldInvStep == SecretInv /\ ToldInv /\ [SecretNext]_secretVars => ToldInv'
<1> SUFFICES ASSUME SecretInv, ToldInv, [SecretNext]_secretVars PROVE ToldInv'
    OBVIOUS
<1>a. VersionsTyped /\ KnownInv /\ Ver \subseteq Nat /\ DOMAIN trip = Secret
      /\ \A n \in Secret : DOMAIN trip[n] = {"at", "old", "ans"}
      BY SecretAssumption DEF SecretInv, VersionsTyped, Ver, Trips
<1>b. \A p \in Report : p[1] \in SecHook /\ p[2] \in Secret /\ p[3] \in Ver /\ p[4] \in Ver
      BY DEF Report
<1> USE <1>a, <1>b, Versions
<1>1. CASE UNCHANGED <<started, heard, hooks, known, trip>>
      BY <1>1 DEF ToldInv, Reported
<1>2. ASSUME UNCHANGED <<started, heard, hooks, known>>,
             \A n \in Secret : trip'[n] = trip[n] \/ trip'[n].at # "tell"
      PROVE  ToldInv'
      BY <1>2 DEF ToldInv, Reported
<1>3. ASSUME NEW n \in Secret, NEW b \in BOOLEAN, BackendAnswers(n, b) PROVE ToldInv'
      BY <1>2, <1>3 DEF BackendAnswers
<1>4. ASSUME NEW n \in Secret, TripLooks(n) PROVE ToldInv'
  <2>1. UNCHANGED <<started, heard, hooks, known>> /\ (trip' = [trip EXCEPT ![n] = NoTrip]
          \/ trip' = [trip EXCEPT ![n].at = "fetch"])
        BY <1>4 DEF TripLooks, Land
  <2> QED BY <1>2, <2>1 DEF NoTrip
<1>5. ASSUME NEW n \in Secret, FetchApplies(n) PROVE ToldInv'
  <2>1. /\ trip[n].at = "apply" /\ trip'[n].old = held[n] /\ trip'[n].ans = trip[n].ans
        /\ \A q \in Secret \ {n} : trip'[q] = trip[q]
        /\ UNCHANGED <<started, heard, hooks>>
        BY <1>5 DEF FetchApplies
  <2>2. \A q \in Secret : known[q] <= known'[q] /\ known'[q] \in Nat
    <3>1. CASE trip[n].ans.kind = "error"
          BY <1>5, <3>1 DEF FetchApplies
    <3>2. CASE trip[n].ans.kind # "error"
          BY <1>5, <3>2 DEF FetchApplies, KnownInv, VersionsTyped
    <3> QED BY <3>1, <3>2
  <2>3. trip[n].ans.kind = "value" /\ held[n] # 0 => held[n] = known[n]
          /\ held[n] <= trip[n].ans.ver
        BY <2>1 DEF KnownInv
  <2>4. Reported' = Reported
        BY <2>1 DEF Reported
  <2>5. ASSUME NEW p \in Reported
        PROVE  /\ p[4] <= known'[p[2]]
               /\ trip'[p[2]].at = "tell" /\ trip'[p[2]].ans.kind = "value"
                  /\ trip'[p[2]].old # 0 =>
                    p[4] <= trip'[p[2]].old
    <3>1. p[4] <= known[p[2]] /\ p[4] \in Nat /\ p[2] \in Secret
          BY DEF ToldInv, Reported
    <3>2. p[4] <= known'[p[2]]
          BY <2>2, <3>1
    <3>3. CASE p[2] = n
          BY <2>1, <2>3, <3>1, <3>2, <3>3
    <3>4. CASE p[2] # n
          BY <2>1, <3>1, <3>2, <3>4 DEF ToldInv
    <3> QED BY <3>3, <3>4
  <2>6. \A q \in Secret : trip'[q].at = "tell" /\ trip'[q].ans.kind = "value" =>
          trip'[q].old <= trip'[q].ans.ver
        BY <2>1, <2>3 DEF ToldInv
  <2> QED BY <2>1, <2>4, <2>5, <2>6 DEF ToldInv
<1>6. ASSUME NEW n \in Secret, FetchTells(n) PROVE ToldInv'
  <2>1. PICK new : /\ Notify(new)
                   /\ \/ new = {}
                      \/ /\ trip[n].ans.kind = "value" /\ trip[n].old \notin {0, trip[n].ans.ver}
                         /\ new = Told(n, trip[n].old)
        BY <1>6 DEF FetchTells
  <2>2. trip' = [trip EXCEPT ![n] = NoTrip] /\ known' = known /\ hooks' = hooks
          /\ heard' = heard /\ trip[n].at = "tell"
        BY <1>6 DEF FetchTells, Land
  <2>3. trip[n].ans.ver \in Ver /\ trip[n].old \in Ver
    <3>1. trip[n] \in Trips
          BY DEF VersionsTyped
    <3> QED BY <3>1, Answers DEF Trips
  <2>4. \A p \in new : /\ p[2] = n /\ p[3] = trip[n].old /\ p[4] = trip[n].ans.ver
                       /\ trip[n].ans.kind = "value" /\ trip[n].old \notin {0, trip[n].ans.ver}
        BY <2>1 DEF Told
  <2>5. \A p, q \in new : p[1] = q[1] => p = q
        BY <2>1 DEF Told
  <2>6. \A p \in new : p[3] < p[4] /\ p[4] = known[n]
    <3>1. trip[n].ans.kind = "value" => trip[n].old <= trip[n].ans.ver
                                          /\ trip[n].ans.ver = known[n]
          BY <2>2 DEF ToldInv, KnownInv
    <3> QED BY <2>3, <2>4, <3>1
  <2>7. \A q \in Secret : trip'[q] = trip[q] \/ trip'[q].at # "tell"
        BY <2>2 DEF NoTrip
  <2>8. \A p \in Reported, q \in new : p[2] = q[2] => p[4] <= q[3]
        BY <2>2, <2>4 DEF ToldInv, Reported
  <2>9. \A q \in new : q \in Report => q \notin Reported
        BY <2>3, <2>4, <2>6, <2>8
  <2>10. \A p \in Report : started'[p] = started[p] + IF p \in new THEN 1 ELSE 0
        BY <2>1 DEF Notify
  <2>11. /\ started' \in [Report -> Nat] /\ heard' \in [Report -> Nat]
         /\ \A p \in Report : started[p] \in Nat /\ heard[p] \in Nat
        BY <2>1, <2>2 DEF Notify, ToldInv
  <2>12. \A p \in Reported' : p \in Report /\ (p \in Reported \/ p \in new)
        BY <2>2, <2>10, <2>11 DEF Reported
  <2>13. \A p \in Reported' : started'[p] + heard'[p] = 1
        BY <2>2, <2>9, <2>10, <2>11, <2>12 DEF Reported, ToldInv
  <2>14. \A p \in Reported' :
           /\ p[3] < p[4] /\ p[4] <= known'[p[2]]
           /\ trip'[p[2]].at = "tell" /\ trip'[p[2]].ans.kind = "value"
              /\ trip'[p[2]].old # 0 =>
                p[4] <= trip'[p[2]].old
    <3>1. ASSUME NEW p \in Reported
          PROVE  /\ p[3] < p[4] /\ p[4] <= known'[p[2]]
                 /\ trip'[p[2]].at = "tell" /\ trip'[p[2]].ans.kind = "value"
                    /\ trip'[p[2]].old # 0 =>
                      p[4] <= trip'[p[2]].old
          BY <2>2, <2>7 DEF ToldInv, Reported
    <3>2. ASSUME NEW p \in new, p \in Report
          PROVE  /\ p[3] < p[4] /\ p[4] <= known'[p[2]]
                 /\ trip'[p[2]].at # "tell"
          BY <2>2, <2>3, <2>4, <2>6, <3>2 DEF NoTrip
    <3> QED BY <2>12, <3>1, <3>2
  <2>15. \A p, q \in Reported' : p[1] = q[1] /\ p[2] = q[2] /\ p # q =>
           p[4] <= q[3] \/ q[4] <= p[3]
    <3> SUFFICES ASSUME NEW p \in Reported', NEW q \in Reported', p[1] = q[1], p[2] = q[2], p # q
                 PROVE  p[4] <= q[3] \/ q[4] <= p[3]
        OBVIOUS
    <3> QED BY <2>5, <2>8, <2>12 DEF ToldInv
  <2>16. \A q \in Secret : trip'[q].at = "tell" /\ trip'[q].ans.kind = "value" =>
           trip'[q].old <= trip'[q].ans.ver
        BY <2>7 DEF ToldInv
  <2> QED BY <2>2, <2>11, <2>13, <2>14, <2>15, <2>16 DEF ToldInv
<1>7. ASSUME NEW n \in Secret, Refreshes(n) PROVE ToldInv'
      BY <1>2, <1>7 DEF Refreshes, NoTrip
<1>8. ASSUME NEW r \in SecReader, Resolve(r) PROVE ToldInv'
      BY <1>2, <1>8 DEF Resolve, NoTrip
<1>9. ASSUME NEW h \in SecHook, NEW n \in Secret, OnChange(h, n) PROVE ToldInv'
      BY <1>9 DEF OnChange, ToldInv, Reported
<1>10. ASSUME NEW p \in Report, HookRuns(p) PROVE ToldInv'
  <2>1. /\ started' \in [Report -> Nat] /\ heard' \in [Report -> Nat]
        /\ UNCHANGED <<hooks, known, trip>>
        BY <1>10 DEF HookRuns, ToldInv
  <2>2. \A q \in Report : started'[q] + heard'[q] = started[q] + heard[q]
        BY <1>10 DEF HookRuns, ToldInv
  <2>3. Reported' = Reported
        BY <2>2 DEF Reported
  <2> QED BY <2>1, <2>2, <2>3 DEF ToldInv, Reported
<1> QED BY <1>1, <1>3, <1>4, <1>5, <1>6, <1>7, <1>8, <1>9, <1>10
           DEF SecretNext, TripStep, secretVars,
           BackendChanges, Lapse, GivesUp, FallsBack, Returns, GetSecret, Wakes,
           RefreshRests, RefreshExits,
           CloseStops, CloseShuts

(* A change is reported to a hook once, and the changes it is told of one  *)
(* name never overlap: whoever fetched them, whatever lapsed in between    *)
(* and in whatever order the hooks run (caching.go, store and notify).     *)
THEOREM RotationsNeverOverlap == SecretSpec => []RotationsFollow
<1>1. SecretInv /\ ToldInv /\ [SecretNext]_secretVars => (SecretInv /\ ToldInv)'
      BY SecretInvStep, ToldInvStep
<1>2. ToldInv => RotationsFollow
  <2>1. ASSUME ToldInv, NEW p \in Report, heard[p] > 0 PROVE p \in Reported /\ heard[p] = 1
        BY <2>1 DEF ToldInv, Reported
  <2> QED BY <2>1 DEF ToldInv, RotationsFollow
<1> QED BY SecretStarts, <1>1, <1>2, PTL DEF SecretSpec

-----------------------------------------------------------------------------
(* authorization/cached: Resolver.                                         *)

(* A call that has its key and has not answered.                           *)
Pending == {"reading", "resolving", "storing"}

(* What makes FreshAfterInvalidateAll inductive, in a cache the process    *)
(* has alone: no key is of a generation to come, an entry of the current   *)
(* one is no older than the last InvalidateAll, and the calls under way    *)
(* that share a key agree on what they are due, which every entry under    *)
(* that key meets.                                                         *)
KeyInv ==
    /\ \A p \in Proc : settled[p] <= policy
    /\ \A p \in Proc : \A e \in cachedPerms[p] :
          /\ e[1] <= generation[p]
          /\ e[1] = generation[p] => e[2] >= settled[p]
    /\ \A a \in Ask : asking[a] \in Pending =>
          /\ keyed[a] <= generation[askedOf[a]]
          /\ keyed[a] = generation[askedOf[a]] => due[a] = settled[askedOf[a]]
          /\ due[a] <= policy
          /\ \A e \in cachedPerms[askedOf[a]] : e[1] = keyed[a] => e[2] >= due[a]
    /\ \A a \in Ask : asking[a] = "storing" => answer[a] >= due[a]
    /\ \A a, b \in Ask :
          /\ asking[a] \in Pending /\ asking[b] \in Pending
          /\ askedOf[a] = askedOf[b] /\ keyed[a] = keyed[b]
          => due[a] = due[b]

(* The inductive invariant of FreshAfterInvalidateAll.                     *)
PolicyInv == PolicyTypeOK /\ KeyInv /\ FreshAfterInvalidateAll

(* Nothing is cached and nobody has asked.                                 *)
LEMMA PolicyStarts == PolicyInit /\ ~Shared => PolicyInv
BY PolicyAssumption
   DEF PolicyInit, PolicyInv, PolicyTypeOK, KeyInv, FreshAfterInvalidateAll, Cache, Pending

(* Edits, invalidations, restarts and calls keep the invariant, in a cache *)
(* the process has alone.                                                  *)
LEMMA PolicyInvStep == PolicyInv /\ ~Shared /\ [PolicyNext]_policyVars => PolicyInv'
<1> SUFFICES ASSUME PolicyInv, ~Shared, [PolicyNext]_policyVars PROVE PolicyInv'
  OBVIOUS
<1> USE PolicyAssumption DEF PolicyInv, PolicyTypeOK, KeyInv, FreshAfterInvalidateAll,
        Pending, Cache, CacheOf, askVars
<1>1. CASE UNCHANGED policyVars
  BY <1>1 DEF policyVars
<1>2. CASE EditPolicy
  BY <1>2 DEF EditPolicy
<1>3. ASSUME NEW p \in Proc, InvalidateAll(p) PROVE PolicyInv'
  BY <1>3 DEF InvalidateAll
<1>4. ASSUME NEW p \in Proc, Invalidate(p) PROVE PolicyInv'
  BY <1>4 DEF Invalidate, Drop, Under
<1>5. ASSUME NEW p \in Proc, Restart(p) PROVE PolicyInv'
  BY <1>5 DEF Restart
<1>6. ASSUME NEW x \in Cache, NEW g \in 0..MaxBumps, Expire(x, g) PROVE PolicyInv'
  BY <1>6 DEF Expire, Drop, Under
<1>7. ASSUME NEW a \in Ask, NEW p \in Proc, Asks(a, p) PROVE PolicyInv'
  BY <1>7 DEF Asks
<1>8. ASSUME NEW a \in Ask, CacheHits(a) PROVE PolicyInv'
  BY <1>8 DEF CacheHits, Gets, Under
<1>9. ASSUME NEW a \in Ask, CacheMisses(a) PROVE PolicyInv'
  BY <1>9 DEF CacheMisses, Gets
<1>10. ASSUME NEW a \in Ask, Resolves(a) PROVE PolicyInv'
  BY <1>10 DEF Resolves, Gets
<1>11. ASSUME NEW a \in Ask, ResolveFails(a) PROVE PolicyInv'
  BY <1>11 DEF ResolveFails, Gets
<1>12. ASSUME NEW a \in Ask, Stores(a) PROVE PolicyInv'
  BY <1>12 DEF Stores, Gets, Puts, Under
<1>13. ASSUME NEW a \in Ask, StoreFails(a) PROVE PolicyInv'
  BY <1>13 DEF StoreFails, Gets
<1> QED
  BY <1>1, <1>2, <1>3, <1>4, <1>5, <1>6, <1>7, <1>8, <1>9, <1>10, <1>11, <1>12,
     <1>13 DEF PolicyNext

(* In a cache that no other process shares, no call that begins after an   *)
(* InvalidateAll is answered with a policy older than that, for any number *)
(* of processes, calls and edits (cached.go, InvalidateAll). Shared is     *)
(* what the run policy_shared refutes.                                     *)
THEOREM FreshInACacheOfItsOwn == ~Shared => (PolicySpec => []FreshAfterInvalidateAll)
<1>1. PolicyInv => FreshAfterInvalidateAll
  BY DEF PolicyInv
<1> SUFFICES ASSUME ~Shared PROVE PolicySpec => []FreshAfterInvalidateAll
  OBVIOUS
<1>2. PolicyInit => PolicyInv
  BY PolicyStarts
<1>3. PolicyInv /\ [PolicyNext]_policyVars => PolicyInv'
  BY PolicyInvStep
<1> QED BY <1>1, <1>2, <1>3, PTL DEF PolicySpec
=============================================================================
