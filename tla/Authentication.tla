--------------------------- MODULE Authentication ---------------------------
(***************************************************************************)
(* How a user signs in and stays signed in, in two parts that share no     *)
(* state: the sessions and the passkeys.                                   *)
(***************************************************************************)
EXTENDS Integers, FiniteSets

-----------------------------------------------------------------------------
(***************************************************************************)
(* Sessions of one user (src/modules/auth): the rows that AuthService      *)
(* creates, rotates and revokes, the blacklist in Redis, and the cache of  *)
(* verification answers that JwtStrategy consults before the blacklist.    *)
(* Every call interleaves with every other at its awaits, and any call to  *)
(* Redis or to the database may fail.                                      *)
(***************************************************************************)

CONSTANTS
    MaxAuthCalls,    \* bound on the HTTP calls
    MaxLogouts,      \* bound on those that are logouts
    MaxSessions,     \* bound on the rows
    AccessTtl,       \* lifetime of an access token
    RefreshTtl,      \* lifetime of a refresh token and of a row
    VerifyTtl,       \* TOKEN_CACHE_TTL
    MaxFaults,       \* bound on the failing calls to Redis and the database
    MaxHold,         \* bound on the time from a call's start to its end
    MaxAuthClock     \* bound on the clock

ASSUME SessionAssumption ==
    /\ {MaxSessions, AccessTtl, RefreshTtl, VerifyTtl} \subseteq Nat \ {0}
    /\ {MaxHold, MaxAuthClock, MaxAuthCalls, MaxLogouts, MaxFaults} \subseteq Nat

SessionIds == 1..MaxSessions
AuthCalls == 1..MaxAuthCalls       \* in the order in which they start

VARIABLES
    authClock,       \* Date.now() / 1000
    session,         \* [SessionIds -> row]: [created, revoked, expiresAt]
    signedAt,        \* [SessionIds -> time its tokens were signed, -1 before]
    blacklist,       \* [{"access", "refresh"} -> [SessionIds -> end of the key's TTL]]
    answer,          \* [SessionIds -> [revoked, until]]: cached verification
    call,            \* [AuthCalls -> [op, pc, s, since, late, revoked, new]]
    writes,          \* [AuthCalls -> [access, refresh]]: the two halves of revokeSession
    faults,          \* failing calls so far
    ended,           \* sessions whose rotation or logout returned, one store at least having it (history)
    blackAt          \* [SessionIds -> time the access key was written, -1 before] (history)

sessionVars == <<authClock, session, signedAt, blacklist, answer, call, writes, faults, ended, blackAt>>

Unused == [created |-> FALSE, revoked |-> FALSE, expiresAt |-> 0]
Idle == [op |-> "none", pc |-> "idle", s |-> 0, since |-> 0, late |-> FALSE,
         revoked |-> FALSE, new |-> 0]

\* One session is open: its user has logged in.
SessionInit ==
    /\ authClock = 0
    /\ session = [s \in SessionIds |-> IF s = 1 THEN [created |-> TRUE, revoked |-> FALSE, expiresAt |-> RefreshTtl]
                                                ELSE Unused]
    /\ signedAt = [s \in SessionIds |-> IF s = 1 THEN 0 ELSE -1]
    /\ blacklist = [k \in {"access", "refresh"} |-> [s \in SessionIds |-> 0]]
    /\ answer = [s \in SessionIds |-> [revoked |-> FALSE, until |-> 0]]
    /\ call = [c \in AuthCalls |-> Idle]
    /\ writes = [c \in AuthCalls |-> [access |-> "none", refresh |-> "none"]]
    /\ faults = 0
    /\ ended = {}
    /\ blackAt = [s \in SessionIds |-> -1]

Fault == faults < MaxFaults /\ faults' = faults + 1
Works == UNCHANGED faults

At(c, op, pc) == call[c].op = op /\ call[c].pc = pc
Goto(c, pc) == call' = [call EXCEPT ![c].pc = pc]

\* What is left of a call that has returned; a logout's writes may outlive it.
Return(c, pc) ==
    call' = [call EXCEPT ![c] = [Idle EXCEPT !.pc = pc, !.s = IF call[c].op = "logout" THEN call[c].s ELSE 0]]

Waiting(c) == call[c] = Idle /\ (c > 1 => call[c - 1] # Idle)

Start(c, op, pc, s) ==
    /\ Waiting(c)
    /\ call' = [call EXCEPT ![c] = [Idle EXCEPT !.op = op, !.pc = pc, !.s = s, !.since = authClock,
                                                !.late = op = "refresh" /\ s \in ended]]

TurnAway(c) == Waiting(c) /\ Return(c, "over")

Signed(s, ttl) == signedAt[s] >= 0 /\ authClock < signedAt[s] + ttl

-----------------------------------------------------------------------------
(* login, refresh and issueTokens                                          *)

\* Credentials and status of the account are an input: the call goes on or is refused.
Login(c) ==
    /\ Start(c, "login", "create", 0) \/ TurnAway(c)
    /\ UNCHANGED <<authClock, session, signedAt, blacklist, answer, writes, faults, ended, blackAt>>

\* The presented token carries a valid signature; its row is read.
Refresh(c, s) ==
    /\ Signed(s, RefreshTtl)
    /\ IF session[s].revoked THEN TurnAway(c) ELSE Start(c, "refresh", "blacklist", s)
    /\ UNCHANGED <<authClock, session, signedAt, blacklist, answer, writes, faults, ended, blackAt>>

\* isRefreshBlacklisted fails open; the row's expiry is compared afterwards.
CheckRefresh(c) ==
    LET s == call[c].s IN
    /\ At(c, "refresh", "blacklist")
    /\ \E throws \in BOOLEAN :
        LET blacklisted == ~throws /\ authClock < blacklist["refresh"][s] IN
        /\ IF throws THEN Fault ELSE Works
        /\ IF blacklisted \/ session[s].expiresAt < authClock THEN Return(c, "over") ELSE Goto(c, "revoke")
    /\ UNCHANGED <<authClock, session, signedAt, blacklist, answer, writes, ended, blackAt>>

\* A rotation that forgets the row it replaces.
RevokeOld_Omitted(c) ==
    /\ At(c, "refresh", "revoke")
    /\ Goto(c, "invalidate")
    /\ UNCHANGED <<authClock, session, signedAt, blacklist, answer, writes, faults, ended, blackAt>>

RevokeOld(c) ==
    /\ At(c, "refresh", "revoke")
    /\ session' = [session EXCEPT ![call[c].s].revoked = TRUE]
    /\ Goto(c, "invalidate")
    /\ UNCHANGED <<authClock, signedAt, blacklist, answer, writes, faults, ended, blackAt>>

\* CacheService.del: a failure is logged and the entry stays.
Forget(s) ==
    \/ Works /\ answer' = [answer EXCEPT ![s] = [revoked |-> FALSE, until |-> 0]]
    \/ Fault /\ UNCHANGED answer

InvalidateOnRefreshRotation(c) ==
    /\ At(c, "refresh", "invalidate")
    /\ Forget(call[c].s)
    /\ Goto(c, "create")
    /\ UNCHANGED <<authClock, session, signedAt, blacklist, writes, ended, blackAt>>

Fresh == {s \in SessionIds : ~session[s].created}

\* issueTokens: the row first, with a placeholder for the hash.
CreateSession(c) ==
    /\ call[c].pc = "create" /\ Fresh # {}
    /\ LET s == CHOOSE x \in Fresh : \A y \in Fresh : x <= y
       IN  /\ session' = [session EXCEPT ![s] = [created |-> TRUE, revoked |-> FALSE, expiresAt |-> authClock + RefreshTtl]]
           /\ call' = [call EXCEPT ![c].pc = "persist", ![c].new = s]
    /\ UNCHANGED <<authClock, signedAt, blacklist, answer, writes, faults, ended, blackAt>>

\* The tokens were signed some time since the row was created; now their hash is stored
\* and the pair is returned.
PersistHash(c) ==
    LET s == call[c].new IN
    /\ call[c].pc = "persist"
    /\ \E t \in (session[s].expiresAt - RefreshTtl)..authClock : signedAt' = [signedAt EXCEPT ![s] = t]
    /\ Return(c, "over")
    /\ ended' = IF call[c].op = "refresh" THEN ended \cup {call[c].s} ELSE ended
    /\ UNCHANGED <<authClock, session, blacklist, answer, writes, faults, blackAt>>

\* A statement of login, refresh or issueTokens throws.
AuthFails(c) ==
    /\ call[c].pc \in {"revoke", "create", "persist"}
    /\ Fault /\ Return(c, "over")
    /\ UNCHANGED <<authClock, session, signedAt, blacklist, answer, writes, ended, blackAt>>

-----------------------------------------------------------------------------
(* logout and TokenBlacklistService.revokeSession                          *)

\* The row is marked, or the failure is swallowed; then both keys are written at once.
Logout(c, s) ==
    /\ Signed(s, AccessTtl)
    /\ Cardinality({d \in AuthCalls : writes[d].access # "none"}) < MaxLogouts
    /\ Start(c, "logout", "blacklist", s)
    /\ \/ Works /\ session' = [session EXCEPT ![s].revoked = TRUE]
       \/ Fault /\ UNCHANGED session
    /\ writes' = [writes EXCEPT ![c] = [access |-> "set", refresh |-> "set"]]
    /\ UNCHANGED <<authClock, signedAt, blacklist, answer, ended, blackAt>>

TokenTtl_Verify(k) == IF k = "access" THEN VerifyTtl ELSE RefreshTtl

TokenTtl(k) == IF k = "access" THEN AccessTtl ELSE RefreshTtl

\* revokeAccessToken and revokeRefreshToken: the key, then the cached answer.
SetKey(c, k) ==
    LET s == call[c].s IN
    /\ writes[c][k] = "set"
    /\ \/ /\ blacklist' = [blacklist EXCEPT ![k][s] = authClock + TokenTtl(k)]
          /\ blackAt' = IF k = "access" THEN [blackAt EXCEPT ![s] = authClock] ELSE blackAt
          /\ writes' = [writes EXCEPT ![c][k] = "del"] /\ Works
       \/ writes' = [writes EXCEPT ![c][k] = "failed"] /\ Fault /\ UNCHANGED <<blacklist, blackAt>>
    /\ UNCHANGED <<authClock, session, signedAt, answer, call, ended>>

DropAnswer(c, k) ==
    /\ writes[c][k] = "del"
    /\ Forget(call[c].s)
    /\ writes' = [writes EXCEPT ![c][k] = "ok"]
    /\ UNCHANGED <<authClock, session, signedAt, blacklist, call, ended, blackAt>>

\* Promise.all settles with the first failure, the other half still running, or when both
\* are through; the catch drops the cached answer once more.
Settled(c) ==
    /\ At(c, "logout", "blacklist")
    /\ \/ \E k \in {"access", "refresh"} : writes[c][k] = "failed" /\ Goto(c, "catch")
       \/ (\A k \in {"access", "refresh"} : writes[c][k] = "ok") /\ Goto(c, "final")
    /\ UNCHANGED <<authClock, session, signedAt, blacklist, answer, writes, faults, ended, blackAt>>

CatchDrops(c) ==
    /\ At(c, "logout", "catch")
    /\ Forget(call[c].s)
    /\ Goto(c, "final")
    /\ UNCHANGED <<authClock, session, signedAt, blacklist, writes, ended, blackAt>>

\* logout drops the answer itself and returns.
LogoutReturns(c) ==
    LET s == call[c].s IN
    /\ At(c, "logout", "final")
    /\ Forget(s)
    /\ Return(c, "over")
    /\ ended' = IF session[s].revoked \/ writes[c]["refresh"] \in {"del", "ok"} THEN ended \cup {s} ELSE ended
    /\ UNCHANGED <<authClock, session, signedAt, blacklist, writes, blackAt>>

-----------------------------------------------------------------------------
(* JwtStrategy.validate through resolveSessionRevocation                   *)

\* passport-jwt has checked signature and expiry.
Validate(c, s) ==
    /\ Signed(s, AccessTtl)
    /\ Start(c, "request", "cached", s)
    /\ UNCHANGED <<authClock, session, signedAt, blacklist, answer, writes, faults, ended, blackAt>>

Decide(c, revoked) == Return(c, IF revoked THEN "over" ELSE "accepted")

\* getSessionRevocation: a failure counts as a miss.
ReadAnswer(c) ==
    LET s == call[c].s
        hit == authClock < answer[s].until
    IN  /\ At(c, "request", "cached")
        /\ \/ hit /\ Works /\ Decide(c, answer[s].revoked)
           \/ ~hit /\ Works /\ Goto(c, "exists")
           \/ hit /\ Fault /\ Goto(c, "exists")
        /\ UNCHANGED <<authClock, session, signedAt, blacklist, answer, writes, ended, blackAt>>

\* isAccessTokenRevoked; when it throws the request goes on without an answer (fail open).
AskBlacklist(c) ==
    LET s == call[c].s IN
    /\ At(c, "request", "exists")
    /\ \/ call' = [call EXCEPT ![c].pc = "store", ![c].revoked = authClock < blacklist["access"][s]] /\ Works
       \/ Return(c, "over") /\ Fault
    /\ UNCHANGED <<authClock, session, signedAt, blacklist, answer, writes, ended, blackAt>>

\* setSessionRevocation, which may fail silently, and the answer to the request.
StoreAnswer(c) ==
    LET s == call[c].s
        entry == [revoked |-> call[c].revoked, until |-> authClock + VerifyTtl]
    IN  /\ At(c, "request", "store")
        /\ \/ Works /\ answer' = [answer EXCEPT ![s] = entry]
           \/ Fault /\ UNCHANGED answer
        /\ Decide(c, call[c].revoked)
        /\ UNCHANGED <<authClock, session, signedAt, blacklist, writes, ended, blackAt>>

\* Time passes, but no call takes longer than MaxHold.
Over == {"idle", "over", "accepted"}

AuthTick ==
    /\ authClock < MaxAuthClock
    /\ \A c \in AuthCalls : call[c].pc \notin Over => authClock < call[c].since + MaxHold
    /\ authClock' = authClock + 1
    /\ UNCHANGED <<session, signedAt, blacklist, answer, call, writes, faults, ended, blackAt>>

SessionNext ==
    \/ \E c \in AuthCalls :
        \/ Login(c) \/ CheckRefresh(c) \/ RevokeOld(c) \/ InvalidateOnRefreshRotation(c)
        \/ CreateSession(c) \/ PersistHash(c) \/ AuthFails(c)
        \/ Settled(c) \/ CatchDrops(c) \/ LogoutReturns(c)
        \/ ReadAnswer(c) \/ AskBlacklist(c) \/ StoreAnswer(c)
        \/ \E s \in SessionIds : Refresh(c, s) \/ Logout(c, s) \/ Validate(c, s)
        \/ \E k \in {"access", "refresh"} : SetKey(c, k) \/ DropAnswer(c, k)
    \/ AuthTick

SessionSpec == SessionInit /\ [][SessionNext]_sessionVars

-----------------------------------------------------------------------------
(* Properties                                                              *)

\* token-verification-cache.service.ts: "A cached 'not revoked' answer therefore survives
\* at most one TTL window".  A verification that asked the blacklist just before the key
\* was written stores its answer up to MaxHold later, whatever invalidations came in
\* between and whether or not they failed; from MaxHold + VerifyTtl after the key was
\* written, no request is let through while its token is alive, unless Redis fails.
AcceptsOnlyWhileCached(c) ==
    LET s == call[c].s
    IN  (call[c].pc # "accepted" /\ call'[c].pc = "accepted" /\ Signed(s, AccessTtl) /\ blackAt[s] >= 0)
            => call[c].since < blackAt[s] + MaxHold + VerifyTtl

\* auth.service.ts: "Reuse of a revoked or expired token is rejected".  Once a rotation or
\* a logout of a session has returned, and the row or the blacklist has it, no refresh
\* that starts afterwards with the session's token, and asks while the token is alive,
\* yields a new pair, unless its question to Redis fails.  (Calls that overlap may both rotate one token.)
RotatesOnlyLive(c) ==
    (/\ call[c].pc = "blacklist" /\ call'[c].pc = "revoke"
     /\ faults' = faults /\ Signed(call[c].s, RefreshTtl)) => ~call[c].late

\* A session that was logged out or rotated stays ended: AuthService and JwtStrategy let
\* neither its access token nor its refresh token through again, within those limits.
SessionsEndForGood ==
    [][\A c \in AuthCalls : AcceptsOnlyWhileCached(c) /\ RotatesOnlyLive(c)]_sessionVars

-----------------------------------------------------------------------------
(***************************************************************************)
(* PasskeyService (src/modules/auth/services): challenges, credentials and *)
(* their signature counters.  Each verification reads a challenge and a    *)
(* credential, checks the response, and only then deletes the user's       *)
(* challenges, in one transaction with the credential's row.  What         *)
(* @simplewebauthn checks is modelled from its arguments: the challenge    *)
(* that was signed, and a counter that moves on unless it is always 0.     *)
(***************************************************************************)

CONSTANTS
    KeyUsers,        \* users
    Credentials,     \* authenticators, each with one credential
    HolderOf,        \* [Credentials -> KeyUsers]
    Uncounted,       \* authenticators whose counter stays 0
    MaxChallenges,   \* bound on the challenges
    ChallengeTtl,    \* five minutes
    MaxKeyCalls,     \* bound on the verifying and revoking calls
    MaxKeyClock      \* bound on the clock

ASSUME PasskeyAssumption ==
    /\ HolderOf \in [Credentials -> KeyUsers] /\ Uncounted \subseteq Credentials
    /\ {MaxChallenges, ChallengeTtl, MaxKeyCalls, MaxKeyClock} \subseteq Nat

Challenges == 1..MaxChallenges
KeyCalls == 1..MaxKeyCalls          \* in the order in which they start

VARIABLES
    keyClock,        \* Date.now()
    challenge,       \* [Challenges -> [user, until, live]]: the table, and what was issued
    credential,      \* [Credentials -> counter]; -1 when there is no row
    device,          \* [Credentials -> the authenticator's own counter]
    signed,          \* responses that exist: [kind, challenge, cred, count]
    keyCall,         \* [KeyCalls -> [pc, resp, counter, late]]
    used             \* responses whose verification has succeeded (history)

keyVars == <<keyClock, challenge, credential, device, signed, keyCall, used>>

NoResponse == [kind |-> "none", challenge |-> 0, cred |-> "none", count |-> 0]
Unstarted == [pc |-> "idle", resp |-> NoResponse, counter |-> 0, late |-> FALSE]

PasskeyInit ==
    /\ keyClock = 0
    /\ challenge = [h \in Challenges |-> [user |-> "none", until |-> 0, live |-> FALSE]]
    /\ credential = [k \in Credentials |-> -1]
    /\ device = [k \in Credentials |-> 0]
    /\ signed = {} /\ used = {}
    /\ keyCall = [c \in KeyCalls |-> Unstarted]

Unissued == {h \in Challenges : challenge[h].user = "none"}
Active(h) == challenge[h].live /\ keyClock < challenge[h].until

StoreChallenge(u) ==
    /\ Unissued # {}
    /\ LET h == CHOOSE x \in Unissued : \A y \in Unissued : x <= y
       IN  challenge' = [challenge EXCEPT ![h] = [user |-> u, until |-> keyClock + ChallengeTtl, live |-> TRUE]]
    /\ UNCHANGED <<keyClock, credential, device, signed, keyCall, used>>

GenerateRegistrationOptions(u) == StoreChallenge(u)

GenerateAuthenticationOptions(u) ==
    /\ \E k \in Credentials : HolderOf[k] = u /\ credential[k] >= 0
    /\ StoreChallenge(u)

\* An authenticator signs a challenge that its holder was sent.
Sign(k, h, kind) ==
    LET count == IF k \in Uncounted THEN 0 ELSE device[k] + 1 IN
    /\ challenge[h].user = HolderOf[k]
    /\ \A r \in signed : r.challenge # h
    /\ signed' = signed \cup {[kind |-> kind, challenge |-> h, cred |-> k, count |-> count]}
    /\ device' = [device EXCEPT ![k] = count]
    /\ UNCHANGED <<keyClock, challenge, credential, keyCall, used>>

Begin(c, r, pc, counter) ==
    /\ keyCall[c] = Unstarted /\ (c > 1 => keyCall[c - 1] # Unstarted)
    /\ keyCall' = [keyCall EXCEPT ![c] = [pc |-> pc, resp |-> r, counter |-> counter, late |-> r \in used]]
    /\ UNCHANGED <<keyClock, challenge, credential, device, signed, used>>

\* findFirst takes any active challenge of the user; the response has to have signed it.
VerifyRegistration(c, r) ==
    /\ r.kind = "create"
    /\ \E h \in Challenges :
        /\ Active(h) /\ challenge[h].user = HolderOf[r.cred]
        /\ Begin(c, r, IF h = r.challenge THEN "save" ELSE "over", r.count)

\* The library throws unless the counter moved on, or both are 0.
CounterOk(count, stored) == count > stored \/ (count = 0 /\ stored = 0)

\* The challenge is looked up by its value, then the credential by its id.
VerifyAuthentication(c, r) ==
    /\ r.kind = "get"
    /\ Begin(c, r, IF Active(r.challenge) THEN "credential" ELSE "over", r.count)

ReadCredential(c) ==
    LET r == keyCall[c].resp
        stored == credential[r.cred]
    IN  /\ keyCall[c].pc = "credential"
        /\ keyCall' = [keyCall EXCEPT ![c].pc = IF stored >= 0 /\ CounterOk(r.count, stored) THEN "save" ELSE "over"]
        /\ UNCHANGED <<keyClock, challenge, credential, device, signed, used>>

\* passkeyChallenge.deleteMany({ where: { userId } })
Without_One(h) == [challenge EXCEPT ![CHOOSE x \in Challenges : challenge[x].user = challenge[h].user].live = FALSE]

Without(h) == [x \in Challenges |-> IF challenge[x].user = challenge[h].user
                                    THEN [challenge[x] EXCEPT !.live = FALSE] ELSE challenge[x]]

\* The transaction: the challenges go and the credential is created or its counter set;
\* it is rolled back when the credential exists already, or no longer does.
Save(c) ==
    LET r == keyCall[c].resp
        fits == IF r.kind = "create" THEN credential[r.cred] < 0 ELSE credential[r.cred] >= 0
    IN  /\ keyCall[c].pc = "save"
        /\ \/ /\ fits
              /\ challenge' = Without(r.challenge)
              /\ credential' = [credential EXCEPT ![r.cred] = keyCall[c].counter]
              /\ used' = used \cup {r}
              /\ keyCall' = [keyCall EXCEPT ![c].pc = "verified"]
           \/ /\ keyCall' = [keyCall EXCEPT ![c].pc = "over"]
              /\ UNCHANGED <<challenge, credential, used>>
        /\ UNCHANGED <<keyClock, device, signed>>

\* revokeCredential reads the row, then deletes it.
RevokeCredential(c, k) ==
    /\ credential[k] >= 0
    /\ Begin(c, [NoResponse EXCEPT !.cred = k], "delete", 0)

DeleteCredential(c) ==
    /\ keyCall[c].pc = "delete"
    /\ credential' = [credential EXCEPT ![keyCall[c].resp.cred] = -1]
    /\ keyCall' = [keyCall EXCEPT ![c].pc = "over"]
    /\ UNCHANGED <<keyClock, challenge, device, signed, used>>

KeyTick ==
    /\ keyClock < MaxKeyClock
    /\ keyClock' = keyClock + 1
    /\ UNCHANGED <<challenge, credential, device, signed, keyCall, used>>

PasskeyNext ==
    \/ \E u \in KeyUsers : GenerateRegistrationOptions(u) \/ GenerateAuthenticationOptions(u)
    \/ \E k \in Credentials, h \in Challenges, kind \in {"create", "get"} : Sign(k, h, kind)
    \/ \E c \in KeyCalls :
        \/ \E r \in signed : VerifyRegistration(c, r) \/ VerifyAuthentication(c, r)
        \/ \E k \in Credentials : RevokeCredential(c, k)
        \/ ReadCredential(c) \/ Save(c) \/ DeleteCredential(c)
    \/ KeyTick

PasskeySpec == PasskeyInit /\ [][PasskeyNext]_keyVars

-----------------------------------------------------------------------------
(* Properties                                                              *)

\* passkey.service.ts: "Challenges are ... invalidated after use to prevent replay".  A
\* response whose verification has returned is never verified again by a call that
\* starts later, also when the authenticator keeps no counter and when the credential
\* was revoked and registered anew.  (Two calls that overlap can both succeed.)
ReplayIsRefused ==
    \A c \in KeyCalls : keyCall[c].late => keyCall[c].pc # "verified"
=============================================================================
