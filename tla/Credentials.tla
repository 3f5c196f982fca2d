----------------------------- MODULE Credentials -----------------------------
(***************************************************************************)
(* Who the caller is and what that lets it do (auth/): the signed cookie   *)
(* of a session, the bearer token, and the guards.  A signature verifies   *)
(* under the key it was made with and under no other, which is all that is *)
(* assumed of HMAC and of the asymmetric algorithms; their keys are        *)
(* values.  Time is in seconds.                                            *)
(***************************************************************************)
EXTENDS SequencesExt, Integers

CONSTANTS
    MaxAge,        \* SessionAuth.max_age
    MaxReasonable, \* signing._MAX_REASONABLE_AGE
    Jwt            \* JWTAuth: algorithms, key, signing, leeway, issuer, audience

\* What a request need not have: the set of it.
Absent == {}
Only(one) == CHOOSE v \in one : TRUE
-----------------------------------------------------------------------------
\* A mutation, for the checks: new values are signed with the oldest key.
SignWithLast(keys, data, now) ==
    [data |-> data, stamp |-> now, key |-> keys[Len(keys)]]

\* signing.py: the payload, its second and the newest key; any key verifies,
\* if the value is neither too old nor dated in the future.
Sign(keys, data, now) == [data |-> data, stamp |-> now, key |-> keys[1]]

CheckAge(stamp, now) ==
    LET age == now - stamp IN age >= 0 /\ age <= MaxReasonable /\ age <= MaxAge

Unsigns(keys, cookie, now) ==
    (\E i \in DOMAIN keys : keys[i] = cookie.key) /\ CheckAge(cookie.stamp, now)

\* Session: a dict, here the set of its items, that knows whether it changed.
NewSession(data) == [data |-> data, modified |-> FALSE]
Lookup(data, k) == {item[2] : item \in {i \in data : i[1] = k}}
Without(data, k) == {i \in data : i[1] # k}
SetItem(session, k, v) ==
    [data |-> Without(session.data, k) \union {<<k, v>>}, modified |-> TRUE]
DelItem(session, k) ==
    IF Lookup(session.data, k) = Absent THEN session    \* a KeyError
    ELSE [data |-> Without(session.data, k), modified |-> TRUE]
Clear(session) == [data |-> {}, modified |-> TRUE]

\* load(), identify(), login(), logout() and save() of SessionAuth.
Load(keys, cookie, now) ==
    NewSession(IF cookie # Absent /\ Unsigns(keys, Only(cookie), now)
               THEN Only(cookie).data ELSE {})

SessionIdentity(session) ==
    {[id |-> u, roles |-> UNION Lookup(session.data, "roles")] :
         u \in Lookup(session.data, "user")}

Login(session, user, roles) == SetItem(SetItem(session, "user", user), "roles", roles)
Logout(session) == Clear(session)

\* What becomes of the cookie: {} to leave it, or the one jar to replace it by.
Save(keys, session, now) ==
    CASE ~session.modified -> {}
      [] session.modified /\ session.data = {} -> {Absent}
      [] OTHER -> {{Sign(keys, session.data, now)}}

-----------------------------------------------------------------------------
\* jwt.py.  A token has its three parts or not; a claim is the set of what
\* it says.
Encode(claims, key, algorithm) ==
    [parts |-> TRUE, alg |-> algorithm, key |-> key, claims |-> claims]

\* issue(): exp unless told otherwise, iss and aud if the strategy has them;
\* the algorithm is the first of a tuple made of a set, so any of them.
Issue(subject, roles, expires, now, algorithm) ==
    Encode([sub |-> {subject}, roles |-> roles, iat |-> {now}, nbf |-> Absent,
            exp |-> {now + e : e \in expires}, iss |-> Jwt.issuer, aud |-> Jwt.audience],
           Jwt.signing, algorithm)

\* _allow_list(): an empty list, "none" and what is not supported are refused
\* when the strategy is made.
Hmac == {"HS256", "HS384", "HS512"}
Supported == Hmac \union {"RS256", "RS384", "RS512", "ES256", "ES384", "ES512"}
AllowList(algorithms) == algorithms # {} /\ algorithms \subseteq Supported

\* One secret signs and verifies, or a key verifies what its private one
\* signed; a key of the wrong kind verifies nothing.
Public(key) == <<"public", key>>
Verifies(token) ==
    Jwt.key = IF token.alg \in Hmac THEN token.key ELSE Public(token.key)

CheckClaims(c, now) ==
    /\ \A e \in c.exp : now <= e + Jwt.leeway
    /\ \A b \in c.nbf : now >= b - Jwt.leeway
    /\ \A i \in c.iat : now >= i - Jwt.leeway
    /\ Jwt.issuer # Absent => c.iss = Jwt.issuer
    /\ Jwt.audience # Absent => Jwt.audience \subseteq c.aud

Decodes(token, now) ==
    /\ token.parts
    /\ token.alg \in Jwt.algorithms
    /\ Verifies(token)
    /\ CheckClaims(token.claims, now)

\* identify(): no token is no caller, one that does not verify is refused.
TokenRefused(token, now) ==
    token # Absent /\ (~Decodes(Only(token), now) \/ Only(token).claims.sub = Absent)
TokenIdentity(token) ==
    IF token = Absent THEN Absent
    ELSE {[id |-> s, roles |-> Only(token).claims.roles] : s \in Only(token).claims.sub}
-----------------------------------------------------------------------------
\* guards.py: every requirement has to be met, an empty one by any caller;
\* what the class requires comes before what the method does.
NoGuard == [needed |-> FALSE, requirements |-> <<>>]
ForRoles(roles) == [needed |-> TRUE, requirements |-> <<roles>>]

Merge(outer, inner) ==
    IF ~outer.needed THEN inner
    ELSE [needed |-> TRUE, requirements |-> outer.requirements \o inner.requirements]

\* @Authenticated and @Roles on what may have a guard already.
Require(target, roles) == Merge(ForRoles(roles), target)

\* A mutation, for the checks: the roles of all requirements in one set.
CheckAnyRole(guard, identity) ==
    LET all == UNION ToSet(guard.requirements)
    IN  CASE identity = Absent -> "unauthenticated"
          [] identity # Absent /\ all # {}
                 /\ all \intersect Only(identity).roles = {} -> "forbidden"
          [] OTHER -> ""

Check(guard, identity) ==
    CASE identity = Absent -> "unauthenticated"
      [] identity # Absent /\ \E i \in DOMAIN guard.requirements :
             /\ guard.requirements[i] # {}
             /\ guard.requirements[i] \intersect Only(identity).roles = {} -> "forbidden"
      [] OTHER -> ""

\* The two keys belong together: what issue() signs under one of the
\* algorithms is what decode() verifies.
ASSUME CredentialsAssumption ==
    /\ MaxAge \in Nat /\ MaxReasonable \in Nat
    /\ AllowList(Jwt.algorithms) /\ Jwt.leeway \in Nat
    /\ \A algorithm \in Jwt.algorithms :
           Verifies(Encode(Absent, Jwt.signing, algorithm))
=============================================================================
