------------------------------ MODULE MCWebApp ------------------------------
(***************************************************************************)
(* Applications to check: one with a session, one with tokens, one that    *)
(* serves a file, and one of every kind of route, argument and error.      *)
(***************************************************************************)
EXTENDS WebApp

MCTakes ==
    [str |-> {"a", "b", "7", "me"}, int |-> {"7"}, float |-> {"7"}, uuid |-> {},
     path |-> {"a", "b", "7", "me"}]

MCJwt ==
    [algorithms |-> {"HS256", "HS512"}, key |-> "secret", signing |-> "secret",
     leeway |-> 1, issuer |-> {"us"}, audience |-> {"all"}]

Lit(name) == [kind |-> "literal", name |-> name, conv |-> ""]
Par(name, conv) == [kind |-> "param", name |-> name, conv |-> conv]

Get(path, program) ==
    [method |-> "GET", path |-> path, guard |-> NoGuard, binder |-> <<>>, status |-> 200,
     errors |-> NoHandlers, program |-> program]

Arg(kind, name, optional) == [kind |-> kind, name |-> name, optional |-> optional]
Own == Arg("session", "session", FALSE)
Return(result) == [do |-> "return", result |-> result]
Put(k, v) == [do |-> "put", key |-> k, value |-> v]
LogIn(user, roles) == [do |-> "login", user |-> user, roles |-> roles]
Raise(error) == [do |-> "raise", error |-> error]

To(path) ==
    [kind |-> "plain", method |-> "GET", path |-> path, preflight |-> FALSE,
     trips |-> FALSE, body |-> "good", fields |-> [q |-> "good", p |-> "good"],
     conditions |-> Unconditional]
Tripping(r) == [r EXCEPT !.trips = TRUE]

WithSession(path, program) ==
    [Get(<<Lit(path)>>, program) EXCEPT !.binder = <<Own>>]

Staff == ForRoles({"staff"})

Application(auth, routes) ==
    [auth |-> auth, routes |-> routes, mounts |-> {}, errors |-> NoHandlers,
     middlewares |-> <<>>, horizon |-> 1, sizes |-> {3}, offers |-> [t \in Tasks |-> {}]]

\* A visit: login, a cart, what a handler does before it raises, and logout.
Shop ==
    [Application("session",
        << WithSession("login", <<LogIn("ada", {"staff"}), Return("none")>>),
           WithSession("add", <<Put("cart", "x"), Return("value")>>),
           WithSession("drop", <<[do |-> "drop", key |-> "cart"], Return("value")>>),
           WithSession("fail", <<Put("cart", "y"), Raise(HTTPError(400))>>),
           WithSession("logout", <<[do |-> "logout"], Return("none")>>),
           [Get(<<Lit("staff")>>, <<Return("value")>>) EXCEPT !.guard = Staff],
           [Get(<<Lit("both")>>, <<Return("value")>>)
                EXCEPT !.guard = Merge(Staff, Require(NoGuard, {"admin"}))] >>)
        EXCEPT !.middlewares = << [kind |-> "after", order |-> 0] >>,
               !.horizon = 3,
               !.offers = [t \in Tasks |->
                   IF t = 1 THEN {To(<<"login">>), To(<<"add">>)}
                   ELSE {To(<<p>>) : p \in {"add", "drop", "fail", "logout", "staff", "both"}}
                        \union {Tripping(To(<<"add">>))}]]

\* Tokens, valid for a second and a leeway of one.
Api ==
    [Application("jwt",
        << Get(<<Lit("token")>>, <<[do |-> "issue", user |-> "ada", roles |-> {"staff"},
                                    expires |-> {1}], Return("value")>>),
           [Get(<<Lit("staff")>>, <<Return("value")>>) EXCEPT !.guard = Staff],
           [Get(<<Lit("any")>>, <<Return("value")>>)
                EXCEPT !.binder = <<Arg("identity", "who", TRUE)>>] >>)
        EXCEPT !.horizon = 4,
               !.offers = [t \in Tasks |->
                   {To(<<p>>) : p \in IF t = 1 THEN {"token"} ELSE {"token", "staff", "any"}}]]

\* A file, fetched, resumed and checked.
Served(kind) == [To(<<"static", "file">>) EXCEPT !.kind = kind]
Ranged(first, last) ==
    [Served("plain") EXCEPT !.conditions.range =
        {[first |-> first, last |-> last, single |-> TRUE]}]
Files ==
    [Application("none", <<>>)
        EXCEPT !.mounts = {[prefix |-> <<"static">>, files |-> TRUE]},
               !.horizon = 2,
               !.sizes = 0..4,
               !.offers = [t \in Tasks |->
                   {Served("fetch"), Served("resume"), Served("revalidate")}]]
Ranges ==
    [Files EXCEPT !.horizon = 1,
        !.offers = [t \in Tasks |->
            IF t > 1 THEN {}
            ELSE {Ranged(f, l) : f \in {{}, {0}, {1}, {2}, {3}}, l \in {{}, {0}, {1}, {2}, {5}}}
                 \union {Served("plain"),
                         [Served("plain") EXCEPT !.method = "HEAD"],
                         [Served("plain") EXCEPT !.method = "POST"],
                         [Served("plain") EXCEPT !.path = <<"static", "..">>],
                         [Served("plain") EXCEPT !.conditions.since = {1}],
                         [Ranged({0}, {0}) EXCEPT !.conditions.ifRangeDate = {0}],
                         [Served("plain") EXCEPT !.conditions.any = TRUE]}]]

\* Everything else a request may meet.
Binds(name, args) == [Get(<<Lit(name)>>, <<Return("value")>>) EXCEPT !.binder = args]
Site ==
    [Application("session",
        << Get(<<Lit("a"), Par("n", "int")>>, <<Return("none")>>),
           Get(<<Lit("a"), Par("s", "str"), Lit("b")>>, <<Return("own")>>),
           [Get(<<Par("s", "str"), Lit("b")>>, <<Return("value")>>) EXCEPT !.method = "POST"],
           Get(<<Lit("b"), Par("rest", "path")>>, <<Return("value")>>),
           [Get(<<Lit("b")>>, <<Return("none")>>) EXCEPT !.method = "POST", !.status = 201],
           [Binds("b", <<Arg("websocket", "ws", FALSE)>>) EXCEPT !.method = "WEBSOCKET"],
           Binds("me", <<Arg("field", "q", FALSE), Arg("field", "p", TRUE)>>),
           [Binds("7", <<Arg("field", "q", FALSE), Arg("body", "", FALSE),
                         Arg("identity", "who", FALSE)>>) EXCEPT !.method = "POST"],
           [Binds("7", <<Arg("form", "p", TRUE)>>) EXCEPT !.method = "PUT",
                !.errors = [HTTPError |-> "value", ClientDisconnected |-> "own"]],
           [Get(<<Lit("me"), Lit("7")>>, <<Raise(Error("KeyError", 500))>>)
                EXCEPT !.errors = [LookupError |-> "own", Exception |-> "fails"]] >>)
        EXCEPT !.mounts = {[prefix |-> <<"m">>, files |-> FALSE],
                           [prefix |-> <<"m", "a">>, files |-> TRUE]},
               !.errors = [Exception |-> "value", Unauthenticated |-> "fails"],
               !.middlewares = << [kind |-> "after", order |-> 1],
                                  [kind |-> "cors", order |-> -1000],
                                  [kind |-> "before", order |-> 1] >>,
               !.offers = [t \in Tasks |->
                   IF t > 1 THEN {}
                   ELSE {[To(p) EXCEPT !.method = m] :
                            p \in {<<>>, <<"">>, <<"b">>, <<"b", "">>, <<"", "b">>,
                                   <<"a", "7">>, <<"a", "b">>, <<"a", "", "7">>,
                                   <<"a", "7", "b">>, <<"b", "a", "me">>, <<"me">>,
                                   <<"m">>, <<"m", "a">>, <<"m", "a", "file">>, <<"me", "7">>},
                            m \in {"GET", "HEAD", "POST", "WEBSOCKET"}}
                        \union {[To(<<"7">>) EXCEPT !.method = m, !.body = b, !.fields.q = q] :
                                    m \in {"POST", "PUT"}, q \in {"good", "bad", "missing"},
                                    b \in {"good", "bad", "missing", "malformed", "large",
                                           "foreign"}}
                        \union {[To(<<"me">>) EXCEPT !.fields.q = q, !.fields.p = p] :
                                    q \in {"good", "bad", "missing"},
                                    p \in {"good", "bad", "missing"}}
                        \union {[To(<<"b">>) EXCEPT !.preflight = TRUE, !.method = "OPTIONS"],
                                Tripping(To(<<"a", "7">>)),
                                Tripping([To(<<"b">>) EXCEPT !.preflight = TRUE])}]]

MCApps == {Shop, Api, Files, Ranges, Site}
\* Two routes that give a segment the same name and not the same converter.
Shared ==
    [Application("none",
        << Get(<<Par("id", "str"), Lit("a")>>, <<Return("value")>>),
           [Get(<<Par("id", "int"), Lit("b")>>, <<Return("value")>>)
                EXCEPT !.binder = <<Arg("field", "p", FALSE)>>] >>)
        EXCEPT !.offers = [t \in Tasks |->
            {[To(<<s, p>>) EXCEPT !.fields.p = IF s = "7" THEN "good" ELSE "bad"] :
                 s \in {"a", "7"}, p \in {"a", "b"}}]]

MCSharedApps == {Shared}
=============================================================================
