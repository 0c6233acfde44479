------------------------------ MODULE MCChain -------------------------------
(***************************************************************************)
(* Many chains with one request, and a few with many requests each: about  *)
(* addresses, slashes, origins and negotiation.                            *)
(***************************************************************************)
EXTENDS Chain

AnchoredBefore(a) == [before |-> a, after |-> ""]
AnchoredAfter(a) == [before |-> "", after |-> a]

Config(stages, extras, trust, origins) ==
    [stages |-> stages, extras |-> extras, trust |-> trust, origins |-> origins]

Toggled == {"recover", "timeout", "request_id", "rate_limit", "etag", "cors"}
Slashes == {{}, {"strip_slashes"}, {"redirect_slashes"},
            {"strip_slashes", "redirect_slashes"}}
Fixed == {"secure_headers", "service_desc", "logging"}

SomeExtras == {AnchoredBefore("recover"), AnchoredAfter("timeout"), AnchoredBefore("etag"), AnchoredAfter("logging")}
BadExtras == {AnchoredBefore(""), AnchoredAfter("nowhere"), [before |-> "etag", after |-> "cors"]}
ExtraLists ==
    {<<>>} \cup {<<e>> : e \in SomeExtras \cup BadExtras}
    \cup {<<AnchoredAfter("etag"), e>> : e \in {AnchoredAfter("etag"), AnchoredBefore("etag"), AnchoredBefore("throttle")}}

ManyConfigs ==
    {Config(toggled \cup slashes \cup Fixed, extras, <<>>, {"a"}) :
        toggled \in SUBSET Toggled, slashes \in Slashes, extras \in ExtraLists}

AnyProxy == [any |-> TRUE, proxies |-> {}]
Proxies(proxies) == [any |-> FALSE, proxies |-> proxies]
AddressConfigs ==
    {Config({"real_ip", "rate_limit", "request_id"}, <<>>, trust, {}) :
        trust \in {<<>>, <<AnyProxy>>, <<Proxies({"p"})>>, <<AnyProxy, Proxies({"p"})>>,
                   <<Proxies({"p"}), AnyProxy>>, <<Proxies({})>>, <<Proxies({"p"}), Proxies({"c2"})>>}}
SlashConfigs ==
    {Config({s}, <<>>, <<>>, {}) : s \in {"strip_slashes", "redirect_slashes"}}
OriginConfigs ==
    {Config({"timeout", "cors", "throttle"}, <<>>, <<>>, o) : o \in {{}, {"*"}, {"a"}}}
NegotiationConfigs == {Config({"compress"}, <<>>, <<>>, {})}

MCConfigs ==
    ManyConfigs \cup AddressConfigs \cup SlashConfigs \cup OriginConfigs
    \cup NegotiationConfigs

PlainRequest ==
    [path |-> "users", slashes |-> 1, method |-> "GET", asks |-> FALSE,
     remote |-> "c1", port |-> TRUE, forwarded |-> <<>>, xff |-> <<>>,
     xreal |-> "", encodings |-> <<>>, accept |-> <<>>,
     range |-> FALSE, origin |-> "a"]

Entries(ranges, qs) == [range: ranges, q: qs]
UpTo2(S) == {<<>>} \cup {<<e>> : e \in S} \cup (S \X S)

MCRequestsFor(c) ==
    IF c \in AddressConfigs
    THEN {[PlainRequest EXCEPT !.slashes = 0, !.remote = r, !.port = o,
                               !.forwarded = f, !.xff = x, !.xreal = i] :
            r \in {"c1", "p"}, o \in BOOLEAN,
            f \in {<<>>, <<"">>, <<"unknown">>, <<"c2", "p">>},
            x \in {<<>>, <<"c3", "p">>}, i \in {"", "c2"}}
    ELSE IF c \in SlashConfigs
    THEN {[PlainRequest EXCEPT !.path = p, !.slashes = n, !.method = m] :
            p \in {"users", "escaped", "other", "root"}, n \in 0..2, m \in {"GET", "OPTIONS"}}
    ELSE IF c \in OriginConfigs
    THEN {[PlainRequest EXCEPT !.slashes = 0, !.method = m, !.asks = a, !.origin = o] :
            m \in {"GET", "OPTIONS"}, a \in BOOLEAN, o \in {"", "a", "b"}}
    ELSE IF c \in NegotiationConfigs
    THEN {[PlainRequest EXCEPT !.slashes = 0, !.encodings = e, !.range = r] :
            e \in UpTo2(Entries({"gzip", "*", "br", ""},
                               {<<>>, <<"zero">>, <<"bad">>, <<"zero", "one">>})),
            r \in BOOLEAN}
         \cup {[PlainRequest EXCEPT !.slashes = 0, !.accept = a] :
            a \in UpTo2(Entries({"application/json", "application/*", "*/*", "text/*"},
                               {<<>>, <<"zero">>, <<"one", "bad">>}))}
    ELSE {PlainRequest, [PlainRequest EXCEPT !.method = "POST", !.slashes = 0]}

\* c1 and c3 are addresses of one /64.
MCBucket == "c1" :> "n" @@ "c2" :> "c2" @@ "c3" :> "n" @@ "p" :> "p"
=============================================================================
