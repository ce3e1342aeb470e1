------------------------------- MODULE MCProxy -------------------------------
\* Proxy for TLC: configurations with each source of an endpoint, the regions
\* whose prefixes are easily confused, and the two that NewServer refuses,
\* and one endpoint without its scheme.
EXTENDS Proxy, TLC

Config(addressOK, resolved, base, region) ==
  [addressOK |-> addressOK, resolved |-> resolved, BaseEndpoint |-> base, Region |-> region]

Url(host) == [scheme |-> TRUE, host |-> host]

SomeConfigs ==
  {Config(TRUE, none, none, <<"us", "isob", "east", "1">>),
   Config(TRUE, none, none, <<"us", "iso", "east", "1">>),
   Config(TRUE, none, none, <<"cn", "north", "1">>),
   Config(TRUE, none, none, <<"us", "gov", "west", "1">>),
   Config(TRUE, none, Url(<<"custom">>), <<"cn", "north", "1">>),
   Config(TRUE, Url(<<"resolver">>), Url(<<"custom">>), <<"eu", "west", "1">>),
   Config(TRUE, none, [scheme |-> FALSE, host |-> <<"custom">>], <<"eu", "west", "1">>),
   Config(TRUE, none, malformed, <<"eu", "west", "1">>),
   Config(FALSE, none, none, <<"eu", "west", "1">>)}

\* The headers of an SDK that keeps its connection, and of clients with a Te that
\* is put back, is shortened or is dropped, another hop-by-hop header, or a
\* proxy of their own.
SomeHeaders ==
  {"Connection" :> <<"keep-alive">> @@ "User-Agent" :> <<"sdk">>,
   "Connection" :> <<"te">> @@ "Te" :> <<"trailers">>,
   "Te" :> <<"trailers", "deflate">>,
   "Te" :> <<"deflate">>,
   "Proxy-Authorization" :> <<"basic">>,
   "X-Forwarded-For" :> <<"client">> @@ "X-Amz-Date" :> <<"then">>}
=============================================================================
