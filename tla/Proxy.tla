-------------------------------- MODULE Proxy --------------------------------
(***************************************************************************)
(* The HTTP proxy of the daemon (src/pkg/proxy/server.go,                  *)
(* ProxyServerTransport of src/pkg/conn/conn.go): clients send requests    *)
(* without credentials, and the proxy rewrites, signs and forwards them to *)
(* the service.                                                            *)
(*                                                                         *)
(* server is what NewServer made: "none", "made", or "refused" when the    *)
(* daemon ends instead.  spc is where the goroutine of Serve is: "start",  *)
(* "accept", "returned".  A request goes through at = "accepted" (in the   *)
(* ReverseProxy), "directed" (Director has returned), "forwarded" (with    *)
(* the service) to "answered" or "aborted".  The handlers share nothing    *)
(* but the credentials cache and the signer, which are safe for that, so   *)
(* Director is one step.                                                   *)
(*                                                                         *)
(* Headers are functions from names to sequences of values, as http.Header *)
(* is.  A request keeps what its client sent next to its headers as the    *)
(* handler changes them, and conn tells whether its connection is open.    *)
(*                                                                         *)
(* External: net/http's Server, ReverseProxy and Transport, and the        *)
(* signer, as far as server.go relies on them.                             *)
(***************************************************************************)
EXTENDS Integers, Sequences

CONSTANTS Request,
          ClientHeaders,  \* the headers of a request as clients send them
          Configs,        \* configurations NewServer may get
          none,           \* no value
          malformed       \* an endpoint that is no URL

\* The name of a region has at least three parts, as in cn-north-1.
ASSUME ConfigsAssumption ==
  \A c \in Configs : c.Region \in Seq(STRING) /\ (c.Region = << >> \/ Len(c.Region) >= 3)

ASSUME HeadersAssumption ==
  \A headers \in ClientHeaders : headers \in [DOMAIN headers -> Seq(STRING)]

VARIABLES cfg, server, endpoint, spc,
          shutdown,       \* http.Server.Close was called
          req

vars == <<cfg, server, endpoint, spc, shutdown, req>>

NoHeaders == [h \in {} |-> << >>]

Idle == [at |-> "none", conn |-> "closed", client |-> NoHeaders, headers |-> NoHeaders,
         host |-> <<"proxy">>, body |-> none, signature |-> none]

\* Nothing is kept of a request whose handler has returned.
Ended(end) == [Idle EXCEPT !.at = end]

Init ==
  /\ cfg \in Configs
  /\ server = "none"
  /\ endpoint = none
  /\ spc = "start"
  /\ shutdown = FALSE
  /\ req = [r \in Request |-> Idle]

-----------------------------------------------------------------------------
(* NewServer.  A name is the sequence of its parts: the region us-east-1 is *)
(* <<"us", "east", "1">>, its endpoint has the domain as a last part.       *)

\* strings.HasPrefix of a prefix that ends with a dash.
HasPrefix(region, parts) ==
  Len(region) > Len(parts) /\ SubSeq(region, 1, Len(parts)) = parts

DomainSuffix(region) ==
  IF HasPrefix(region, <<"cn">>) THEN "amazonaws.com.cn"
  ELSE IF HasPrefix(region, <<"us", "iso">>) THEN "c2s.ic.gov"
  ELSE IF HasPrefix(region, <<"us", "isob">>) THEN "sc2s.sgov.gov"
  ELSE "amazonaws.com"

\* A resolver in the configuration, its base endpoint, or the region's own.
getServiceEndpoint ==
  IF cfg.resolved # none THEN cfg.resolved
  ELSE IF cfg.BaseEndpoint # none THEN cfg.BaseEndpoint
  ELSE IF cfg.Region = << >> THEN none
  ELSE [scheme |-> TRUE, host |-> Append(cfg.Region, DomainSuffix(cfg.Region))]

\* The Host of url.Parse: an endpoint written without its scheme is a relative
\* URL, which is no error and has no host.
Host(url) == IF url.scheme THEN url.host ELSE << >>

\* A TCP address that does not resolve, no endpoint and an endpoint that is no
\* URL end the daemon.
NewServer ==
  /\ server = "none"
  /\ LET fails == ~cfg.addressOK \/ getServiceEndpoint \in {none, malformed} IN
     \/ fails /\ server' = "refused" /\ endpoint' = none
     \/ ~fails /\ server' = "made" /\ endpoint' = Host(getServiceEndpoint)
  /\ UNCHANGED <<cfg, spc, shutdown, req>>

-----------------------------------------------------------------------------
(* Serve and Close, in different goroutines *)

\* Mutant of ListenAndServe: whatever the error, Serve tries again.
ListenAndServeAgain ==
  /\ server = "made"
  /\ spc = "start"
  /\ spc' \in IF shutdown THEN {"start"} ELSE {"accept", "start"}
  /\ UNCHANGED <<cfg, server, endpoint, shutdown, req>>

\* Serve starts to listen.  After Close it returns ErrServerClosed, and when
\* the address is in use the error is logged and the daemon has no proxy.
ListenAndServe ==
  /\ server = "made"
  /\ spc = "start"
  /\ spc' \in IF shutdown THEN {"returned"} ELSE {"accept", "returned"}
  /\ UNCHANGED <<cfg, server, endpoint, shutdown, req>>

\* The closed listener ends the accept loop.
ServeReturns ==
  /\ spc = "accept"
  /\ shutdown
  /\ spc' = "returned"
  /\ UNCHANGED <<cfg, server, endpoint, shutdown, req>>

InFlight(r) == req[r].at \in {"accepted", "directed", "forwarded"}

\* Close: no more connections, and the open ones are closed under their
\* handlers, which go on until they notice.
Close ==
  /\ server = "made"
  /\ ~shutdown
  /\ shutdown' = TRUE
  /\ req' = [r \in Request |-> [req[r] EXCEPT !.conn = "closed"]]
  /\ UNCHANGED <<cfg, server, endpoint, spc>>

-----------------------------------------------------------------------------
(* Requests *)

\* net/http takes no connection after Close.
Accept(r) ==
  /\ spc = "accept"
  /\ ~shutdown
  /\ req[r].at = "none"
  /\ \E headers \in ClientHeaders, body \in {none, "full"} :
       req' = [req EXCEPT ![r] = [at |-> "accepted", conn |-> "open", client |-> headers,
                                  headers |-> headers, host |-> @.host, body |-> body,
                                  signature |-> none]]
  /\ UNCHANGED <<cfg, server, endpoint, spc, shutdown>>

\* http.Header's Del, of several names, and Set.
Del(headers, names) == [h \in DOMAIN headers \ names |-> headers[h]]

Set(headers, name, values) ==
  [h \in DOMAIN headers \cup {name} |-> IF h = name THEN values ELSE headers[h]]

\* Mutant of StripConnection: the header stays.
StripNothing(headers) == headers

\* req.Header.Del(connHeader)
StripConnection(headers) == Del(headers, {"Connection"})

\* Headers the signer leaves out of the signature.
ignoredHeaders == {"Authorization", "User-Agent", "X-Amzn-Trace-Id", "Expect"}

\* What SignHTTP sets before it signs: the date and, for the credentials of a
\* session, their token.
Dated(headers, creds) ==
  LET dated == Set(headers, "X-Amz-Date", <<"now">>)
  IN  IF creds = "session" THEN Set(dated, "X-Amz-Security-Token", <<"token">>) ELSE dated

\* Mutant of Director: the request is redirected only when its body was read.
DirectorLateHost(r) ==
  /\ req[r].at = "accepted"
  /\ \/ /\ req[r].body # none
        /\ req' = [req EXCEPT ![r].at = "directed", ![r].body = "drained"]
     \/ req' = [req EXCEPT ![r].at = "directed", ![r].host = endpoint]
  /\ UNCHANGED <<cfg, server, endpoint, spc, shutdown>>

\* The headers and the host are set first; a body that cannot be read and
\* credentials or a signature that cannot be had leave the request unsigned.
\* The hash is taken of the bytes read, and a new reader of them becomes the
\* body.
Director(r) ==
  LET stripped == StripConnection(req[r].headers)
      redirected == [req[r] EXCEPT !.at = "directed", !.headers = stripped, !.host = endpoint]
  IN
  /\ req[r].at = "accepted"
  /\ \/ /\ req[r].body # none
        /\ req' = [req EXCEPT ![r] = [redirected EXCEPT !.body = "drained"]]
     \/ req' = [req EXCEPT ![r] = redirected]
     \/ \E creds \in {"static", "session"} :
          LET dated == Dated(stripped, creds) IN
          req' = [req EXCEPT ![r] =
            [redirected EXCEPT !.headers = Set(dated, "Authorization", <<"signature">>),
                               !.signature = [headers |-> Del(dated, ignoredHeaders),
                                              host |-> endpoint,
                                              body |-> req[r].body]]]
  /\ UNCHANGED <<cfg, server, endpoint, spc, shutdown>>

\* The headers that concern one connection, which a reverse proxy removes.
hopHeaders == {"Connection", "Proxy-Connection", "Keep-Alive", "Proxy-Authenticate",
               "Proxy-Authorization", "Te", "Trailer", "Transfer-Encoding", "Upgrade"}

\* Of these it sets Te again for a client that takes trailers.
TakesTrailers(client) ==
  "Te" \in DOMAIN client /\ \E i \in DOMAIN client["Te"] : client["Te"][i] = "trailers"

\* The headers the ReverseProxy passes on once Director has returned: it appends
\* the peer's address to the list of the client, if there is one.
ReverseProxyHeaders(q) ==
  LET kept == Del(q.headers, hopHeaders)
      passed == IF TakesTrailers(q.client) THEN Set(kept, "Te", <<"trailers">>) ELSE kept
      prior == IF "X-Forwarded-For" \in DOMAIN kept THEN kept["X-Forwarded-For"] ELSE << >>
  IN  Set(passed, "X-Forwarded-For", Append(prior, "peer"))

\* Mutant of transportHeaders: compression is left on.
transportHeadersGzip(headers) == Set(headers, "Accept-Encoding", <<"gzip">>)

\* What ProxyServerTransport's transport adds: nothing, with DisableCompression.
transportHeaders(headers) == headers

\* The rest of the ReverseProxy, and the transport's round trip, which fails
\* when the body is shorter than announced or the URL has no host.
Forward(r) ==
  /\ req[r].at = "directed"
  /\ \/ /\ req[r].body # "drained"
        /\ req[r].host # << >>
        /\ req' = [req EXCEPT ![r].at = "forwarded",
                             ![r].headers = transportHeaders(ReverseProxyHeaders(req[r]))]
     \/ req' = [req EXCEPT ![r] = Ended("answered")]
  /\ UNCHANGED <<cfg, server, endpoint, spc, shutdown>>

\* The service answers, or the transport gives up.
Answer(r) ==
  /\ req[r].at = "forwarded"
  /\ req' = [req EXCEPT ![r] = Ended("answered")]
  /\ UNCHANGED <<cfg, server, endpoint, spc, shutdown>>

\* net/http sees that the connection is closed and cancels the round trip.
Abort(r) ==
  /\ req[r].at = "forwarded"
  /\ req[r].conn = "closed"
  /\ req' = [req EXCEPT ![r] = Ended("aborted")]
  /\ UNCHANGED <<cfg, server, endpoint, spc, shutdown>>

\* The client goes away.
Disconnect(r) ==
  /\ InFlight(r)
  /\ req[r].conn = "open"
  /\ req' = [req EXCEPT ![r].conn = "closed"]
  /\ UNCHANGED <<cfg, server, endpoint, spc, shutdown>>

Handler(r) == Director(r) \/ Forward(r) \/ Abort(r)

Next ==
  \/ NewServer
  \/ ListenAndServe
  \/ ServeReturns
  \/ Close
  \/ \E r \in Request : Accept(r) \/ Handler(r) \/ Answer(r) \/ Disconnect(r)

Spec == Init /\ [][Next]_vars

\* Goroutines go on: Retrieve returns, with credentials or an error.  Neither a
\* client nor the service need do anything: the transport has no timeout for an
\* answer.
FairSpec ==
  /\ Spec
  /\ WF_vars(ListenAndServe \/ ServeReturns)
  /\ \A r \in Request : WF_vars(Handler(r))

-----------------------------------------------------------------------------
(* Properties *)

\* Whatever goes wrong in Director, a request leaves for the configured
\* endpoint, never for the host the client named, which is the proxy itself;
\* without a configured endpoint it is the one of the region's own partition.
ForwardedToEndpoint ==
  \A r \in Request :
    req[r].at \in {"directed", "forwarded"} =>
      LET domain == IF SubSeq(cfg.Region, 1, 1) = <<"cn">> THEN "amazonaws.com.cn"
                    ELSE IF SubSeq(cfg.Region, 1, 2) = <<"us", "iso">> THEN "c2s.ic.gov"
                    ELSE IF SubSeq(cfg.Region, 1, 2) = <<"us", "isob">> THEN "sc2s.sgov.gov"
                    ELSE "amazonaws.com"
          own == [scheme |-> TRUE, host |-> Append(cfg.Region, domain)]
          sources == <<cfg.resolved, cfg.BaseEndpoint, own>>
      IN  \E i \in 1 .. 3 : /\ sources[i] # none
                            /\ req[r].host = Host(sources[i])
                            /\ \A j \in 1 .. i - 1 : sources[j] = none

\* What the ReverseProxy will take or change after Director has signed it.
DisturbedLater(client) ==
  \/ "X-Forwarded-For" \in DOMAIN client
  \/ \E h \in DOMAIN client \cap (hopHeaders \ {"Connection"}) :
       ~(h = "Te" /\ client[h] = <<"trailers">>)

\* What the service can verify of a signed request: its host and body are the
\* signed ones, and every signed header arrives with its signed value exactly
\* when the client sent neither an X-Forwarded-For nor a hop-by-hop header other
\* than the Connection that Director takes out in time (and a Te that the
\* reverse proxy puts back).  Nothing unsigned comes in but the headers the
\* signer ignores and the reverse proxy's own.
SignatureHolds ==
  \A r \in Request :
    LET q == req[r]
        signed == q.signature.headers
    IN
    q.at = "forwarded" /\ q.signature # none =>
      /\ q.signature.host = q.host
      /\ q.signature.body = q.body
      /\ (\A h \in DOMAIN signed : h \in DOMAIN q.headers /\ q.headers[h] = signed[h])
           <=> ~DisturbedLater(q.client)
      /\ DOMAIN q.headers \ DOMAIN signed \subseteq ignoredHeaders \cup {"X-Forwarded-For"}

\* stop() ends the proxy also when it comes before the goroutine of Serve has
\* begun to listen: Serve returns, and the handlers, which Close does not stop,
\* all come to an end, whether the service answers or not.
CloseEndsProxy ==
  shutdown ~> (spc = "returned" /\ [](\A r \in Request : ~InFlight(r)))
=============================================================================
