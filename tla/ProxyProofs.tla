------------------------------ MODULE ProxyProofs ------------------------------
(***************************************************************************)
(* Proofs about Proxy, for any clients, headers and configurations: every  *)
(* request leaves for the endpoint of the configuration, and arrives as it *)
(* was signed exactly when its client sent none of the headers that the    *)
(* reverse proxy takes or changes.                                         *)
(***************************************************************************)
EXTENDS Proxy, TLAPS

\* q is a record with the fields of a request.
Shape(q) == q = [at |-> q.at, conn |-> q.conn, client |-> q.client, headers |-> q.headers,
                 host |-> q.host, body |-> q.body, signature |-> q.signature]

\* Between Director and the reverse proxy: the signature is of the request as
\* it is, with the client's headers but Connection and those of the signer.
SignedAsIs(q) ==
  /\ q.client \in ClientHeaders
  /\ q.signature.host = q.host
  /\ q.signature.body = q.body
  /\ \E creds \in {"static", "session"} :
       LET dated == Dated(Del(q.client, {"Connection"}), creds) IN
       /\ q.headers = Set(dated, "Authorization", <<"signature">>)
       /\ q.signature.headers = Del(dated, ignoredHeaders)

\* The signed headers arrive with their values.
Intact(headers, signed) ==
  \A h \in DOMAIN signed : h \in DOMAIN headers /\ headers[h] = signed[h]

\* What the service gets: SignatureHolds for one request.
Arrives(q) ==
  /\ q.signature.host = q.host
  /\ q.signature.body = q.body
  /\ Intact(q.headers, q.signature.headers) <=> ~DisturbedLater(q.client)
  /\ DOMAIN q.headers \ DOMAIN q.signature.headers \subseteq ignoredHeaders \cup {"X-Forwarded-For"}

RequestInv(q) ==
  /\ Shape(q)
  /\ q.at # "none" => server = "made"
  /\ q.at = "accepted" => q.client \in ClientHeaders /\ q.headers = q.client /\ q.signature = none
  /\ q.at \in {"directed", "forwarded"} => q.host = endpoint
  /\ q.at = "directed" /\ q.signature # none => SignedAsIs(q)
  /\ q.at = "forwarded" /\ q.signature # none => Arrives(q)

\* The inductive invariant.
ProxyInv ==
  /\ cfg \in Configs
  /\ req = [r \in Request |-> req[r]]
  /\ spc = "accept" => server = "made"
  /\ server = "made" => endpoint = Host(getServiceEndpoint) /\ getServiceEndpoint # none
  /\ \A r \in Request : RequestInv(req[r])

-----------------------------------------------------------------------------
(* One lemma per kind of step. *)

\* The invariant holds before NewServer is called.
LEMMA InitProxy == Init => ProxyInv
BY DEF Init, ProxyInv, RequestInv, Shape, Idle

\* A step that replaces one request by another of which RequestInv holds.
LEMMA RequestStep ==
  ASSUME ProxyInv, NEW r \in Request, RequestInv(req'[r]),
         req' = [req EXCEPT ![r] = req'[r]],
         UNCHANGED <<cfg, server, endpoint, spc, shutdown>>
  PROVE  ProxyInv'
<1>1. ASSUME NEW s \in Request PROVE RequestInv(req[s])'
  <2>1. RequestInv(req'[s])
    <3>1. s # r => req'[s] = req[s]
      BY DEF ProxyInv
    <3>. QED
      BY <3>1 DEF ProxyInv
  <2>. QED
    BY <2>1 DEF RequestInv, Shape, SignedAsIs, Arrives
<1>2. getServiceEndpoint' = getServiceEndpoint
  BY DEF getServiceEndpoint, DomainSuffix, HasPrefix
<1>. QED
  BY <1>1, <1>2 DEF ProxyInv

\* Serve leaves the requests alone.
LEMMA ServeKeeps == ASSUME ProxyInv, ListenAndServe \/ ServeReturns PROVE ProxyInv'
<1>1. getServiceEndpoint' = getServiceEndpoint
  BY DEF ListenAndServe, ServeReturns, getServiceEndpoint, DomainSuffix, HasPrefix
<1>2. \A r \in Request : RequestInv(req[r])'
  BY DEF ProxyInv, RequestInv, Shape, SignedAsIs, Arrives, ListenAndServe, ServeReturns
<1>3. (spc = "accept" => server = "made")'
  BY DEF ProxyInv, ListenAndServe, ServeReturns
<1>. QED
  BY <1>1, <1>2, <1>3 DEF ProxyInv, ListenAndServe, ServeReturns

\* NewServer comes before the first request, so no request has left for the
\* endpoint it changes.
LEMMA NewServerKeeps == ASSUME ProxyInv, NewServer PROVE ProxyInv'
<1>1. getServiceEndpoint' = getServiceEndpoint
  BY DEF NewServer, getServiceEndpoint, DomainSuffix, HasPrefix
<1>2. \A r \in Request : RequestInv(req[r])'
  <2>. TAKE r \in Request
  <2>1. req[r].at = "none" /\ req'[r] = req[r]
    BY DEF ProxyInv, RequestInv, NewServer
  <2>. QED
    BY <2>1 DEF ProxyInv, RequestInv, Shape, SignedAsIs, Arrives
<1>3. (server = "made" => endpoint = Host(getServiceEndpoint) /\ getServiceEndpoint # none)'
  BY <1>1 DEF NewServer
<1>4. (cfg \in Configs /\ req = [r \in Request |-> req[r]] /\ (spc = "accept" => server = "made"))'
  BY DEF ProxyInv, NewServer
<1>. QED
  BY <1>2, <1>3, <1>4 DEF ProxyInv

\* RequestInv says nothing of the connection.
LEMMA ClosedKeeps ==
  ASSUME NEW q, RequestInv(q)
  PROVE  RequestInv([at |-> q.at, conn |-> "closed", client |-> q.client, headers |-> q.headers,
                     host |-> q.host, body |-> q.body, signature |-> q.signature])
<1>. DEFINE c == [at |-> q.at, conn |-> "closed", client |-> q.client, headers |-> q.headers,
                  host |-> q.host, body |-> q.body, signature |-> q.signature]
<1>1. /\ c.at = q.at /\ c.client = q.client /\ c.headers = q.headers /\ c.host = q.host
      /\ c.body = q.body /\ c.signature = q.signature
  OBVIOUS
<1>2. Shape(c)
  BY DEF Shape
<1>. HIDE DEF c
<1>3. SignedAsIs(q) => SignedAsIs(c)
  BY <1>1, Zenon DEF SignedAsIs
<1>4. Arrives(q) => Arrives(c)
  BY <1>1, Zenon DEF Arrives
<1>5. RequestInv(c)
  BY <1>1, <1>2, <1>3, <1>4, Zenon DEF RequestInv
<1>. QED
  BY <1>5 DEF c

\* Close closes the connections, of which nothing is claimed.
LEMMA CloseKeeps == ASSUME ProxyInv, Close PROVE ProxyInv'
<1>1. getServiceEndpoint' = getServiceEndpoint
  BY DEF Close, getServiceEndpoint, DomainSuffix, HasPrefix
<1>2. ASSUME NEW r \in Request PROVE RequestInv(req[r])'
  <2>1. /\ RequestInv(req[r]) /\ req'[r] = [req[r] EXCEPT !.conn = "closed"]
        /\ UNCHANGED <<server, endpoint>>
    BY DEF ProxyInv, Close
  <2>2. req'[r] = [at |-> req[r].at, conn |-> "closed", client |-> req[r].client,
                   headers |-> req[r].headers, host |-> req[r].host, body |-> req[r].body,
                   signature |-> req[r].signature]
    BY <2>1 DEF RequestInv, Shape
  <2>3. RequestInv(req'[r])
    BY <2>1, <2>2, ClosedKeeps
  <2>. QED
    BY <2>1, <2>3 DEF RequestInv, Shape, SignedAsIs, Arrives
<1>. QED
  BY <1>1, <1>2 DEF ProxyInv, Close

\* The fields of a request that Director sends elsewhere.
LEMMA Redirected ==
  ASSUME NEW q, Shape(q), NEW headers, NEW host
  PROVE  [q EXCEPT !.at = "directed", !.headers = headers, !.host = host]
           = [at |-> "directed", conn |-> q.conn, client |-> q.client, headers |-> headers,
              host |-> host, body |-> q.body, signature |-> q.signature]
<1>. DEFINE One == [q EXCEPT !.at = "directed"]
            Two == [One EXCEPT !.headers = headers]
<1>1. One = [at |-> "directed", conn |-> q.conn, client |-> q.client, headers |-> q.headers,
             host |-> q.host, body |-> q.body, signature |-> q.signature]
  BY DEF Shape
<1>. HIDE DEF One
<1>2. Two = [at |-> "directed", conn |-> q.conn, client |-> q.client, headers |-> headers,
             host |-> q.host, body |-> q.body, signature |-> q.signature]
  BY <1>1
<1>. HIDE DEF Two
<1>3. [Two EXCEPT !.host = host]
        = [at |-> "directed", conn |-> q.conn, client |-> q.client, headers |-> headers,
           host |-> host, body |-> q.body, signature |-> q.signature]
  BY <1>2
<1>. QED
  BY <1>3 DEF One, Two

\* The Director redirects first, whatever happens then; what it signs is the
\* request as it leaves it.
LEMMA DirectorKeeps == ASSUME ProxyInv, NEW r \in Request, Director(r) PROVE ProxyInv'
<1>. DEFINE q == req'[r]
            stripped == StripConnection(req[r].headers)
<1>1. RequestInv(req[r]) /\ req[r].at = "accepted" /\ server = "made"
  BY DEF ProxyInv, RequestInv, Director
<1>2. UNCHANGED <<cfg, server, endpoint, spc, shutdown>>
  BY DEF Director
<1>3. /\ q.at = "directed" /\ q.host = endpoint /\ q.client = req[r].client /\ Shape(q)
      /\ \/ q.signature = none
         \/ /\ q.body = req[r].body
            /\ \E creds \in {"static", "session"} :
                 /\ q.headers = Set(Dated(stripped, creds), "Authorization", <<"signature">>)
                 /\ q.signature = [headers |-> Del(Dated(stripped, creds), ignoredHeaders),
                                   host |-> endpoint, body |-> req[r].body]
  <2>. DEFINE redirected == [at |-> "directed", conn |-> req[r].conn, client |-> req[r].client,
                             headers |-> stripped, host |-> endpoint, body |-> req[r].body,
                             signature |-> none]
  <2>1. redirected = [req[r] EXCEPT !.at = "directed", !.headers = stripped, !.host = endpoint]
    <3>1. Shape(req[r]) /\ req[r].signature = none
      BY <1>1 DEF RequestInv
    <3>. HIDE DEF stripped
    <3>. QED
      BY <3>1, Redirected
  <2>2. \/ q = [redirected EXCEPT !.body = "drained"]
        \/ q = redirected
        \/ \E creds \in {"static", "session"} :
             q = [redirected EXCEPT
                    !.headers = Set(Dated(stripped, creds), "Authorization", <<"signature">>),
                    !.signature = [headers |-> Del(Dated(stripped, creds), ignoredHeaders),
                                   host |-> endpoint, body |-> req[r].body]]
    <3>. HIDE DEF redirected
    <3>. QED
      BY <2>1 DEF Director, ProxyInv
  <2>. HIDE DEF q, stripped
  <2>3. CASE q = [redirected EXCEPT !.body = "drained"] \/ q = redirected
    BY <2>3 DEF Shape
  <2>4. ASSUME NEW creds \in {"static", "session"},
               q = [redirected EXCEPT
                      !.headers = Set(Dated(stripped, creds), "Authorization", <<"signature">>),
                      !.signature = [headers |-> Del(Dated(stripped, creds), ignoredHeaders),
                                     host |-> endpoint, body |-> req[r].body]]
        PROVE  /\ q.at = "directed" /\ q.host = endpoint /\ q.client = req[r].client /\ Shape(q)
               /\ q.body = req[r].body
               /\ q.headers = Set(Dated(stripped, creds), "Authorization", <<"signature">>)
               /\ q.signature = [headers |-> Del(Dated(stripped, creds), ignoredHeaders),
                                 host |-> endpoint, body |-> req[r].body]
    BY <2>4 DEF Shape
  <2>. QED
    BY <2>2, <2>3, <2>4
<1>4. RequestInv(q)
  <2>1. stripped = Del(q.client, {"Connection"}) /\ q.client \in ClientHeaders
    BY <1>1, <1>3 DEF StripConnection, RequestInv
  <2>. HIDE DEF q, stripped
  <2>2. q.signature # none => SignedAsIs(q)
    BY <1>3, <2>1 DEF SignedAsIs
  <2>. QED
    BY <1>1, <1>3, <2>2 DEF RequestInv
<1>5. req' = [req EXCEPT ![r] = q]
  BY DEF Director, ProxyInv
<1>. QED
  BY <1>2, <1>4, <1>5, RequestStep

\* What the reverse proxy makes of the headers Director signed.
LEMMA HeadersArrive ==
  ASSUME NEW q, NEW creds \in {"static", "session"}, NEW signed, q.client \in ClientHeaders,
         q.headers = Set(Dated(Del(q.client, {"Connection"}), creds),
                         "Authorization", <<"signature">>),
         signed = Del(Dated(Del(q.client, {"Connection"}), creds), ignoredHeaders)
  PROVE  /\ Intact(ReverseProxyHeaders(q), signed) <=> ~DisturbedLater(q.client)
         /\ DOMAIN ReverseProxyHeaders(q) \ DOMAIN signed
              \subseteq ignoredHeaders \cup {"X-Forwarded-For"}
<1>. DEFINE c == q.client
            sent == q.headers
            out == ReverseProxyHeaders(q)
            signer == {"X-Amz-Date", "X-Amz-Security-Token", "Authorization"}
<1>1. /\ DOMAIN c \ ({"Connection"} \cup ignoredHeaders) \subseteq DOMAIN signed
      /\ DOMAIN signed \subseteq (DOMAIN c \cup signer) \ ({"Connection"} \cup ignoredHeaders)
      /\ \A h \in DOMAIN signed : h \notin signer => signed[h] = c[h]
  BY DEF Dated, Set, Del, ignoredHeaders
<1>2. /\ DOMAIN sent = DOMAIN signed \cup (DOMAIN sent \cap ignoredHeaders)
      /\ \A h \in DOMAIN signed : sent[h] = signed[h]
  BY DEF Dated, Set, Del, ignoredHeaders
<1>3. /\ DOMAIN out = (DOMAIN sent \ hopHeaders) \cup {"X-Forwarded-For"}
                       \cup (IF TakesTrailers(c) THEN {"Te"} ELSE {})
      /\ \A h \in DOMAIN sent \ (hopHeaders \cup {"X-Forwarded-For"}) : out[h] = sent[h]
      /\ TakesTrailers(c) => out["Te"] = <<"trailers">>
      /\ "X-Forwarded-For" \in DOMAIN sent =>
           out["X-Forwarded-For"] = Append(sent["X-Forwarded-For"], "peer")
  BY DEF ReverseProxyHeaders, Set, Del, hopHeaders
<1>4. \A h \in DOMAIN c : c[h] \in Seq(STRING)
  BY HeadersAssumption
<1>5. "Te" \in DOMAIN c /\ c["Te"] = <<"trailers">> => TakesTrailers(c)
  BY DEF TakesTrailers
<1>6. TakesTrailers(c) => "Te" \in DOMAIN c
  BY DEF TakesTrailers
<1>. HIDE DEF c, sent, out
<1>7. "Te" \in DOMAIN c => "Te" \in DOMAIN signed
  BY <1>1 DEF ignoredHeaders
<1>8. DOMAIN out \ DOMAIN signed \subseteq ignoredHeaders \cup {"X-Forwarded-For"}
  BY <1>2, <1>3, <1>6, <1>7
<1>9. ASSUME DisturbedLater(c) PROVE ~Intact(out, signed)
  <2>1. CASE "X-Forwarded-For" \in DOMAIN c
    <3>1. "X-Forwarded-For" \in DOMAIN signed /\ signed["X-Forwarded-For"] = c["X-Forwarded-For"]
      BY <1>1, <2>1 DEF ignoredHeaders
    <3>2. out["X-Forwarded-For"] = Append(c["X-Forwarded-For"], "peer")
      BY <1>2, <1>3, <3>1
    <3>3. \A s \in Seq(STRING) : Append(s, "peer") # s
      <4>. SUFFICES ASSUME NEW s \in Seq(STRING), Append(s, "peer") = s PROVE FALSE
        OBVIOUS
      <4>1. Len(Append(s, "peer")) = Len(s) + 1 /\ Len(s) \in Nat
        OBVIOUS
      <4>. QED
        BY <4>1
    <3>. QED
      BY <1>4, <2>1, <3>1, <3>2, <3>3 DEF Intact
  <2>2. ASSUME NEW h \in DOMAIN c \cap (hopHeaders \ {"Connection"}),
               ~(h = "Te" /\ c[h] = <<"trailers">>)
        PROVE  ~Intact(out, signed)
    <3>1. h \in DOMAIN signed /\ signed[h] = c[h]
      BY <1>1 DEF ignoredHeaders, hopHeaders
    <3>2. h \in DOMAIN out => h = "Te" /\ TakesTrailers(c)
      BY <1>3 DEF hopHeaders
    <3>. QED
      BY <1>3, <2>2, <3>1, <3>2 DEF Intact
  <2>. QED
    BY <1>9, <2>1, <2>2 DEF DisturbedLater
<1>10. ASSUME ~DisturbedLater(c) PROVE Intact(out, signed)
  <2>. SUFFICES ASSUME NEW h \in DOMAIN signed PROVE h \in DOMAIN out /\ out[h] = signed[h]
    BY DEF Intact
  <2>1. h \in hopHeaders \cup {"X-Forwarded-For"} =>
          h = "Te" /\ c["Te"] = <<"trailers">> /\ h \in DOMAIN c
    BY <1>1, <1>10 DEF DisturbedLater, hopHeaders
  <2>2. CASE h = "Te"
    <3>1. "Te" \in DOMAIN c /\ c["Te"] = <<"trailers">> /\ signed["Te"] = c["Te"]
      BY <1>1, <2>1, <2>2 DEF hopHeaders
    <3>. QED
      BY <1>3, <1>5, <2>2, <3>1
  <2>3. CASE h # "Te"
    BY <1>2, <1>3, <2>1, <2>3
  <2>. QED
    BY <2>2, <2>3
<1>. QED
  BY <1>8, <1>9, <1>10 DEF c, out

\* The invariant of a request that has ended.
LEMMA EndedInv ==
  ASSUME server = "made", NEW end \in {"answered", "aborted"}
  PROVE  RequestInv(Ended(end))
BY DEF RequestInv, Shape, Ended, Idle

\* The reverse proxy takes the hop-by-hop headers out and adds its own.
LEMMA ForwardKeeps == ASSUME ProxyInv, NEW r \in Request, Forward(r) PROVE ProxyInv'
<1>1. RequestInv(req[r]) /\ req[r].at = "directed" /\ server = "made"
  BY DEF ProxyInv, RequestInv, Forward
<1>2. UNCHANGED <<cfg, server, endpoint, spc, shutdown>>
  BY DEF Forward
<1>3. req' = [req EXCEPT ![r] = req'[r]]
  BY DEF Forward, ProxyInv
<1>. DEFINE q == req'[r]
<1>4. \/ q = [at |-> "forwarded", conn |-> req[r].conn, client |-> req[r].client,
              headers |-> ReverseProxyHeaders(req[r]), host |-> req[r].host,
              body |-> req[r].body, signature |-> req[r].signature]
      \/ q = Ended("answered")
  <2>1. \/ req' = [req EXCEPT ![r].at = "forwarded", ![r].headers = ReverseProxyHeaders(req[r])]
        \/ req' = [req EXCEPT ![r] = Ended("answered")]
    BY DEF Forward, transportHeaders
  <2>2. CASE req' = [req EXCEPT ![r].at = "forwarded", ![r].headers = ReverseProxyHeaders(req[r])]
    BY <1>1, <2>2 DEF ProxyInv, RequestInv, Shape
  <2>. QED
    BY <2>1, <2>2 DEF ProxyInv
<1>5. CASE q = Ended("answered")
  BY <1>1, <1>2, <1>3, <1>5, EndedInv, RequestStep
<1>6. CASE q # Ended("answered")
  <2>1. /\ q.at = "forwarded" /\ Shape(q) /\ q.client = req[r].client
        /\ q.headers = ReverseProxyHeaders(req[r]) /\ q.host = req[r].host
        /\ q.body = req[r].body /\ q.signature = req[r].signature
    BY <1>4, <1>6 DEF Shape
  <2>. HIDE DEF q
  <2>2. ASSUME q.signature # none PROVE Arrives(q)
    <3>1. SignedAsIs(req[r])
      BY <1>1, <2>1, <2>2 DEF RequestInv
    <3>2. PICK creds \in {"static", "session"} :
            /\ req[r].headers = Set(Dated(Del(req[r].client, {"Connection"}), creds),
                                    "Authorization", <<"signature">>)
            /\ req[r].signature.headers =
                 Del(Dated(Del(req[r].client, {"Connection"}), creds), ignoredHeaders)
      BY <3>1, Zenon DEF SignedAsIs
    <3>3. /\ Intact(ReverseProxyHeaders(req[r]), req[r].signature.headers)
               <=> ~DisturbedLater(req[r].client)
          /\ DOMAIN ReverseProxyHeaders(req[r]) \ DOMAIN req[r].signature.headers
               \subseteq ignoredHeaders \cup {"X-Forwarded-For"}
      <4>1. req[r].client \in ClientHeaders
        BY <3>1 DEF SignedAsIs
      <4>. QED
        BY <3>2, <4>1, HeadersArrive, Zenon
    <3>. QED
      BY <2>1, <3>1, <3>3, Zenon DEF Arrives, SignedAsIs
  <2>3. RequestInv(q)
    BY <1>1, <2>1, <2>2 DEF RequestInv
  <2>. QED
    BY <1>2, <1>3, <2>3, RequestStep DEF q
<1>. QED
  BY <1>5, <1>6

\* Requests are accepted unsigned, and nothing is claimed of them at their end.
LEMMA ClientKeeps ==
  ASSUME ProxyInv, NEW r \in Request, Accept(r) \/ Answer(r) \/ Abort(r) \/ Disconnect(r)
  PROVE  ProxyInv'
<1>1. RequestInv(req[r])
  BY DEF ProxyInv
<1>2. UNCHANGED <<cfg, server, endpoint, spc, shutdown>>
  BY DEF Accept, Answer, Abort, Disconnect
<1>3. req' = [req EXCEPT ![r] = req'[r]]
  BY DEF Accept, Answer, Abort, Disconnect, ProxyInv
<1>4. CASE Accept(r)
  <2>1. server = "made"
    BY <1>4 DEF Accept, ProxyInv
  <2>2. PICK headers \in ClientHeaders, body \in {none, "full"} :
          req'[r] = [at |-> "accepted", conn |-> "open", client |-> headers, headers |-> headers,
                     host |-> req[r].host, body |-> body, signature |-> none]
    BY <1>4 DEF Accept, ProxyInv
  <2>3. RequestInv(req'[r])
    BY <2>1, <2>2 DEF RequestInv, Shape
  <2>. QED
    BY <1>2, <1>3, <2>3, RequestStep
<1>5. CASE Answer(r) \/ Abort(r)
  <2>1. server = "made"
    BY <1>1, <1>5 DEF Answer, Abort, RequestInv
  <2>2. \E end \in {"answered", "aborted"} : req'[r] = Ended(end)
    BY <1>5 DEF Answer, Abort, ProxyInv
  <2>3. RequestInv(req'[r])
    BY <2>1, <2>2, EndedInv
  <2>. QED
    BY <1>2, <1>3, <2>3, RequestStep
<1>6. CASE Disconnect(r)
  <2>1. req'[r] = [at |-> req[r].at, conn |-> "closed", client |-> req[r].client,
                   headers |-> req[r].headers, host |-> req[r].host, body |-> req[r].body,
                   signature |-> req[r].signature]
    BY <1>1, <1>6 DEF Disconnect, ProxyInv, RequestInv, Shape
  <2>2. RequestInv(req'[r])
    BY <1>1, <2>1, ClosedKeeps
  <2>. QED
    BY <1>2, <1>3, <2>2, RequestStep
<1>. QED
  BY <1>4, <1>5, <1>6

\* A step that changes nothing keeps the invariant.
LEMMA ProxyStutters == ProxyInv /\ UNCHANGED vars => ProxyInv'
BY DEF ProxyInv, RequestInv, Shape, SignedAsIs, Arrives, vars, getServiceEndpoint, DomainSuffix,
       HasPrefix

\* The proxy's invariant, for any clients, headers and configurations.
THEOREM ProxyInvariant == Spec => []ProxyInv
<1>1. ProxyInv /\ [Next]_vars => ProxyInv'
  <2>. SUFFICES ASSUME ProxyInv, Next PROVE ProxyInv'
    BY ProxyStutters
  <2>1. CASE NewServer
    BY <2>1, NewServerKeeps
  <2>2. CASE ListenAndServe \/ ServeReturns
    BY <2>2, ServeKeeps
  <2>3. CASE Close
    BY <2>3, CloseKeeps
  <2>4. ASSUME NEW r \in Request, Accept(r) \/ Handler(r) \/ Answer(r) \/ Disconnect(r)
        PROVE  ProxyInv'
    BY <2>4, ClientKeeps, DirectorKeeps, ForwardKeeps DEF Handler
  <2>. QED
    BY <2>1, <2>2, <2>3, <2>4 DEF Next
<1>. QED
  BY <1>1, InitProxy, PTL DEF Spec

-----------------------------------------------------------------------------
(* The properties *)

\* A signed request arrives as it was signed exactly when its client sent none of
\* the headers that the reverse proxy takes or changes, Connection aside.
THEOREM SignatureTheorem == Spec => []SignatureHolds
<1>1. ProxyInv => SignatureHolds
  BY DEF ProxyInv, RequestInv, Arrives, Intact, SignatureHolds
<1>. QED
  BY <1>1, ProxyInvariant, PTL

\* The domain in the endpoint of a region is that of its partition.
LEMMA OwnDomain ==
  ASSUME NEW region \in Seq(STRING), Len(region) >= 3
  PROVE  DomainSuffix(region) =
           IF SubSeq(region, 1, 1) = <<"cn">> THEN "amazonaws.com.cn"
           ELSE IF SubSeq(region, 1, 2) = <<"us", "iso">> THEN "c2s.ic.gov"
           ELSE IF SubSeq(region, 1, 2) = <<"us", "isob">> THEN "sc2s.sgov.gov"
           ELSE "amazonaws.com"
<1>1. HasPrefix(region, <<"cn">>) <=> SubSeq(region, 1, 1) = <<"cn">>
  BY DEF HasPrefix
<1>2. HasPrefix(region, <<"us", "iso">>) <=> SubSeq(region, 1, 2) = <<"us", "iso">>
  BY DEF HasPrefix
<1>3. HasPrefix(region, <<"us", "isob">>) <=> SubSeq(region, 1, 2) = <<"us", "isob">>
  BY DEF HasPrefix
<1>. QED
  BY <1>1, <1>2, <1>3, Zenon DEF DomainSuffix

\* Every request leaves for the endpoint of the first source that has one.
THEOREM EndpointTheorem == Spec => []ForwardedToEndpoint
<1>1. ProxyInv => ForwardedToEndpoint
  <2>. DEFINE domain ==
                IF SubSeq(cfg.Region, 1, 1) = <<"cn">> THEN "amazonaws.com.cn"
                ELSE IF SubSeq(cfg.Region, 1, 2) = <<"us", "iso">> THEN "c2s.ic.gov"
                ELSE IF SubSeq(cfg.Region, 1, 2) = <<"us", "isob">> THEN "sc2s.sgov.gov"
                ELSE "amazonaws.com"
              own == [scheme |-> TRUE, host |-> Append(cfg.Region, domain)]
              sources == <<cfg.resolved, cfg.BaseEndpoint, own>>
  <2>. SUFFICES ASSUME ProxyInv, NEW r \in Request, req[r].at \in {"directed", "forwarded"}
                PROVE  \E i \in 1 .. 3 : /\ sources[i] # none
                                         /\ req[r].host = Host(sources[i])
                                         /\ \A j \in 1 .. i - 1 : sources[j] = none
    BY DEF ForwardedToEndpoint
  <2>1. req[r].host = Host(getServiceEndpoint) /\ getServiceEndpoint # none
    BY DEF ProxyInv, RequestInv
  <2>2. CASE cfg.resolved # none
    <3>1. req[r].host = Host(sources[1]) /\ sources[1] # none
      BY <2>1, <2>2 DEF getServiceEndpoint
    <3>. HIDE DEF sources
    <3>. QED
      BY <3>1
  <2>3. CASE cfg.resolved = none /\ cfg.BaseEndpoint # none
    <3>1. req[r].host = Host(sources[2]) /\ sources[1] = none /\ sources[2] # none
      BY <2>1, <2>3 DEF getServiceEndpoint
    <3>. HIDE DEF sources
    <3>. QED
      BY <3>1
  <2>4. CASE cfg.resolved = none /\ cfg.BaseEndpoint = none
    <3>1. /\ cfg.Region # << >>
          /\ getServiceEndpoint =
               [scheme |-> TRUE, host |-> Append(cfg.Region, DomainSuffix(cfg.Region))]
      BY <2>1, <2>4 DEF getServiceEndpoint
    <3>2. DomainSuffix(cfg.Region) = domain
      BY <3>1, OwnDomain, ConfigsAssumption DEF ProxyInv
    <3>3. getServiceEndpoint = own
      BY <3>1, <3>2
    <3>4. sources[3] = own /\ sources[2] = none /\ sources[1] = none
      BY <2>4
    <3>. HIDE DEF sources, own
    <3>. QED
      BY <2>1, <3>3, <3>4
  <2>. QED
    BY <2>2, <2>3, <2>4
<1>. QED
  BY <1>1, ProxyInvariant, PTL
=============================================================================
