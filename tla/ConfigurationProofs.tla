-------------------------- MODULE ConfigurationProofs --------------------------
(***************************************************************************)
(* Proofs about Configuration, for any addresses and ports.  The invariant *)
(* says where the variables come from: the configuration from the          *)
(* environment, the client's address from the configuration, the network   *)
(* ids from names that can be configured.                                  *)
(***************************************************************************)
EXTENDS Configuration, SequenceTheorems, TLAPS

IInv ==
  /\ env \in Environment
  /\ \/ config = None /\ client = None
     \/ /\ ~Refuses(env)
        /\ config = LoadConfiguration(env)
        /\ client = guessDebugEndpoint(config.URL)
  /\ nids \subseteq {<<network, MapNetwork(NetworkName(network))>> : network \in Networks}

-------------------------------------------------------------------------------
(* The addresses. *)

\* The address of an endpoint, with segments behind it, is an address.
LEMMA JoinType ==
  ASSUME NEW endpoint \in URL, NEW segments \in Seq(Segments)
  PROVE  /\ Join(endpoint, segments) \in URL
         /\ Join(endpoint, segments).path = endpoint.path \o segments
         /\ Join(endpoint, segments).scheme = endpoint.scheme
PROOF
<1> DEFINE joined == endpoint.path \o segments
<1>1. joined \in Seq(Segments)
  BY DEF URL
<1>2. Join(endpoint, segments) = [endpoint EXCEPT !.path = joined]
  BY DEF Join
<1> HIDE DEF joined
<1>3. /\ [endpoint EXCEPT !.path = joined] \in URL
      /\ [endpoint EXCEPT !.path = joined].path = joined
      /\ [endpoint EXCEPT !.path = joined].scheme = endpoint.scheme
  BY <1>1 DEF URL
<1> QED
  BY <1>2, <1>3 DEF joined

\* The first segment api of a path, if it is followed by v3, is the one behind which
\* debug is put.
LEMMA GuessAt ==
  ASSUME NEW url \in URL, url.scheme, NEW m \in 1..Len(url.path),
         url.path[m] = "api", \A j \in 1..(m - 1) : url.path[j] # "api",
         m < Len(url.path), url.path[m + 1] = "v3"
  PROVE  guessDebugEndpoint(url)
           = [url EXCEPT !.path = Append([url.path EXCEPT ![m + 1] = "debug"], "v3")]
PROOF
<1> DEFINE i == CHOOSE k \in DOMAIN url.path :
                  url.path[k] = "api" /\ \A j \in 1..(k - 1) : url.path[j] # "api"
<1>1. /\ DOMAIN url.path = 1..Len(url.path)
      /\ Len(url.path) \in Nat
  BY DEF URL
<1>2. \A k \in DOMAIN url.path :
        (url.path[k] = "api" /\ \A j \in 1..(k - 1) : url.path[j] # "api") <=> k = m
  BY <1>1
<1>3. i = m
  BY <1>1, <1>2
<1>4. \E k \in DOMAIN url.path : url.path[k] = "api"
  BY <1>1
<1>5. Len(url.path) > i /\ url.path[i + 1] = "v3"
  BY <1>1, <1>3
<1>6. guessDebugEndpoint(url)
        = [url EXCEPT !.path = Append([url.path EXCEPT ![i + 1] = "debug"], "v3")]
  BY <1>4, <1>5, Zenon DEF guessDebugEndpoint
<1> QED
  BY <1>3, <1>6, Zenon

\* What is guessed is an address, or nothing.
LEMMA GuessType ==
  ASSUME NEW url \in URL
  PROVE  guessDebugEndpoint(url) \in URL \cup {None}
PROOF
<1>1. \A k : Append([url.path EXCEPT ![k] = "debug"], "v3") \in Seq(Segments)
  <2> SUFFICES ASSUME NEW k
               PROVE  Append([url.path EXCEPT ![k] = "debug"], "v3") \in Seq(Segments)
    OBVIOUS
  <2>1. url.path \in [1..Len(url.path) -> Segments] /\ Len(url.path) \in Nat
    BY DEF URL
  <2>2. {"debug", "v3"} \subseteq Segments
    BY ConfigurationAssumption
  <2>3. [url.path EXCEPT ![k] = "debug"] \in [1..Len(url.path) -> Segments]
    BY <2>1, <2>2
  <2> QED
    BY <2>1, <2>2, <2>3
<1>2. \A q \in Seq(Segments) : [url EXCEPT !.path = q] \in URL
  BY DEF URL
<1>3. \/ guessDebugEndpoint(url) = None
      \/ \E k : guessDebugEndpoint(url)
                  = [url EXCEPT !.path = Append([url.path EXCEPT ![k] = "debug"], "v3")]
  BY Zenon DEF guessDebugEndpoint
<1> QED
  BY <1>1, <1>2, <1>3, Zenon

\* The guess from the address of a plain endpoint is the address of its debug
\* endpoint: the first segment api is the one that the configuration put there.
LEMMA GuessOfJoin ==
  ASSUME NEW endpoint \in URL, Plain(endpoint)
  PROVE  guessDebugEndpoint(Join(endpoint, <<"api", "v3">>))
           = Join(endpoint, <<"api", "debug", "v3">>)
PROOF
<1> DEFINE p == endpoint.path
           n == Len(p)
           q == p \o <<"api", "v3">>
           url == Join(endpoint, <<"api", "v3">>)
<1>1. <<"api", "v3">> \in Seq(Segments)
  BY ConfigurationAssumption
<1>2. p \in Seq(Segments) /\ n \in Nat /\ \A k \in 1..n : p[k] # "api"
  BY DEF URL, Plain
<1>3. /\ Len(q) = n + 2
      /\ \A k \in 1..n : q[k] = p[k]
      /\ q[n + 1] = "api" /\ q[n + 2] = "v3"
  BY <1>1, <1>2
<1>4. url \in URL /\ url.path = q /\ url.scheme
  BY <1>1, JoinType DEF Plain
<1>5. guessDebugEndpoint(url)
        = [url EXCEPT !.path = Append([q EXCEPT ![n + 2] = "debug"], "v3")]
  <2> HIDE DEF url, q, n
  <2>1. /\ n + 1 \in 1..Len(url.path) /\ url.path[n + 1] = "api"
        /\ \A j \in 1..((n + 1) - 1) : url.path[j] # "api"
        /\ n + 1 < Len(url.path) /\ url.path[(n + 1) + 1] = "v3" /\ (n + 1) + 1 = n + 2
    BY <1>2, <1>3, <1>4
  <2>2. guessDebugEndpoint(url)
          = [url EXCEPT !.path = Append([url.path EXCEPT ![(n + 1) + 1] = "debug"], "v3")]
    BY <1>4, <2>1, GuessAt
  <2> QED
    BY <1>4, <2>1, <2>2, Zenon
<1>6. Append([q EXCEPT ![n + 2] = "debug"], "v3") = p \o <<"api", "debug", "v3">>
  <2> DEFINE debugged == [q EXCEPT ![n + 2] = "debug"]
             left == Append(debugged, "v3")
             right == p \o <<"api", "debug", "v3">>
  <2>1. {"api", "debug", "v3"} \subseteq Segments
    BY ConfigurationAssumption
  <2>2. /\ debugged \in Seq(Segments) /\ Len(debugged) = n + 2
        /\ \A k \in 1..n : debugged[k] = p[k]
        /\ debugged[n + 1] = "api" /\ debugged[n + 2] = "debug"
    <3>1. q \in Seq(Segments)
      BY <1>1, <1>2
    <3> HIDE DEF q, n
    <3> QED
      BY <1>2, <1>3, <2>1, <3>1
  <2>3. /\ left \in Seq(Segments) /\ Len(left) = n + 3
        /\ \A k \in 1..n : left[k] = p[k]
        /\ left[n + 1] = "api" /\ left[n + 2] = "debug" /\ left[n + 3] = "v3"
    <3> HIDE DEF debugged, n
    <3> QED
      BY <1>2, <2>1, <2>2
  <2>4. /\ right \in Seq(Segments) /\ Len(right) = n + 3
        /\ \A k \in 1..n : right[k] = p[k]
        /\ right[n + 1] = "api" /\ right[n + 2] = "debug" /\ right[n + 3] = "v3"
    BY <1>2, <2>1
  <2> HIDE DEF left, right, n
  <2>5. \A k \in 1..Len(left) : left[k] = right[k]
    BY <1>2, <2>3, <2>4
  <2>6. left = right
    BY <2>3, <2>4, <2>5, SeqEqual
  <2> QED
    BY <2>6 DEF left, right
<1>7. url = [endpoint EXCEPT !.path = q]
  BY DEF Join
<1> QED
  <2> HIDE DEF q
  <2>1. [url EXCEPT !.path = p \o <<"api", "debug", "v3">>]
          = [endpoint EXCEPT !.path = p \o <<"api", "debug", "v3">>]
    BY <1>7 DEF URL
  <2> QED
    BY <1>5, <1>6, <2>1, Zenon DEF Join

-------------------------------------------------------------------------------
(* The steps. *)

LEMMA InitOK == Init => IInv
PROOF
  BY DEF Init, IInv

LEMMA NextKeepsIInv == IInv /\ [Next]_vars => IInv'
PROOF
<1> SUFFICES ASSUME IInv, [Next]_vars
             PROVE  IInv'
  OBVIOUS
<1>1. CASE Start
  BY <1>1 DEF Start, IInv
<1>2. CASE Payload
  <2>1. env.NETWORK \in Networks /\ config.Network = NetworkName(env.NETWORK)
    BY <1>2 DEF Payload, IInv, Refuses, LoadConfiguration
  <2> QED
    BY <1>2, <2>1 DEF Payload, IInv
<1>3. CASE Restart
  BY <1>3 DEF Restart, IInv
<1>4. CASE UNCHANGED vars
  BY <1>4 DEF vars, IInv
<1> QED
  BY <1>1, <1>2, <1>3, <1>4 DEF Next

-------------------------------------------------------------------------------
\* The inductive invariant holds in every execution.
THEOREM Invariance == Spec => []IInv
PROOF
<1> QED
  BY InitOK, NextKeepsIInv, PTL DEF Spec

\* The endpoint that the environment names, or the default, is an address.
LEMMA EndpointType ==
  ASSUME IInv
  PROVE  (IF env.ENDPOINT = None THEN DefaultEndPoint ELSE env.ENDPOINT) \in URL
PROOF
  BY ConfigurationAssumption DEF IInv, Environment, DefaultEndPoint, URL

\* The variables keep their types, and a process that runs has a port above 0.
THEOREM TypeCorrect == Spec => []TypeOK
PROOF
<1>1. ASSUME IInv PROVE TypeOK
  <2> USE <1>1
  <2>1. env \in Environment
    BY DEF IInv
  <2>2. nids \subseteq (Networks \X Nat)
    BY DEF IInv, Networks, NetworkName, MapNetwork
  <2>3. CASE config = None /\ client = None
    BY <2>1, <2>2, <2>3 DEF TypeOK
  <2>4. CASE /\ ~Refuses(env)
             /\ config = LoadConfiguration(env)
             /\ client = guessDebugEndpoint(config.URL)
    <3> DEFINE endpoint == IF env.ENDPOINT = None THEN DefaultEndPoint ELSE env.ENDPOINT
    <3>1. endpoint \in URL
      BY EndpointType
    <3>2. /\ Join(endpoint, <<"api", "v3">>) \in URL
          /\ Join(endpoint, <<"api", "debug", "v3">>) \in URL
      <4>1. <<"api", "v3">> \in Seq(Segments) /\ <<"api", "debug", "v3">> \in Seq(Segments)
        BY ConfigurationAssumption
      <4> HIDE DEF endpoint
      <4> QED
        BY <3>1, <4>1, JoinType
    <3>3. env.MODE \in Modes /\ env.NETWORK \in Networks /\ env.PORT \in Int /\ env.PORT > 0
      <4>1. env.PORT \in Ports
        BY <2>1, <2>4 DEF Environment, Refuses
      <4>2. env.PORT \in Int
        BY <4>1, ConfigurationAssumption
      <4> QED
        BY <4>2, <2>4 DEF Refuses
    <3>4. /\ config = [Mode |-> env.MODE, Network |-> NetworkName(env.NETWORK),
                       URL |-> Join(endpoint, <<"api", "v3">>),
                       DebugURL |-> Join(endpoint, <<"api", "debug", "v3">>),
                       Port |-> env.PORT]
      BY <2>4 DEF LoadConfiguration
    <3>5. config \in Configurations /\ config.Port > 0 /\ config.URL \in URL
      BY <3>2, <3>3, <3>4 DEF Configurations
    <3>6. client \in URL \cup {None}
      BY <2>4, <3>5, GuessType
    <3> QED
      BY <2>1, <2>2, <3>5, <3>6 DEF TypeOK
  <2> QED
    BY <2>3, <2>4 DEF IInv
<1> QED
  BY <1>1, Invariance, PTL

\* The address that the client guesses is the one that the configuration holds, for
\* every ENDPOINT without a segment api of its own (configuration.go:131-136,
\* client.go:33-52).
THEOREM Agreement == Spec => []DebugEndpointsAgree
PROOF
<1>1. ASSUME IInv PROVE DebugEndpointsAgree
  <2> SUFFICES ASSUME config # None, env.ENDPOINT # None => Plain(env.ENDPOINT)
               PROVE  client = config.DebugURL
    BY DEF DebugEndpointsAgree
  <2> DEFINE endpoint == IF env.ENDPOINT = None THEN DefaultEndPoint ELSE env.ENDPOINT
  <2>1. endpoint \in URL
    BY <1>1, EndpointType
  <2>2. Plain(endpoint)
    BY DEF Plain, DefaultEndPoint
  <2>3. /\ config.URL = Join(endpoint, <<"api", "v3">>)
        /\ config.DebugURL = Join(endpoint, <<"api", "debug", "v3">>)
        /\ client = guessDebugEndpoint(config.URL)
    BY <1>1 DEF IInv, LoadConfiguration
  <2> HIDE DEF endpoint
  <2> QED
    BY <2>1, <2>2, <2>3, GuessOfJoin
<1> QED
  BY <1>1, Invariance, PTL

\* The network ids of two networks that can be configured differ (codec.go:31-44).
THEOREM Distinct == Spec => []NidsDistinct
PROOF
<1>1. \A n1, n2 \in Networks :
        MapNetwork(NetworkName(n1)) = MapNetwork(NetworkName(n2)) => n1 = n2
  BY DEF Networks, NetworkName, MapNetwork
<1>2. IInv => NidsDistinct
  BY <1>1 DEF IInv, NidsDistinct
<1> QED
  BY <1>2, Invariance, PTL
===============================================================================
