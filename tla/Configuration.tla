----------------------------- MODULE Configuration -----------------------------
(***************************************************************************)
(* What a process reads from its environment when it starts                *)
(* (configuration/configuration.go), and what the client and the           *)
(* Construction API make of it: the node's two addresses                   *)
(* (guessDebugEndpoint) and the network id of transactions (MapNetwork).   *)
(* The process may be started again with another environment.              *)
(***************************************************************************)
EXTENDS Integers, Sequences

CONSTANTS
  None,       \* an environment variable or a field that is not set
  Malformed,  \* a value that is not one of those known, or not a number
  Segments,   \* what the path of an address may consist of
  Endpoints,  \* the addresses that ENDPOINT may name
  Ports       \* the numbers that PORT may be

\* An address: whether it has a scheme (without one it does not parse, or has no
\* path), and the segments of its path.
URL == [scheme : BOOLEAN, path : Seq(Segments)]

ASSUME ConfigurationAssumption ==
  /\ {"api", "debug", "v3"} \subseteq Segments
  /\ Endpoints \subseteq URL
  /\ Ports \subseteq Int

Modes == {"ONLINE", "OFFLINE"}

Networks == {"MAINNET", "TESTNET", "ZICON", "DEVNET"}

Environment ==
  [MODE     : Modes \cup {Malformed, None},
   NETWORK  : Networks \cup {Malformed, None},
   ENDPOINT : Endpoints \cup {None},
   PORT     : Ports \cup {Malformed, None}]

DefaultEndPoint == [scheme |-> TRUE, path |-> << >>]

-------------------------------------------------------------------------------
(* The addresses and the network.                                          *)

Join(endpoint, segments) == [endpoint EXCEPT !.path = @ \o segments]

\* Mutant of guessDebugEndpoint: the version is not put back at the end.
GuessWithoutVersion(url) ==
  LET path == url.path
      i == CHOOSE k \in DOMAIN path : path[k] = "api" /\ \A j \in 1..(k - 1) : path[j] # "api"
  IN IF /\ url.scheme
        /\ \E k \in DOMAIN path : path[k] = "api"
        /\ Len(path) > i /\ path[i + 1] = "v3"
     THEN [url EXCEPT !.path = [path EXCEPT ![i + 1] = "debug"]]
     ELSE None

\* Only the first segment api counts, even if it is not followed by v3.
guessDebugEndpoint(url) ==
  LET path == url.path
      i == CHOOSE k \in DOMAIN path : path[k] = "api" /\ \A j \in 1..(k - 1) : path[j] # "api"
  IN IF /\ url.scheme
        /\ \E k \in DOMAIN path : path[k] = "api"
        /\ Len(path) > i /\ path[i + 1] = "v3"
     THEN [url EXCEPT !.path = Append([path EXCEPT ![i + 1] = "debug"], "v3")]
     ELSE None

\* The name of the network in a NetworkIdentifier.
NetworkName(network) ==
  CASE network = "MAINNET" -> "Mainnet"
    [] network = "TESTNET" -> "Testnet"
    [] network = "ZICON"   -> "ZiconNet"
    [] network = "DEVNET"  -> "Devnet"

\* Mutant of MapNetwork: the development network is forgotten.
MapNetworkReleased(name) ==
  CASE name = "Mainnet"  -> 1
    [] name = "Testnet"  -> 2
    [] name = "ZiconNet" -> 3
    [] OTHER             -> 3

MapNetwork(name) ==
  CASE name = "Mainnet"  -> 1
    [] name = "Testnet"  -> 2
    [] name = "ZiconNet" -> 3
    [] name = "Devnet"   -> 80
    [] OTHER             -> 3

-------------------------------------------------------------------------------
(* Starting.                                                               *)

VARIABLES
  env,     \* the environment of the process
  config,  \* its Configuration, or None
  client,  \* the DebugEndPoint of its client
  nids     \* history: the network ids that payloads used, with the NETWORK

vars == <<env, config, client, nids>>

Configurations ==
  [Mode : Modes, Network : {NetworkName(network) : network \in Networks}, URL : URL,
   DebugURL : URL, Port : Int]

\* The variables keep their types; a process that runs has a port to listen on.
TypeOK ==
  /\ env \in Environment
  /\ config \in Configurations \cup {None}
  /\ client \in URL \cup {None}
  /\ nids \subseteq (Networks \X Nat)
  /\ config # None => config.Port > 0

Init ==
  /\ env \in Environment
  /\ config = None
  /\ client = None
  /\ nids = {}

\* Mutant of Refuses: any number is taken for a port.
RefusesIfUnset(e) ==
  \/ e.MODE \notin Modes
  \/ e.NETWORK \notin Networks
  \/ e.PORT \in {None, Malformed}

\* A variable that is not populated or not valid; only ENDPOINT has a default.
Refuses(e) ==
  \/ e.MODE \notin Modes
  \/ e.NETWORK \notin Networks
  \/ e.PORT \in {None, Malformed}
  \/ e.PORT <= 0

LoadConfiguration(e) ==
  LET endpoint == IF e.ENDPOINT = None THEN DefaultEndPoint ELSE e.ENDPOINT
  IN [Mode     |-> e.MODE,
      Network  |-> NetworkName(e.NETWORK),
      URL      |-> Join(endpoint, <<"api", "v3">>),
      DebugURL |-> Join(endpoint, <<"api", "debug", "v3">>),
      Port     |-> e.PORT]

\* LoadConfiguration, and NewClient with the address that it made.
Start ==
  /\ config = None
  /\ ~Refuses(env)
  /\ config' = LoadConfiguration(env)
  /\ client' = guessDebugEndpoint(config'.URL)
  /\ UNCHANGED <<env, nids>>

\* A payload is made for the network of the configuration.
Payload ==
  /\ config # None
  /\ nids' = nids \cup {<<env.NETWORK, MapNetwork(config.Network)>>}
  /\ UNCHANGED <<env, config, client>>

\* The process exits, because it refuses its environment or otherwise; later one is
\* started with another environment.
Restart ==
  /\ env' \in Environment
  /\ config' = None
  /\ client' = None
  /\ UNCHANGED nids

Next == Start \/ Payload \/ Restart

Spec == Init /\ [][Next]_vars

-------------------------------------------------------------------------------
(* Properties.                                                             *)

\* An ENDPOINT that names a node: with a scheme, and no segment api of its own.
Plain(endpoint) ==
  endpoint.scheme /\ \A i \in DOMAIN endpoint.path : endpoint.path[i] # "api"

\* The two places that make the address of the debug endpoint, from ENDPOINT and by
\* rewriting the other address, agree.
DebugEndpointsAgree ==
  /\ config # None
  /\ env.ENDPOINT # None => Plain(env.ENDPOINT)
  => client = config.DebugURL

\* A transaction for one network is not one for another: the default of MapNetwork
\* never stands for a network that can be configured.
NidsDistinct ==
  \A n1, n2 \in nids : n1[2] = n2[2] => n1[1] = n2[1]
===============================================================================
