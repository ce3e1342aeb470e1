------------------------------ MODULE MCStartup ------------------------------
\* Startup for TLC: files, command lines and machines that differ in what the
\* code tells apart.
EXTENDS Startup

File(keys, version, mb, conc, region, localMode, proxy) ==
  [loads |-> "yes", keys |-> keys, Version |-> version, TotalBufferSizeMB |-> mb,
   Concurrency |-> conc, Region |-> region, LocalMode |-> localMode, ProxyAddress |-> proxy]

\* Complete; nearly empty; with a negative number; with an unknown key; of a
\* version to come; empty; with a value of a wrong type; no YAML.
SomeFiles ==
  {File(validConfigArray, 2, 4, 2, "file-region", TRUE, "file-proxy"),
   File({"Version", "LocalMode"}, 1, 0, 0, "", FALSE, ""),
   File({"Version", "Concurrency"}, 2, 0, -1, "", unset, ""),
   File({"Version", "unknown"}, 2, 0, 0, "", unset, ""),
   File({"Version", "Region"}, 3, 0, 0, "file-region", unset, ""),
   File({}, 0, 0, 0, "", unset, ""),
   [File({"Version", "Concurrency"}, 2, 0, 0, "", unset, "") EXCEPT !.loads = "mistyped"],
   [File({}, 0, 0, 0, "", unset, "") EXCEPT !.loads = "no"]}

\* A limit of 2 MB is refused, 3 MB is the smallest and makes fewer buffers
\* than a batch has places.
SomeFlags ==
  [version : {FALSE}, config : BOOLEAN, TotalBufferSizeMB : {unset, 2, 3},
   Region : {unset, "flag-region"}, LocalMode : {unset, TRUE}, ProxyAddress : {unset}]
    \cup [version : BOOLEAN, config : BOOLEAN, TotalBufferSizeMB : {unset}, Region : {unset},
          LocalMode : {unset}, ProxyAddress : {unset, "", "flag-proxy", badURL}]

Machine(proxies, hostnames) ==
  [AWS_REGION : {"env-region"}, ecs : {""}, ec2 : {""}, defaultRegion : {""}, totalMB : {400},
   HTTPS_PROXY : proxies, AWS_HOSTNAME : hostnames, AWS_INSTANCE_ID : {""}, metadata : {"imds"},
   udpOK : {TRUE}, tcpOK : {TRUE}, sdkOK : {TRUE}, memoryOK : {TRUE}]

\* Every combination of region sources and memory, one percent of 299 MB being
\* too little; of proxies and labels; and one machine for each failure.
SomeMachines ==
  [AWS_REGION : {"", "env-region"}, ecs : {"", "ecs-region", malformed},
   ec2 : {"", "ec2-region"}, defaultRegion : {"", "sdk-region"}, totalMB : {299, 400},
   HTTPS_PROXY : {""}, AWS_HOSTNAME : {""}, AWS_INSTANCE_ID : {"env-id"}, metadata : {""},
   udpOK : {TRUE}, tcpOK : {TRUE}, sdkOK : {TRUE}, memoryOK : {TRUE}]
    \cup Machine({"", "env-proxy", badURL}, {"", "env-host"})
    \cup {[m EXCEPT ![k] = FALSE] :
            m \in Machine({""}, {""}), k \in {"udpOK", "tcpOK", "sdkOK", "memoryOK"}}

Locations == <<"etc", "cwd">>
=============================================================================
