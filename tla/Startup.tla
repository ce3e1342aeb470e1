------------------------------- MODULE Startup -------------------------------
(***************************************************************************)
(* How the daemon gets from its command line, configuration files and      *)
(* environment to the sizes, the region and the outbound proxy it runs     *)
(* with (init, initCli and initDaemon of src/cmd/tracing/daemon.go,        *)
(* src/pkg/cfg/cfg.go, GetAWSConfig of src/pkg/conn/conn.go, newT of       *)
(* src/pkg/telemetry/telemetry.go).                                        *)
(*                                                                         *)
(* init builds the flags twice: first with the configuration found in one  *)
(* of configLocations, to learn whether --config was given, and then, if   *)
(* it was, with that file.  Building a flag assigns its default to the     *)
(* global variable behind it; parsing overwrites the ones on the command   *)
(* line.                                                                   *)
(*                                                                         *)
(* One setting stands for each kind that merge treats: TotalBufferSizeMB   *)
(* for integers (0 is unset), Region for strings ("" is unset), LocalMode  *)
(* for booleans, and Concurrency for the settings without a flag.          *)
(* ProxyAddress is there as init copies it from its flag back to Config.   *)
(***************************************************************************)
EXTENDS Integers, Sequences

CONSTANTS Files,        \* contents a configuration file may have
          Flags,        \* command lines
          Machines,     \* environments: variables, metadata, memory, ports
          configLocations,  \* the default paths, in order
          unset         \* no value: a flag or key that is not there

\* The empty string: a setting, a variable or an answer that is not there.
none == ""

\* The path that --config names.
userPath == "user"

\* The constants of cfg.go.
cfgFileVersions == {1, 2}
BatchSize == 50
BufferSizeKB == 64
DefaultConfig ==
  [Version |-> 1, TotalBufferSizeMB |-> 0, Concurrency |-> 8, Region |-> none, LocalMode |-> FALSE,
   ProxyAddress |-> none]

validConfigArray == DOMAIN DefaultConfig

\* A file lists keys, some unknown to the daemon perhaps, and gives values.
\* loads tells whether it can be read and is YAML ("no" if not) that fits a
\* Config ("mistyped" if not).
ASSUME FilesAssumption ==
  \A f \in Files : /\ DOMAIN f = validConfigArray \cup {"keys", "loads"}
                   /\ f.Version # 0 => "Version" \in f.keys
                   /\ f.TotalBufferSizeMB \in Int /\ f.Concurrency \in Int

ASSUME FlagsAssumption == \A f \in Flags : f.TotalBufferSizeMB \in Int \cup {unset}

ASSUME MachinesAssumption == \A m \in Machines : m.totalMB \in Nat

VARIABLES pc,
          fs,       \* path |-> content, for the paths that exist
          flags,    \* the command line
          machine,  \* the environment
          config,   \* the Config in force
          global,   \* the variables behind the flags
          buffers, batchSize, awsRegion,
          proxyURL, \* the outbound proxy of the HTTP client, or none
          labels,   \* hostname and instance id of telemetry requests
          asked     \* what the EC2 metadata service was asked for

inputs == <<fs, flags, machine>>
net == <<awsRegion, proxyURL, labels, asked>>
vars == <<pc, inputs, config, global, buffers, batchSize, net>>

Paths == {configLocations[i] : i \in DOMAIN configLocations} \cup {userPath}

Init ==
  /\ pc = "init"
  /\ \E there \in SUBSET Paths : fs \in [there -> Files]
  /\ flags \in Flags
  /\ machine \in Machines
  /\ config = DefaultConfig
  /\ global = [TotalBufferSizeMB |-> 0, Region |-> none, LocalMode |-> FALSE, ProxyAddress |-> none]
  /\ buffers = 0
  /\ batchSize = BatchSize
  /\ awsRegion = none
  /\ proxyURL = none
  /\ labels = [hostname |-> none, instanceID |-> none]
  /\ asked = {}

\* os.Exit(1), errorAndExit and a panic.
Exit == pc' = "exit" /\ UNCHANGED <<inputs, config, global, buffers, batchSize, net>>

-----------------------------------------------------------------------------
(* cfg.go *)

getStringValue(v, default) == IF v = none THEN default ELSE v
getIntValue(v, default) == IF v = 0 THEN default ELSE v
getBoolValue(v, default) == IF v = unset THEN default ELSE v

\* The values of a file over the defaults.
merge(f) ==
  [Version |-> f.Version,
   TotalBufferSizeMB |-> getIntValue(f.TotalBufferSizeMB, DefaultConfig.TotalBufferSizeMB),
   Concurrency |-> getIntValue(f.Concurrency, DefaultConfig.Concurrency),
   Region |-> getStringValue(f.Region, DefaultConfig.Region),
   LocalMode |-> getBoolValue(f.LocalMode, DefaultConfig.LocalMode),
   ProxyAddress |-> getStringValue(f.ProxyAddress, DefaultConfig.ProxyAddress)]

\* The first of configLocations that exists, if one does.
Found ==
  LET there == {i \in DOMAIN configLocations : configLocations[i] \in DOMAIN fs} IN
  IF there = {} THEN {}
  ELSE {configLocations[CHOOSE i \in there : \A j \in there : i <= j]}

\* LoadConfig(""), with the set of the path it reads, and LoadConfig(userPath).
ReadFrom == IF pc = "init" THEN Found ELSE {userPath}

\* A file is missing or cannot be loaded, or its version is not supported.
FileFails(path) ==
  \/ path \notin DOMAIN fs
  \/ fs[path].loads # "yes"
  \/ fs[path].Version \notin cfgFileVersions

\* Any of these ends the process.
LoadConfigFails == \E path \in ReadFrom : FileFails(path)

LoadedConfig ==
  IF ReadFrom = {} THEN DefaultConfig ELSE merge(fs[CHOOSE path \in ReadFrom : TRUE])

\* ConfigValidation: every key must be known and Version be among them.  The
\* values are not looked at yet.
ConfigInvalid(f) == f.keys # {} /\ ("Version" \notin f.keys \/ ~(f.keys \subseteq validConfigArray))

ValidationFails ==
  IF userPath \in DOMAIN fs THEN fs[userPath].loads = "no" \/ ConfigInvalid(fs[userPath])
                             ELSE TRUE

-----------------------------------------------------------------------------
(* init *)

\* initCli: the configuration is loaded and the flags get its values.
initCli ==
  /\ pc \in {"init", "again"}
  /\ \/ LoadConfigFails /\ Exit
     \/ /\ ~LoadConfigFails
        /\ config' = LoadedConfig
        /\ global' = [k \in DOMAIN global |-> LoadedConfig[k]]
        /\ pc' = IF pc = "init" THEN "parse" ELSE "parseAgain"
        /\ UNCHANGED <<inputs, buffers, batchSize, net>>

\* What ParseFlags leaves in the variables.
Parsed == [k \in DOMAIN global |-> IF flags[k] = unset THEN global[k] ELSE flags[k]]

\* Mutant of ParseFlags: the flags are not parsed again after the file is read.
ParseFlagsOnce ==
  /\ pc \in {"parse", "parseAgain"}
  /\ global' = IF pc = "parse" THEN Parsed ELSE global
  /\ pc' = IF pc = "parse" /\ flags.config THEN "validate" ELSE "version"
  /\ UNCHANGED <<inputs, config, buffers, batchSize, net>>

\* f.ParseFlags(), the first time with a look at --config.
ParseFlags ==
  /\ pc \in {"parse", "parseAgain"}
  /\ global' = Parsed
  /\ pc' = IF pc = "parse" /\ flags.config THEN "validate" ELSE "version"
  /\ UNCHANGED <<inputs, config, buffers, batchSize, net>>

\* Mutant of ConfigValidation: the keys are not looked at.
ConfigUnvalidated ==
  /\ pc = "validate"
  /\ userPath \in DOMAIN fs
  /\ pc' = "again"
  /\ UNCHANGED <<inputs, config, global, buffers, batchSize, net>>

\* A file that cannot be read or has a wrong key ends the process.
ConfigValidation ==
  /\ pc = "validate"
  /\ \/ ValidationFails /\ Exit
     \/ /\ ~ValidationFails
        /\ pc' = "again"
        /\ UNCHANGED <<inputs, config, global, buffers, batchSize, net>>

\* Mutant of ShowVersion: the flag of the proxy is not copied to the Config.
ShowVersionOnly ==
  /\ pc = "version"
  /\ pc' = IF flags.version THEN "exit" ELSE "bind"
  /\ UNCHANGED <<inputs, config, global, buffers, batchSize, net>>

\* --version ends the process, after the configuration was read; otherwise init
\* ends with the Config it keeps.
ShowVersion ==
  /\ pc = "version"
  /\ pc' = IF flags.version THEN "exit" ELSE "bind"
  /\ config' = [config EXCEPT !.ProxyAddress = global.ProxyAddress]
  /\ UNCHANGED <<inputs, global, buffers, batchSize, net>>

-----------------------------------------------------------------------------
(* initDaemon *)

\* udp.New: an address that does not resolve or is in use ends the process.
BindSocket ==
  /\ pc = "bind"
  /\ pc' = IF machine.udpOK THEN "memory" ELSE "exit"
  /\ UNCHANGED <<inputs, config, global, buffers, batchSize, net>>

\* The limit in MB: the setting, or one percent of the machine's memory.
bufferMemoryMB ==
  IF global.TotalBufferSizeMB > 0 THEN global.TotalBufferSizeMB ELSE machine.totalMB \div 100

GetPoolBufferCount(limitMB, sizeBytes) == (limitMB * 1024 * 1024) \div sizeBytes

\* The limit has to be computed and mem.VirtualMemory fails.
MemoryUnknown == ~(global.TotalBufferSizeMB > 0) /\ ~machine.memoryOK

\* evaluateBufferMemory, GetPoolBufferCount, bufferpool.Init and ringbuffer.New.
AllocateBuffers ==
  /\ pc = "memory"
  /\ \/ (MemoryUnknown \/ bufferMemoryMB < 3) /\ Exit
     \/ /\ ~MemoryUnknown
        /\ bufferMemoryMB >= 3
        /\ buffers' = GetPoolBufferCount(bufferMemoryMB, BufferSizeKB * 1024)
        /\ pc' = "region"
        /\ UNCHANGED <<inputs, config, global, batchSize, net>>

\* Mutant of ResolvedRegion: the environment comes before the flag.
EnvironmentFirst ==
  IF machine.AWS_REGION # none THEN machine.AWS_REGION
  ELSE IF global.Region # none THEN global.Region
  ELSE IF global.LocalMode THEN machine.defaultRegion
  ELSE IF machine.ecs # none THEN machine.ecs
  ELSE machine.ec2

\* ECS metadata without a TaskARN of the expected form: taking it apart panics.
malformed == "malformed"

\* The region GetAWSConfig picks, none if it finds no region: machine.ecs is what
\* getRegionFromECSMetadata returns, machine.ec2 the answer of the metadata
\* service, machine.defaultRegion that of the SDK's own configuration.
ResolvedRegion ==
  IF global.Region = none /\ machine.AWS_REGION # none THEN machine.AWS_REGION
  ELSE IF global.Region # none THEN global.Region
  ELSE IF ~global.LocalMode
    THEN IF machine.ecs = none THEN machine.ec2 ELSE machine.ecs
    ELSE machine.defaultRegion

\* The metadata service is asked when no source before it has a region.
AsksForRegion ==
  global.Region = none /\ machine.AWS_REGION = none /\ ~global.LocalMode /\ machine.ecs = none

\* A proxy address that is no URL.
badURL == "bad"

getProxyAddress ==
  IF config.ProxyAddress # none THEN config.ProxyAddress ELSE machine.HTTPS_PROXY

\* getNewHTTPClient, the region and newAWSConfig: a bad proxy URL, no region,
\* and a configuration the SDK cannot load end the process.
GetAWSConfig ==
  LET fails == \/ getProxyAddress = badURL
               \/ ResolvedRegion \in {none, malformed}
               \/ ~machine.sdkOK
  IN
  /\ pc = "region"
  /\ \/ fails /\ Exit
     \/ /\ ~fails
        /\ proxyURL' = getProxyAddress
        /\ awsRegion' = ResolvedRegion
        /\ asked' = IF AsksForRegion THEN asked \cup {"region"} ELSE asked
        /\ pc' = "telemetry"
        /\ UNCHANGED <<inputs, config, global, buffers, batchSize, labels>>

\* Mutant of AsksFor: metadata is read in local mode, too.
AsksForAlways(env) == env = none

\* A label that the environment does not give is read from metadata, except in
\* local mode.
AsksFor(env) == env = none /\ ~global.LocalMode

\* newT, with the metadata service's answer or the empty string for both labels.
newT ==
  /\ pc = "telemetry"
  /\ labels' =
       [hostname |-> IF AsksFor(machine.AWS_HOSTNAME) THEN machine.metadata
                                                      ELSE machine.AWS_HOSTNAME,
        instanceID |-> IF AsksFor(machine.AWS_INSTANCE_ID) THEN machine.metadata
                                                           ELSE machine.AWS_INSTANCE_ID]
  /\ asked' = asked \cup (IF AsksFor(machine.AWS_HOSTNAME) THEN {"hostname"} ELSE {})
                   \cup (IF AsksFor(machine.AWS_INSTANCE_ID) THEN {"instance-id"} ELSE {})
  /\ pc' = "start"
  /\ UNCHANGED <<inputs, config, global, buffers, batchSize, awsRegion, proxyURL>>

\* Mutant of GetMinIntValue: the batch size is not lowered.
FirstValue(a, b) == a

GetMinIntValue(a, b) == IF a < b THEN a ELSE b

\* The batch size follows the number of buffers, and NewServer fails or the
\* goroutines start.
StartDaemon ==
  /\ pc = "start"
  /\ batchSize' = GetMinIntValue(batchSize, buffers)
  /\ pc' = IF machine.tcpOK THEN "running" ELSE "exit"
  /\ UNCHANGED <<inputs, config, global, buffers, net>>

Ended == pc \in {"running", "exit"} /\ UNCHANGED vars

Next ==
  \/ initCli
  \/ ParseFlags
  \/ ConfigValidation
  \/ ShowVersion
  \/ BindSocket
  \/ AllocateBuffers
  \/ GetAWSConfig
  \/ newT
  \/ StartDaemon
  \/ Ended

Spec == Init /\ [][Next]_vars

-----------------------------------------------------------------------------
(* Properties *)

\* The file whose settings count: the one --config names, otherwise the first
\* one in the default locations.
Chosen == IF flags.config THEN {userPath} ELSE Found

\* The documented order for every setting: the command line, then the chosen
\* file, then the default.  Nothing of a file in a default location survives
\* when --config names another, although init has read that file into the same
\* variables before.
PrecedenceKept ==
  pc = "running" =>
    \A k \in {"TotalBufferSizeMB", "Region", "LocalMode", "ProxyAddress"} :
      LET blank == CASE k = "TotalBufferSizeMB" -> 0 [] k = "LocalMode" -> unset [] OTHER -> none
          given == {fs[path][k] : path \in Chosen} \ {blank}
      IN  global[k] = IF flags[k] # unset THEN flags[k]
                      ELSE IF given # {} THEN CHOOSE v \in given : TRUE
                      ELSE DefaultConfig[k]

\* A running daemon has read only files that load and have a supported version,
\* the one in a default location included although --config names another, and
\* the file --config names has known keys only.
OnlyValidFiles ==
  pc = "running" =>
    /\ \A path \in Found \cup Chosen :
         fs[path].loads = "yes" /\ fs[path].Version \in cfgFileVersions
    /\ flags.config => fs[userPath].keys \subseteq validConfigArray

\* The sizes the pipeline is built on: a batch is never larger than the pool,
\* so a complete batch can be collected, and there are buffers and workers.
\* These are Daemon's SizingAssumption and the assumptions on its constants.
\* Only a file whose Concurrency is negative, which nothing refuses, leaves the
\* daemon without a worker.
SizedForPipeline ==
  pc = "running" =>
    /\ buffers > 0
    /\ batchSize \in 1 .. buffers
    /\ batchSize <= BatchSize
    /\ config.Concurrency > 0 \/ \E path \in Chosen : fs[path].Concurrency < 0

\* A daemon runs only with a region, and takes it from the first source that
\* has one: flag or file, AWS_REGION, then ECS and EC2 metadata, or in local
\* mode the SDK's configuration instead of metadata.
RegionFromFirstSource ==
  LET sources == IF global.LocalMode
                   THEN <<global.Region, machine.AWS_REGION, machine.defaultRegion>>
                   ELSE <<global.Region, machine.AWS_REGION, machine.ecs, machine.ec2>>
  IN  pc = "running" =>
        \E i \in DOMAIN sources : /\ awsRegion = sources[i] /\ sources[i] # none
                                  /\ \A j \in 1 .. i - 1 : sources[j] = none

\* Uploads go through the proxy that the command line names, else the chosen
\* file, else HTTPS_PROXY, and never through one that only a file in a default
\* location names when --config is given, although that address has been in
\* the variable behind the flag.
ProxyFromFirstSource ==
  LET inFile == {fs[path].ProxyAddress : path \in Chosen} \ {none}
  IN  pc = "running" =>
        proxyURL = IF flags.ProxyAddress \notin {unset, none} THEN flags.ProxyAddress
                   ELSE IF flags.ProxyAddress = unset /\ inFile # {} THEN CHOOSE v \in inFile : TRUE
                   ELSE machine.HTTPS_PROXY

\* "Don't check for EC2 instance metadata.": in local mode neither the region
\* nor the labels of telemetry are asked for, whatever the environment lacks.
LocalModeAsksNothing == global.LocalMode /\ pc = "running" => asked = {}
=============================================================================
