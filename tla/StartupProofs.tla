---------------------------- MODULE StartupProofs ----------------------------
(***************************************************************************)
(* Proofs about Startup, for all files, command lines and machines: what   *)
(* each place in init and initDaemon may rely on, and from it the          *)
(* properties of a running daemon.                                         *)
(***************************************************************************)
EXTENDS Startup, TLAPS

\* The configuration read from the paths of S, at most one.
ConfigFrom(S) == IF S = {} THEN DefaultConfig ELSE merge(fs[CHOOSE path \in S : TRUE])

\* The paths of S were read without an error.
ReadOK(S) == \A path \in S : ~FileFails(path)

FlagNames == {"TotalBufferSizeMB", "Region", "LocalMode", "ProxyAddress"}

\* The variables behind the flags, with and without the command line.
Defaults(S) == [k \in FlagNames |-> ConfigFrom(S)[k]]
Given(S) == [k \in FlagNames |-> IF flags[k] = unset THEN ConfigFrom(S)[k] ELSE flags[k]]

Validated == userPath \in DOMAIN fs /\ ~ConfigInvalid(fs[userPath])

InputsOK ==
  /\ \E there \in SUBSET Paths : fs \in [there -> Files]
  /\ flags \in Flags
  /\ machine \in Machines

\* The places from one on.
FromTelemetry == {"telemetry", "start", "running"}
FromRegion == {"region"} \cup FromTelemetry
FromBind == {"bind", "memory"} \cup FromRegion

\* What init has done at each of its places.
InitInv ==
  /\ DOMAIN global = FlagNames
  /\ pc \in {"init", "parse", "validate", "again", "parseAgain", "version", "exit"} \cup FromBind
  /\ pc \notin {"init", "exit"} => ReadOK(Found)
  /\ pc = "parse" => global = Defaults(Found) /\ config = ConfigFrom(Found)
  /\ pc \in {"validate", "again", "parseAgain"} => flags.config
  /\ pc \in {"again", "parseAgain"} => Validated
  /\ pc = "parseAgain" => /\ ReadOK({userPath})
                          /\ global = Defaults({userPath})
                          /\ config = ConfigFrom({userPath})
  /\ pc = "version" => config = ConfigFrom(Chosen)
  /\ pc \in {"version"} \cup FromBind => /\ ReadOK(Chosen)
                                         /\ flags.config => Validated
                                         /\ global = Given(Chosen)

\* And initDaemon.
DaemonStartInv ==
  /\ pc \in FromBind =>
       config = [ConfigFrom(Chosen) EXCEPT !.ProxyAddress = global.ProxyAddress]
  /\ pc \notin {"running", "exit"} => batchSize = BatchSize
  /\ pc \in FromRegion =>
       /\ bufferMemoryMB >= 3
       /\ buffers = GetPoolBufferCount(bufferMemoryMB, BufferSizeKB * 1024)
  /\ pc = "running" => batchSize = GetMinIntValue(BatchSize, buffers)
  /\ pc \in FromTelemetry =>
       /\ awsRegion = ResolvedRegion
       /\ awsRegion # none
       /\ proxyURL = getProxyAddress
  /\ pc \notin FromTelemetry \cup {"exit"} => asked = {}
  /\ pc # "exit" /\ global.LocalMode => asked = {}

StartupInv == InputsOK /\ InitInv /\ DaemonStartInv

\* The invariant holds in every state.
LEMMA InvInit == Init => StartupInv
<1>. SUFFICES ASSUME Init PROVE StartupInv
  OBVIOUS
<1>1. InputsOK
  BY DEF Init, InputsOK
<1>2. InitInv
  BY DEF Init, InitInv, FromBind, FromRegion, FromTelemetry, FlagNames
<1>3. DaemonStartInv
  BY DEF Init, DaemonStartInv, FromBind, FromRegion, FromTelemetry
<1>. QED
  BY <1>1, <1>2, <1>3 DEF StartupInv

\* What a step that leaves the inputs alone keeps.
LEMMA InputsKept ==
  ASSUME UNCHANGED inputs, InputsOK
  PROVE  /\ InputsOK'
         /\ Found' = Found /\ Chosen' = Chosen
         /\ \A S : ConfigFrom(S)' = ConfigFrom(S) /\ ReadOK(S)' = ReadOK(S)
                   /\ Defaults(S)' = Defaults(S) /\ Given(S)' = Given(S)
         /\ Validated' = Validated
  BY DEF inputs, InputsOK, Found, Chosen, ConfigFrom, ReadOK, FileFails, Defaults, Given, Validated,
         ConfigInvalid

\* What LoadConfig returns at its two calls, and what its success means.
LEMMA LoadFacts ==
  /\ LoadedConfig = ConfigFrom(ReadFrom)
  /\ LoadConfigFails <=> ~ReadOK(ReadFrom)
  /\ pc = "init" => ReadFrom = Found
  /\ pc = "again" => ReadFrom = {userPath}
  BY DEF LoadedConfig, ConfigFrom, LoadConfigFails, ReadOK, ReadFrom

\* Ending the process keeps the invariant.
LEMMA ExitInv == ASSUME StartupInv, Exit PROVE StartupInv'
<1>1. UNCHANGED inputs /\ InputsOK
  BY DEF Exit, StartupInv
<1>2. InputsOK'
  BY <1>1, InputsKept
<1>3. pc' = "exit" /\ UNCHANGED <<global, batchSize, asked>>
  BY DEF Exit, net
<1>4. InitInv'
  BY <1>3 DEF StartupInv, InitInv, FromBind, FromRegion, FromTelemetry
<1>5. DaemonStartInv'
  BY <1>3 DEF DaemonStartInv, FromBind, FromRegion, FromTelemetry

<1>. QED
  BY <1>2, <1>4, <1>5 DEF StartupInv

\* initCli, at both of its calls.
LEMMA initCliInv == ASSUME StartupInv, initCli PROVE StartupInv'
<1>1. CASE LoadConfigFails /\ Exit
  BY <1>1, ExitInv
<1>2. CASE ~LoadConfigFails /\ ~Exit
  <2>1. /\ config' = LoadedConfig
        /\ global' = [k \in DOMAIN global |-> LoadedConfig[k]]
        /\ pc' = IF pc = "init" THEN "parse" ELSE "parseAgain"
        /\ UNCHANGED <<inputs, buffers, batchSize, net>>
        /\ pc \in {"init", "again"}
    BY <1>2 DEF initCli
  <2>2. /\ InputsOK' /\ Found' = Found
        /\ \A S : ConfigFrom(S)' = ConfigFrom(S) /\ ReadOK(S)' = ReadOK(S)
                  /\ Defaults(S)' = Defaults(S)
        /\ Validated' = Validated
    BY <2>1, InputsKept DEF StartupInv
  <2>3. global' = Defaults(ReadFrom) /\ config' = ConfigFrom(ReadFrom) /\ ReadOK(ReadFrom)
    BY <1>2, <2>1, LoadFacts DEF Defaults, StartupInv, InitInv
  <2>4. DOMAIN global' = FlagNames
    BY <2>3 DEF Defaults
  <2>5. flags' = flags /\ asked' = asked
    BY <2>1 DEF inputs, net
  <2>6. CASE pc = "init"
    <3>1. InitInv'
      BY <2>1, <2>2, <2>3, <2>4, <2>5, <2>6, LoadFacts
         DEF InitInv, FromBind, FromRegion, FromTelemetry
    <3>2. DaemonStartInv'
      BY <2>1, <2>5, <2>6 DEF StartupInv, DaemonStartInv, FromBind, FromRegion, FromTelemetry
    <3>. QED
      BY <2>2, <3>1, <3>2 DEF StartupInv
  <2>7. CASE pc = "again"
    <3>1. InitInv'
      BY <2>1, <2>2, <2>3, <2>4, <2>5, <2>7, LoadFacts
         DEF StartupInv, InitInv, FromBind, FromRegion, FromTelemetry
    <3>2. DaemonStartInv'
      BY <2>1, <2>5, <2>7 DEF StartupInv, DaemonStartInv, FromBind, FromRegion, FromTelemetry
    <3>. QED
      BY <2>2, <3>1, <3>2 DEF StartupInv
  <2>. QED
    BY <2>1, <2>6, <2>7
<1>. QED
  BY <1>1, <1>2, ExitInv DEF initCli

\* The places of init after which the flags, or the keys, were looked at.
LEMMA ParseFlagsInv == ASSUME StartupInv, ParseFlags PROVE StartupInv'
<1>1. /\ UNCHANGED <<inputs, config, batchSize, asked, buffers>>
      /\ pc \in {"parse", "parseAgain"}
      /\ global' = [k \in DOMAIN global |-> IF flags[k] = unset THEN global[k] ELSE flags[k]]
      /\ pc' = IF pc = "parse" /\ flags.config THEN "validate" ELSE "version"
  BY DEF ParseFlags, Parsed, net
<1>2. /\ InputsOK' /\ Found' = Found /\ Chosen' = Chosen
      /\ \A S : ConfigFrom(S)' = ConfigFrom(S) /\ ReadOK(S)' = ReadOK(S)
                /\ Given(S)' = Given(S)
      /\ Validated' = Validated
  BY <1>1, InputsKept DEF StartupInv
<1>3. flags' = flags
  BY <1>1 DEF inputs
<1>4. DOMAIN global = FlagNames /\ DOMAIN global' = FlagNames
  BY <1>1 DEF StartupInv, InitInv
<1>5. pc = "parse" => global' = Given(Found)
  BY <1>1, <1>4 DEF StartupInv, InitInv, Defaults, Given
<1>6. pc = "parseAgain" => global' = Given({userPath})
  BY <1>1, <1>4 DEF StartupInv, InitInv, Defaults, Given
<1>7. Chosen = IF flags.config THEN {userPath} ELSE Found
  BY DEF Chosen
<1>8. InitInv'
  BY <1>1, <1>2, <1>3, <1>4, <1>5, <1>6, <1>7
     DEF StartupInv, InitInv, FromBind, FromRegion, FromTelemetry
<1>9. DaemonStartInv'
  BY <1>1 DEF StartupInv, DaemonStartInv, FromBind, FromRegion, FromTelemetry
<1>. QED
  BY <1>2, <1>8, <1>9 DEF StartupInv

\* ConfigValidation lets only a file with known keys pass.
LEMMA ConfigValidationInv == ASSUME StartupInv, ConfigValidation PROVE StartupInv'
<1>1. CASE ValidationFails /\ Exit
  BY <1>1, ExitInv
<1>2. CASE ~ValidationFails
  <2>1. /\ UNCHANGED <<inputs, config, global, buffers, batchSize, asked>>
        /\ pc = "validate" /\ pc' = "again"
    BY <1>2 DEF ConfigValidation, net
  <2>2. /\ InputsOK' /\ Found' = Found
        /\ \A S : ReadOK(S)' = ReadOK(S)
        /\ Validated' = Validated /\ flags' = flags
    BY <2>1, InputsKept DEF StartupInv, inputs
  <2>3. Validated
    BY <1>2 DEF ValidationFails, Validated
  <2>4. InitInv'
    BY <2>1, <2>2, <2>3 DEF StartupInv, InitInv, FromBind, FromRegion, FromTelemetry
  <2>5. DaemonStartInv'
    BY <2>1 DEF StartupInv, DaemonStartInv, FromBind, FromRegion, FromTelemetry
  <2>. QED
    BY <2>2, <2>4, <2>5 DEF StartupInv
<1>. QED
  BY <1>1, <1>2 DEF ConfigValidation

\* After init a step that changes neither inputs nor flags keeps what init did.
LEMMA InitKept ==
  ASSUME StartupInv, UNCHANGED <<inputs, global>>,
         pc \in {"version"} \cup FromBind, pc' \in FromBind \cup {"exit"}
  PROVE  /\ InputsOK' /\ InitInv'
         /\ ConfigFrom(Chosen)' = ConfigFrom(Chosen)
         /\ bufferMemoryMB' = bufferMemoryMB
         /\ ResolvedRegion' = ResolvedRegion
<1>1. /\ InputsOK' /\ Found' = Found /\ Chosen' = Chosen
      /\ \A S : ConfigFrom(S)' = ConfigFrom(S) /\ ReadOK(S)' = ReadOK(S)
                /\ Given(S)' = Given(S)
      /\ Validated' = Validated /\ flags' = flags /\ machine' = machine
  BY InputsKept DEF StartupInv, inputs
<1>2. InitInv'
  BY <1>1 DEF StartupInv, InitInv, FromBind, FromRegion, FromTelemetry
<1>3. ConfigFrom(Chosen)' = ConfigFrom(Chosen)
  BY <1>1 DEF ConfigFrom
<1>4. bufferMemoryMB' = bufferMemoryMB /\ ResolvedRegion' = ResolvedRegion
  BY <1>1 DEF bufferMemoryMB, ResolvedRegion
<1>. QED
  BY <1>1, <1>2, <1>3, <1>4

\* The end of init.
LEMMA ShowVersionInv == ASSUME StartupInv, ShowVersion PROVE StartupInv'
<1>1. /\ UNCHANGED <<inputs, global, batchSize, asked>>
      /\ pc = "version" /\ pc' \in {"bind", "exit"}
      /\ config' = [config EXCEPT !.ProxyAddress = global.ProxyAddress]
  BY DEF ShowVersion, net
<1>2. /\ InputsOK' /\ InitInv'
      /\ ConfigFrom(Chosen)' = ConfigFrom(Chosen)
  BY <1>1, InitKept DEF FromBind
<1>3. config = ConfigFrom(Chosen)
  BY <1>1 DEF StartupInv, InitInv
<1>4. DaemonStartInv'
  BY <1>1, <1>2, <1>3 DEF StartupInv, DaemonStartInv, FromBind, FromRegion, FromTelemetry
<1>. QED
  BY <1>2, <1>4 DEF StartupInv

\* The socket.
LEMMA BindSocketInv == ASSUME StartupInv, BindSocket PROVE StartupInv'
<1>1. /\ UNCHANGED <<inputs, config, global, batchSize, asked>>
      /\ pc = "bind" /\ pc' \in {"memory", "exit"}
  BY DEF BindSocket, net
<1>2. /\ InputsOK' /\ InitInv'
      /\ ConfigFrom(Chosen)' = ConfigFrom(Chosen)
  BY <1>1, InitKept DEF FromBind
<1>3. DaemonStartInv'
  BY <1>1, <1>2 DEF StartupInv, DaemonStartInv, FromBind, FromRegion, FromTelemetry
<1>. QED
  BY <1>2, <1>3 DEF StartupInv

\* The buffers.
LEMMA AllocateBuffersInv == ASSUME StartupInv, AllocateBuffers PROVE StartupInv'
<1>1. CASE Exit
  BY <1>1, ExitInv
<1>2. CASE ~Exit
  <2>1. /\ UNCHANGED <<inputs, config, global, batchSize, asked>>
        /\ pc = "memory" /\ pc' = "region"
        /\ buffers' = GetPoolBufferCount(bufferMemoryMB, BufferSizeKB * 1024)
        /\ bufferMemoryMB >= 3
    BY <1>2 DEF AllocateBuffers, net
  <2>2. /\ InputsOK' /\ InitInv'
        /\ ConfigFrom(Chosen)' = ConfigFrom(Chosen)
        /\ bufferMemoryMB' = bufferMemoryMB
    BY <2>1, InitKept DEF FromBind, FromRegion
  <2>3. GetPoolBufferCount(bufferMemoryMB, BufferSizeKB * 1024)'
          = GetPoolBufferCount(bufferMemoryMB, BufferSizeKB * 1024)
    BY <2>2 DEF GetPoolBufferCount
  <2>4. DaemonStartInv'
    BY <1>2, <2>1, <2>2, <2>3
       DEF StartupInv, DaemonStartInv, FromBind, FromRegion, FromTelemetry
  <2>. QED
    BY <2>2, <2>4 DEF StartupInv
<1>. QED
  BY <1>1, <1>2

\* What the steps after AllocateBuffers leave alone.
LEMMA BuffersKept ==
  ASSUME StartupInv, UNCHANGED <<inputs, config, global, buffers>>,
         pc \in FromRegion, pc' \in FromRegion
  PROVE  /\ InputsOK' /\ InitInv'
         /\ config' = [ConfigFrom(Chosen)' EXCEPT !.ProxyAddress = global'.ProxyAddress]
         /\ bufferMemoryMB' >= 3
         /\ buffers' = GetPoolBufferCount(bufferMemoryMB, BufferSizeKB * 1024)'
<1>1. /\ InputsOK' /\ InitInv'
      /\ ConfigFrom(Chosen)' = ConfigFrom(Chosen)
      /\ bufferMemoryMB' = bufferMemoryMB
  BY InitKept DEF FromBind
<1>2. GetPoolBufferCount(bufferMemoryMB, BufferSizeKB * 1024)'
        = GetPoolBufferCount(bufferMemoryMB, BufferSizeKB * 1024)
  BY <1>1 DEF GetPoolBufferCount
<1>. QED
  BY <1>1, <1>2 DEF StartupInv, DaemonStartInv, FromBind

\* The region and the proxy.
LEMMA GetAWSConfigInv == ASSUME StartupInv, GetAWSConfig PROVE StartupInv'
<1>1. CASE Exit
  BY <1>1, ExitInv
<1>2. CASE ~Exit
  <2>1. /\ UNCHANGED <<inputs, config, global, buffers, batchSize>>
        /\ pc = "region" /\ pc' = "telemetry"
        /\ proxyURL' = getProxyAddress
        /\ awsRegion' = ResolvedRegion /\ ResolvedRegion # none
        /\ asked' = IF AsksForRegion THEN asked \cup {"region"} ELSE asked
    BY <1>2 DEF GetAWSConfig
  <2>2. /\ InputsOK' /\ InitInv'
        /\ config' = [ConfigFrom(Chosen)' EXCEPT !.ProxyAddress = global'.ProxyAddress]
        /\ bufferMemoryMB' >= 3
        /\ buffers' = GetPoolBufferCount(bufferMemoryMB, BufferSizeKB * 1024)'
    BY <2>1, BuffersKept DEF FromRegion, FromTelemetry
  <2>3. ResolvedRegion' = ResolvedRegion /\ getProxyAddress' = getProxyAddress
    BY <2>1 DEF ResolvedRegion, getProxyAddress, inputs
  <2>4. global.LocalMode => asked' = {}
    BY <2>1 DEF AsksForRegion, StartupInv, DaemonStartInv
  <2>5. DaemonStartInv'
    BY <2>1, <2>2, <2>3, <2>4
       DEF StartupInv, DaemonStartInv, FromBind, FromRegion, FromTelemetry
  <2>. QED
    BY <2>2, <2>5 DEF StartupInv
<1>. QED
  BY <1>1, <1>2

\* The labels of telemetry.
LEMMA newTInv == ASSUME StartupInv, newT PROVE StartupInv'
<1>1. /\ UNCHANGED <<inputs, config, global, buffers, batchSize, awsRegion, proxyURL>>
      /\ pc = "telemetry" /\ pc' = "start"
      /\ global.LocalMode => asked' = asked
  BY DEF newT, AsksFor
<1>2. /\ InputsOK' /\ InitInv'
      /\ config' = [ConfigFrom(Chosen)' EXCEPT !.ProxyAddress = global'.ProxyAddress]
      /\ bufferMemoryMB' >= 3
      /\ buffers' = GetPoolBufferCount(bufferMemoryMB, BufferSizeKB * 1024)'
  BY <1>1, BuffersKept DEF FromRegion, FromTelemetry
<1>3. ResolvedRegion' = ResolvedRegion /\ getProxyAddress' = getProxyAddress
  BY <1>1 DEF ResolvedRegion, getProxyAddress, inputs
<1>4. DaemonStartInv'
  BY <1>1, <1>2, <1>3 DEF StartupInv, DaemonStartInv, FromBind, FromRegion, FromTelemetry
<1>. QED
  BY <1>2, <1>4 DEF StartupInv

\* The batch size, and the goroutines.
LEMMA StartDaemonInv == ASSUME StartupInv, StartDaemon PROVE StartupInv'
<1>1. /\ UNCHANGED <<inputs, config, global, buffers, net>>
      /\ UNCHANGED <<awsRegion, proxyURL, asked>>
      /\ pc = "start" /\ pc' \in {"running", "exit"}
      /\ batchSize' = GetMinIntValue(batchSize, buffers)
  BY DEF StartDaemon, net
<1>2. CASE pc' = "running"
  <2>1. /\ InputsOK' /\ InitInv'
        /\ config' = [ConfigFrom(Chosen)' EXCEPT !.ProxyAddress = global'.ProxyAddress]
        /\ bufferMemoryMB' >= 3
        /\ buffers' = GetPoolBufferCount(bufferMemoryMB, BufferSizeKB * 1024)'
    BY <1>1, <1>2, BuffersKept DEF FromRegion, FromTelemetry
  <2>2. ResolvedRegion' = ResolvedRegion /\ getProxyAddress' = getProxyAddress
    BY <1>1 DEF ResolvedRegion, getProxyAddress, inputs
  <2>3. batchSize' = GetMinIntValue(BatchSize, buffers')
    BY <1>1 DEF StartupInv, DaemonStartInv
  <2>4. DaemonStartInv'
    BY <1>1, <1>2, <2>1, <2>2, <2>3
       DEF StartupInv, DaemonStartInv, FromBind, FromRegion, FromTelemetry
  <2>. QED
    BY <2>1, <2>4 DEF StartupInv
<1>3. CASE pc' = "exit"
  <2>1. InputsOK' /\ InitInv'
    BY <1>1, <1>3, InitKept DEF FromBind, FromRegion, FromTelemetry
  <2>2. DaemonStartInv'
    BY <1>1, <1>3 DEF StartupInv, DaemonStartInv, FromBind, FromRegion, FromTelemetry
  <2>. QED
    BY <2>1, <2>2 DEF StartupInv
<1>. QED
  BY <1>1, <1>2, <1>3

\* A step that changes nothing.
LEMMA StutterInv == ASSUME StartupInv, UNCHANGED vars PROVE StartupInv'
<1>1. /\ UNCHANGED <<inputs, config, global, buffers, batchSize, pc, flags, machine>>
      /\ UNCHANGED <<awsRegion, proxyURL, asked>>
  BY DEF vars, inputs, net
<1>2. /\ InputsOK' /\ Found' = Found /\ Chosen' = Chosen
      /\ \A S : ConfigFrom(S)' = ConfigFrom(S) /\ ReadOK(S)' = ReadOK(S)
                /\ Defaults(S)' = Defaults(S) /\ Given(S)' = Given(S)
      /\ Validated' = Validated
  BY <1>1, InputsKept DEF StartupInv
<1>3. InitInv'
  BY <1>1, <1>2 DEF StartupInv, InitInv
<1>4. /\ ConfigFrom(Chosen)' = ConfigFrom(Chosen)
      /\ bufferMemoryMB' = bufferMemoryMB
      /\ ResolvedRegion' = ResolvedRegion
      /\ getProxyAddress' = getProxyAddress
  BY <1>1, <1>2 DEF ConfigFrom, bufferMemoryMB, ResolvedRegion, getProxyAddress
<1>5. /\ GetPoolBufferCount(bufferMemoryMB, BufferSizeKB * 1024)'
           = GetPoolBufferCount(bufferMemoryMB, BufferSizeKB * 1024)
      /\ GetMinIntValue(BatchSize, buffers)' = GetMinIntValue(BatchSize, buffers)
  BY <1>1, <1>4 DEF GetPoolBufferCount, GetMinIntValue
<1>6. DaemonStartInv'
  BY <1>1, <1>4, <1>5 DEF StartupInv, DaemonStartInv, FromBind, FromRegion, FromTelemetry
<1>. QED
  BY <1>2, <1>3, <1>6 DEF StartupInv

\* In every state, whatever files, flags and machine: the places of init and
\* initDaemon and what they have established by then.
THEOREM StartupInvariant == Spec => []StartupInv
<1>1. Init => StartupInv
  BY InvInit
<1>2. StartupInv /\ [Next]_vars => StartupInv'
  BY initCliInv, ParseFlagsInv, ConfigValidationInv, ShowVersionInv, BindSocketInv,
     AllocateBuffersInv, GetAWSConfigInv, newTInv, StartDaemonInv, StutterInv
     DEF Next, Ended
<1>. QED
  BY <1>1, <1>2, PTL DEF Spec

\* For a running daemon the chosen file is one file with a value for every
\* setting, or none.
LEMMA ChosenFile ==
  ASSUME StartupInv, pc = "running"
  PROVE  /\ global = Given(Chosen)
         /\ \/ Chosen = {} /\ ConfigFrom(Chosen) = DefaultConfig
            \/ \E path : /\ Chosen = {path}
                         /\ fs[path] \in Files
                         /\ ConfigFrom(Chosen) = merge(fs[path])
<1>1. global = Given(Chosen) /\ ReadOK(Chosen)
  BY DEF StartupInv, InitInv, FromBind, FromRegion, FromTelemetry
<1>2. Chosen = {} \/ \E path : Chosen = {path}
  <2>1. Found = {} \/ \E path : Found = {path}
    BY DEF Found
  <2>. QED
    BY <2>1 DEF Chosen
<1>3. CASE Chosen = {}
  BY <1>1, <1>3 DEF ConfigFrom
<1>4. ASSUME NEW path, Chosen = {path}
      PROVE  fs[path] \in Files /\ ConfigFrom(Chosen) = merge(fs[path])
  <2>1. path \in DOMAIN fs
    BY <1>1, <1>4 DEF ReadOK, FileFails
  <2>2. fs[path] \in Files
    BY <2>1 DEF StartupInv, InputsOK
  <2>3. (CHOOSE p \in Chosen : TRUE) = path
    BY <1>4
  <2>. QED
    BY <1>4, <2>2, <2>3 DEF ConfigFrom
<1>. QED
  BY <1>1, <1>2, <1>3, <1>4

\* PrecedenceKept, for every configuration, command line and machine.
THEOREM PrecedenceTheorem == Spec => []PrecedenceKept
<1>1. StartupInv => PrecedenceKept
  <2>. SUFFICES ASSUME StartupInv, pc = "running",
                       NEW k \in {"TotalBufferSizeMB", "Region", "LocalMode", "ProxyAddress"}
       PROVE LET blank == CASE k = "TotalBufferSizeMB" -> 0 [] k = "LocalMode" -> unset [] OTHER -> none
                 given == {fs[path][k] : path \in Chosen} \ {blank}
             IN  global[k] = IF flags[k] # unset THEN flags[k]
                             ELSE IF given # {} THEN CHOOSE v \in given : TRUE
                             ELSE DefaultConfig[k]
    BY DEF PrecedenceKept
  <2>. DEFINE blank == IF k = "TotalBufferSizeMB" THEN 0 ELSE IF k = "LocalMode" THEN unset ELSE none
              given == {fs[path][k] : path \in Chosen} \ {blank}
  <2>1. global[k] = IF flags[k] = unset THEN ConfigFrom(Chosen)[k] ELSE flags[k]
    BY ChosenFile DEF Given, FlagNames
  <2>2. ConfigFrom(Chosen)[k] = IF given # {} THEN CHOOSE v \in given : TRUE ELSE DefaultConfig[k]
    <3>1. CASE Chosen = {} /\ ConfigFrom(Chosen) = DefaultConfig
      BY <3>1
    <3>2. ASSUME NEW path, Chosen = {path}, ConfigFrom(Chosen) = merge(fs[path])
          PROVE  ConfigFrom(Chosen)[k]
                   = IF given # {} THEN CHOOSE v \in given : TRUE ELSE DefaultConfig[k]
      <4>1. given = {fs[path][k]} \ {blank}
        BY <3>2
      <4>2. merge(fs[path])[k] = IF fs[path][k] = blank THEN DefaultConfig[k] ELSE fs[path][k]
        <5>1. CASE k = "TotalBufferSizeMB"
          BY <5>1 DEF merge, getIntValue
        <5>2. CASE k = "Region"
          BY <5>2 DEF merge, getStringValue
        <5>3. CASE k = "LocalMode"
          BY <5>3 DEF merge, getBoolValue
        <5>4. CASE k = "ProxyAddress"
          BY <5>4 DEF merge, getStringValue
        <5>. QED
          BY <5>1, <5>2, <5>3, <5>4
      <4>3. CASE fs[path][k] = blank
        BY <3>2, <4>1, <4>2, <4>3
      <4>4. CASE fs[path][k] # blank
        <5>1. given = {fs[path][k]}
          BY <4>1, <4>4
        <5>2. (CHOOSE v \in given : TRUE) = fs[path][k]
          BY <5>1
        <5>. QED
          BY <3>2, <4>2, <4>4, <5>1, <5>2
      <4>. QED
        BY <4>3, <4>4
    <3>. QED
      BY <3>1, <3>2, ChosenFile
  <2>3. blank = CASE k = "TotalBufferSizeMB" -> 0 [] k = "LocalMode" -> unset [] OTHER -> none
    OBVIOUS
  <2>. QED
    BY <2>1, <2>2, <2>3
<1>. QED
  BY <1>1, StartupInvariant, PTL

\* OnlyValidFiles.
THEOREM OnlyValidFilesTheorem == Spec => []OnlyValidFiles
<1>1. StartupInv => OnlyValidFiles
  <2>. SUFFICES ASSUME StartupInv, pc = "running" PROVE OnlyValidFiles
    BY DEF OnlyValidFiles
  <2>1. ReadOK(Found) /\ ReadOK(Chosen) /\ (flags.config => Validated)
    BY DEF StartupInv, InitInv, FromBind, FromRegion, FromTelemetry
  <2>2. Validated => fs[userPath].keys \subseteq validConfigArray
    BY DEF Validated, ConfigInvalid
  <2>. QED
    BY <2>1, <2>2 DEF OnlyValidFiles, ReadOK, FileFails
<1>. QED
  BY <1>1, StartupInvariant, PTL

\* RegionFromFirstSource.
THEOREM RegionTheorem == Spec => []RegionFromFirstSource
<1>1. StartupInv => RegionFromFirstSource
  <2>. SUFFICES ASSUME StartupInv, pc = "running" PROVE RegionFromFirstSource
    BY DEF RegionFromFirstSource
  <2>1. awsRegion = ResolvedRegion /\ awsRegion # none
    BY DEF StartupInv, DaemonStartInv, FromTelemetry
  <2>2. CASE global.LocalMode
    <3>. DEFINE s == <<global.Region, machine.AWS_REGION, machine.defaultRegion>>
    <3>1. /\ DOMAIN s = 1 .. 3
          /\ s[1] = global.Region
          /\ s[2] = machine.AWS_REGION
          /\ s[3] = machine.defaultRegion
      OBVIOUS
    <3>. HIDE DEF s
    <3>2. \E i \in 1 .. 3 : /\ awsRegion = s[i] /\ s[i] # none
                            /\ \A j \in 1 .. i - 1 : s[j] = none
      <4>1. CASE global.Region # none
        <5>1. awsRegion = s[1] /\ s[1] # none
          BY <2>1, <3>1, <2>2, <4>1 DEF ResolvedRegion
        <5>2. \A j \in 1 .. 1 - 1 : s[j] = none
          BY <3>1, <4>1
        <5>. QED
          BY <5>1, <5>2
      <4>2. CASE global.Region = none /\ machine.AWS_REGION # none
        <5>1. awsRegion = s[2] /\ s[2] # none
          BY <2>1, <3>1, <2>2, <4>2 DEF ResolvedRegion
        <5>2. \A j \in 1 .. 2 - 1 : s[j] = none
          BY <3>1, <4>2
        <5>. QED
          BY <5>1, <5>2
      <4>3. CASE global.Region = none /\ machine.AWS_REGION = none
        <5>1. awsRegion = s[3] /\ s[3] # none
          BY <2>1, <3>1, <2>2, <4>3 DEF ResolvedRegion
        <5>2. \A j \in 1 .. 3 - 1 : s[j] = none
          BY <3>1, <4>3
        <5>. QED
          BY <5>1, <5>2
      <4>. QED
        BY <4>1, <4>2, <4>3
    <3>. QED
      BY <2>2, <3>1, <3>2 DEF RegionFromFirstSource, s
  <2>3. CASE ~global.LocalMode
    <3>. DEFINE s == <<global.Region, machine.AWS_REGION, machine.ecs, machine.ec2>>
    <3>1. /\ DOMAIN s = 1 .. 4
          /\ s[1] = global.Region
          /\ s[2] = machine.AWS_REGION
          /\ s[3] = machine.ecs
          /\ s[4] = machine.ec2
      OBVIOUS
    <3>. HIDE DEF s
    <3>2. \E i \in 1 .. 4 : /\ awsRegion = s[i] /\ s[i] # none
                            /\ \A j \in 1 .. i - 1 : s[j] = none
      <4>1. CASE global.Region # none
        <5>1. awsRegion = s[1] /\ s[1] # none
          BY <2>1, <3>1, <2>3, <4>1 DEF ResolvedRegion
        <5>2. \A j \in 1 .. 1 - 1 : s[j] = none
          BY <3>1, <4>1
        <5>. QED
          BY <5>1, <5>2
      <4>2. CASE global.Region = none /\ machine.AWS_REGION # none
        <5>1. awsRegion = s[2] /\ s[2] # none
          BY <2>1, <3>1, <2>3, <4>2 DEF ResolvedRegion
        <5>2. \A j \in 1 .. 2 - 1 : s[j] = none
          BY <3>1, <4>2
        <5>. QED
          BY <5>1, <5>2
      <4>3. CASE global.Region = none /\ machine.AWS_REGION = none /\ machine.ecs # none
        <5>1. awsRegion = s[3] /\ s[3] # none
          BY <2>1, <3>1, <2>3, <4>3 DEF ResolvedRegion
        <5>2. \A j \in 1 .. 3 - 1 : s[j] = none
          BY <3>1, <4>3
        <5>. QED
          BY <5>1, <5>2
      <4>4. CASE global.Region = none /\ machine.AWS_REGION = none /\ machine.ecs = none
        <5>1. awsRegion = s[4] /\ s[4] # none
          BY <2>1, <3>1, <2>3, <4>4 DEF ResolvedRegion
        <5>2. \A j \in 1 .. 4 - 1 : s[j] = none
          BY <3>1, <4>4
        <5>. QED
          BY <5>1, <5>2
      <4>. QED
        BY <4>1, <4>2, <4>3, <4>4
    <3>. QED
      BY <2>3, <3>1, <3>2 DEF RegionFromFirstSource, s
  <2>. QED
    BY <2>2, <2>3
<1>. QED
  BY <1>1, StartupInvariant, PTL

\* LocalModeAsksNothing.
THEOREM LocalModeTheorem == Spec => []LocalModeAsksNothing
<1>1. StartupInv => LocalModeAsksNothing
  BY DEF StartupInv, DaemonStartInv, LocalModeAsksNothing
<1>. QED
  BY <1>1, StartupInvariant, PTL

\* ProxyFromFirstSource.
THEOREM ProxyTheorem == Spec => []ProxyFromFirstSource
<1>1. StartupInv => ProxyFromFirstSource
  <2>. SUFFICES ASSUME StartupInv, pc = "running" PROVE ProxyFromFirstSource
    BY DEF ProxyFromFirstSource
  <2>. DEFINE inFile == {fs[path].ProxyAddress : path \in Chosen} \ {none}
  <2>1. /\ config = [ConfigFrom(Chosen) EXCEPT !.ProxyAddress = global.ProxyAddress]
        /\ proxyURL = getProxyAddress
    BY DEF StartupInv, DaemonStartInv, FromBind, FromRegion, FromTelemetry
  <2>2. global.ProxyAddress =
          IF flags.ProxyAddress = unset THEN ConfigFrom(Chosen).ProxyAddress ELSE flags.ProxyAddress
    BY ChosenFile DEF Given, FlagNames
  <2>3. /\ "ProxyAddress" \in DOMAIN ConfigFrom(Chosen)
        /\ ConfigFrom(Chosen).ProxyAddress = IF inFile # {} THEN CHOOSE v \in inFile : TRUE ELSE none
    <3>1. CASE Chosen = {} /\ ConfigFrom(Chosen) = DefaultConfig
      <4>1. inFile = {}
        BY <3>1
      <4>. QED
        BY <3>1, <4>1 DEF DefaultConfig
    <3>2. ASSUME NEW path, Chosen = {path}, ConfigFrom(Chosen) = merge(fs[path])
          PROVE  /\ "ProxyAddress" \in DOMAIN ConfigFrom(Chosen)
                 /\ ConfigFrom(Chosen).ProxyAddress
                      = IF inFile # {} THEN CHOOSE v \in inFile : TRUE ELSE none
      <4>1. inFile = {fs[path].ProxyAddress} \ {none}
        BY <3>2
      <4>2. merge(fs[path]).ProxyAddress = fs[path].ProxyAddress
        BY DEF merge, getStringValue, DefaultConfig
      <4>3. "ProxyAddress" \in DOMAIN merge(fs[path])
        BY DEF merge
      <4>4. CASE fs[path].ProxyAddress = none
        BY <3>2, <4>1, <4>2, <4>3, <4>4
      <4>5. CASE fs[path].ProxyAddress # none
        <5>1. inFile = {fs[path].ProxyAddress}
          BY <4>1, <4>5
        <5>. QED
          BY <3>2, <4>2, <4>3, <5>1
      <4>. QED
        BY <4>4, <4>5
    <3>. QED
      BY <3>1, <3>2, ChosenFile
  <2>4. config.ProxyAddress = global.ProxyAddress
    BY <2>1, <2>3
  <2>5. CASE inFile = {}
    BY <2>1, <2>2, <2>3, <2>4, <2>5 DEF ProxyFromFirstSource, getProxyAddress
  <2>6. CASE inFile # {}
    <3>1. (CHOOSE v \in inFile : TRUE) # none
      BY <2>6
    <3>. QED
      BY <2>1, <2>2, <2>3, <2>4, <2>6, <3>1 DEF ProxyFromFirstSource, getProxyAddress
  <2>. QED
    BY <2>5, <2>6
<1>. QED
  BY <1>1, StartupInvariant, PTL

\* The sizes of a running daemon fit the pipeline: a batch fits into the pool,
\* and without a negative number in the chosen file there are workers.
THEOREM SizingTheorem == Spec => []SizedForPipeline
<1>1. StartupInv => SizedForPipeline
  <2>. SUFFICES ASSUME StartupInv, pc = "running" PROVE SizedForPipeline
    BY DEF SizedForPipeline
  <2>1. /\ bufferMemoryMB >= 3
        /\ buffers = GetPoolBufferCount(bufferMemoryMB, BufferSizeKB * 1024)
        /\ batchSize = GetMinIntValue(BatchSize, buffers)
        /\ config = [ConfigFrom(Chosen) EXCEPT !.ProxyAddress = global.ProxyAddress]
    BY DEF StartupInv, DaemonStartInv, FromBind, FromRegion, FromTelemetry
  <2>2. /\ ConfigFrom(Chosen).Concurrency > 0 \/ \E path \in Chosen : fs[path].Concurrency < 0
        /\ ConfigFrom(Chosen).TotalBufferSizeMB \in Int
    <3>1. ASSUME NEW path, fs[path] \in Files
          PROVE  /\ merge(fs[path]).Concurrency > 0 \/ fs[path].Concurrency < 0
                 /\ merge(fs[path]).TotalBufferSizeMB \in Int
      BY <3>1, FilesAssumption DEF merge, getIntValue, DefaultConfig
    <3>2. DefaultConfig.Concurrency > 0 /\ DefaultConfig.TotalBufferSizeMB \in Int
      BY DEF DefaultConfig
    <3>. QED
      BY <3>1, <3>2, ChosenFile
  <2>3. config.Concurrency = ConfigFrom(Chosen).Concurrency
    BY <2>1
  <2>4. bufferMemoryMB \in Int
    <3>1. global.TotalBufferSizeMB \in Int
      BY <2>2, ChosenFile, FlagsAssumption DEF Given, FlagNames, StartupInv, InputsOK
    <3>2. machine.totalMB \in Nat
      BY MachinesAssumption DEF StartupInv, InputsOK
    <3>. QED
      BY <3>1, <3>2 DEF bufferMemoryMB
  <2>5. buffers \in Int /\ buffers >= 48
    <3>. DEFINE m == bufferMemoryMB
    <3>1. buffers = (m * 1024 * 1024) \div (64 * 1024)
      BY <2>1 DEF GetPoolBufferCount, BufferSizeKB
    <3>2. m * 1024 * 1024 = (16 * m) * 65536
      BY <2>4
    <3>3. ((16 * m) * 65536) \div 65536 = 16 * m
      BY <2>4, Z3
    <3>. QED
      BY <2>1, <2>4, <3>1, <3>2, <3>3
  <2>. QED
    BY <2>1, <2>2, <2>3, <2>5 DEF SizedForPipeline, GetMinIntValue, BatchSize
<1>. QED
  BY <1>1, StartupInvariant, PTL
=============================================================================
