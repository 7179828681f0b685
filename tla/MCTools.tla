------------------------------ MODULE MCTools -------------------------------
(***************************************************************************)
(* The modules of what devil does to a device, of what catapult and devil  *)
(* do on the host, and of systrace with its agents, composed for TLC. A    *)
(* behaviour belongs to one of the components: the lock of the downloads   *)
(* keeps its own variables, every other component keeps its in the         *)
(* registers. Each module is instantiated with the registers for its       *)
(* variables and with small values for its constants, and a run names the  *)
(* components it explores. Other is FALSE in the run of what each          *)
(* component promises, and TRUE in those of the second settings: another   *)
(* fault, another kind of device, a forked process, or a smaller instance  *)
(* whose calls must end.                                                   *)
(***************************************************************************)
EXTENDS PseudoLock, Naturals, FiniteSets, TLC

CONSTANTS
  Components,  \* the components of the run
  Other,       \* TRUE: the second setting of the constants
  s1, k1, k2, f1, f2, c1, c2, d1, d2, p1, p2, p3, none,
  h0, h1, h2, h3, h4, h5, other, absent, broken

ASSUME MCToolsAssumption ==
  /\ Other \in BOOLEAN /\ {p1, p2} \subseteq Clients
  /\ Cardinality({p1, p2, p3, none}) = 4
  /\ Cardinality({h0, h1, h2, h3, h4, h5, Nil}) = 7

VARIABLES
  component,  \* whose behaviour this is
  r1, r2, r3, r4, r5, r6, r7, r8, r9, r10, r11, r12, r13, r14, r15

registers == <<r1, r2, r3, r4, r5, r6, r7, r8, r9, r10, r11, r12, r13, r14, r15>>
allVars == <<component, registers, vars>>

(* A component that needs fewer registers leaves the last ones alone.      *)
Free15 == r15 = "free"
Free14 == r14 = "free" /\ Free15
Free13 == r13 = "free" /\ Free14
Free12 == r12 = "free" /\ Free13
Free11 == r11 = "free" /\ Free12
Free10 == r10 = "free" /\ Free11
Free9 == r9 = "free" /\ Free10
Free8 == r8 = "free" /\ Free9
Free7 == r7 = "free" /\ Free8
Free6 == r6 = "free" /\ Free7
Free5 == r5 = "free" /\ Free6
Free4 == r4 = "free" /\ Free5
Free3 == r3 = "free" /\ Free4
Free2 == r2 = "free" /\ Free3
Free1 == r1 = "free" /\ Free2

(* The files of a directory.                                               *)
OneDirectory == "t" :> {"a", "b"}

(* One script alone; two of a group beside a third.  The forwards: two of  *)
(* a device on ports of their own, or one.                                 *)
Alone == p1 :> p1
TwoGroups == p1 :> p1 @@ p2 :> p1 @@ p3 :> p3
OwnHostPorts == {<<s1, 1, 11>>, <<s1, 2, 12>>}
OneForward == {<<s1, 1, 11>>}

InfoOf(d, p, groups, remote) ==
  [dependency |-> d, platform |-> p, groups |-> groups, remote |-> remote]

Lists ==
  {<< <<InfoOf(h1, "linux", gs, TRUE)>>,
      <<InfoOf(h1, p, hs, FALSE), InfoOf(h2, "linux7", <<{"c"}>>, TRUE)>> >> :
     gs \in {<<{"a", "b"}>>, <<{"b"}, {"a"}>>}, p \in {"linux", "default"},
     hs \in {<<{"c", "b"}>>, <<{"c"}, {"a"}>>}}

(* Dependencies that are only downloaded, or nowhere, or named twice.      *)
Downloads ==
  {<< <<InfoOf(h1, "linux", <<{"a"}>>, r), InfoOf(h2, p, <<>>, TRUE)>> >> :
     p \in {"linux", "linux7"}, r \in BOOLEAN}
  \cup {<< <<InfoOf(h1, "linux", <<>>, TRUE)>>, <<InfoOf(h1, "linux", <<{"a"}>>, TRUE)>> >>}

(* Two labels of every hub are in use: one at the hub itself, one behind   *)
(* its inner hub.                                                          *)
Ports ==
  [plugable |-> (4 :> <<4, 1>>) @@ (7 :> <<1>>),
   usb3_part2 |-> (4 :> <<1, 4>>) @@ (7 :> <<4>>),
   keedox |-> (4 :> <<4, 1>>) @@ (7 :> <<4, 4>>)]

(* What the categories of ftrace need, and what else they may have.        *)
Needed == [sched |-> {"switch", "wakeup"}, irq |-> {"irq"}]
Extra == [sched |-> {}, irq |-> {"ipi"}]
Of(kind, names) == [kind |-> kind, names |-> names]
Arguments == {Of("none", {})} \cup {Of("arguments", s) : s \in SUBSET {"sched", "irq"} \ {{}}}

-----------------------------------------------------------------------------
Boot == INSTANCE DeviceBoot WITH
  MaxBoots <- 2, MaxTries <- 2, UserBuild <- TRUE, HasSu <- FALSE, EarlyEnv <- FALSE,
  Loses <- TRUE, Glitches <- TRUE,
  power <- r1, boots <- r2, ready <- r3, root <- r4, needsSu <- r5, storage <- r6,
  op <- r7, pc <- r8, block <- r9, wifi <- r10, tries <- r11, since <- r12,
  answer <- r13

Stored == INSTANCE DeviceFiles WITH
  Short <- {"s"}, Long <- {"l", "m"}, Tries <- 2, DiskFull <- TRUE, Silent <- FALSE,
  file <- r1, hostFile <- r2, op <- r3, root <- r4, contents <- r5, pc <- r6, try <- r7,
  temp <- r8, dir <- r9, seen <- r10, answer <- r11

Push == INSTANCE PushFiles WITH
  Tuples <- {"t"}, Below <- OneDirectory, MaxVersion <- 2, Cached <- TRUE,
  Reverts <- FALSE, Breaks <- TRUE,
  host <- r1, newest <- r2, dev <- r3, tool <- r4, cache <- r5, commands <- r6,
  pc <- r7, delete <- r8, todo <- r9, seen <- r10, changed <- r11, stale <- r12,
  touched <- r13, zip <- r14, omitted <- r15

Prefs == INSTANCE SharedPrefs WITH
  Keys <- {k1, k2}, Types <- {"boolean"}, CanRemove <- FALSE, AppWrites <- FALSE,
  MaxFaults <- 1,
  xml <- r1, changed <- r2, file <- r3, labelled <- r4, app <- r5, pc <- r6, last <- r7,
  faults <- r8

Flags == INSTANCE FlagChanger WITH
  Flags <- {f1, f2}, Contexts <- {c1, c2}, Objects <- {}, Nested <- TRUE,
  MaxDepth <- 2, MaxFaults <- 2,
  file <- r1, legacy <- r2, enforce <- r3, original <- r4, pc <- r5, stack <- r6,
  needs <- r7, owed <- r8, order <- r9, faults <- r10, unrestored <- r11, lifted <- r12

Flash == INSTANCE Fastboot WITH
  Devices <- {d1}, Failing <- {"flash", "restart", "back", "boot"}, MaxFaults <- 2, Lingers <- FALSE,
  build <- r1, wipe <- r2, mode <- r3, image <- r4, charge <- r5, pc <- r6, left <- r7,
  faults <- r8, broken <- r9, flashed <- r10, failed <- r11

Battery == INSTANCE BatteryUtils WITH
  Names <- {"power", "battery", "charge", "discharge", "cool"}, HasHardware <- ~Other,
  HasGauge <- TRUE, Full <- 3, MaxChargeError <- 3, MaxUid <- 0,
  hardware <- r1, stopped <- r2, ac <- r3, usb <- r4, old <- r5, todo <- r6,
  unwinds <- r7, pending <- r8, call <- r9, failed <- r10, charge <- r11, app <- r12,
  answer <- r13

Metering == INSTANCE BatteryUtils WITH
  Names <- {"usage", "network", "gauge"}, HasHardware <- TRUE, HasGauge <- ~Other,
  Full <- 3, MaxChargeError <- 3, MaxUid <- IF Other THEN 2 ELSE 3,
  hardware <- r1, stopped <- r2, ac <- r3, usb <- r4, old <- r5, todo <- r6,
  unwinds <- r7, pending <- r8, call <- r9, failed <- r10, charge <- r11, app <- r12,
  answer <- r13

Speed == INSTANCE PerfControl WITH
  N <- 3, Stubborn <- IF Other THEN {2} ELSE {}, Unrooted <- ~Other, MaxCalls <- 3,
  model <- r1, rootable <- r2, haveMpdecision <- r3, root <- r4, mpdecision <- r5,
  online <- r6, governor <- r7, maxFreq <- r8, gpu <- r9, mode <- r10, todo <- r11,
  calls <- r12

Provision == INSTANCE Provision WITH
  Devices <- {d1}, Emulators <- {}, MaxFaults <- 1,
  options <- r1, kind <- r2, device <- r3, steps <- r4, ops <- r5, tries <- r6,
  faults <- r7, blacklist <- r8, chosen <- r9, result <- r10

Recovery == INSTANCE DeviceRecovery WITH
  Devices <- {d1}, Programs <- {"status", "recovery"}, UsbReset <- TRUE,
  known <- r1, usb <- r2, adb <- r3, file <- r4, main <- r5, mine <- r6, lock <- r7,
  thread <- r8, then <- r9, copy <- r10, seen <- r11, todo <- r12, noted <- r13,
  lines <- r14

Forward == INSTANCE Forwarder WITH
  Processes <- IF Other THEN {p1} ELSE {p1, p2, p3},
  Group <- IF Other THEN Alone ELSE TwoGroups,
  Pairs <- IF Other THEN OwnHostPorts ELSE OneForward, NoOne <- none,
  holder <- r1, call <- r2, raised <- r3, pidFile <- r4, instance <- r5,
  initialized <- r6, toHost <- r7, toDevice <- r8, forwards <- r9, running <- r10,
  installed <- r11

Logcat == INSTANCE LogcatMonitor WITH
  MaxLines <- 3, MaxThreads <- 2, Success <- {2}, Failure <- {1, 3},
  JoinTimesOut <- ~Other, LogcatFails <- Other,
  logged <- r1, first <- r2, state <- r3, next <- r4, held <- r5, current <- r6,
  used <- r7, stop <- r8, open <- r9, file <- r10, output <- r11, pc <- r12, at <- r13,
  result <- r14

Timed == INSTANCE TimeoutRetry WITH
  Children <- {c1}, Retries <- 1, Timeout <- 2, JoinLimit <- 1, Period <- 1, MaxTime <- 6,
  now <- r1, caller <- r2, try <- r3, result <- r4, joined <- r5, endTime <- r6,
  started <- r7, left <- r8, func <- r9, blocked <- r10, child <- r11, wake <- r12

Output == INSTANCE CommandOutput WITH
  Characters <- {"a", "n"}, MaxLength <- 4, BufferSize <- 2, Closes <- ~Other,
  Pauses <- Other, IterTimeout <- FALSE,
  how <- r1, output <- r2, written <- r3, read <- r4, alive <- r5, closed <- r6,
  killed <- r7, pc <- r8, data <- r9, polled <- r10, queue <- r11, thread <- r12,
  buffer <- r13, lines <- r14, result <- r15

Iteration == INSTANCE CommandOutput WITH
  Characters <- {"a", "n"}, MaxLength <- 2, BufferSize <- 2, Closes <- TRUE,
  Pauses <- FALSE, IterTimeout <- TRUE,
  how <- r1, output <- r2, written <- r3, read <- r4, alive <- r5, closed <- r6,
  killed <- r7, pc <- r8, data <- r9, polled <- r10, queue <- r11, thread <- r12,
  buffer <- r13, lines <- r14, result <- r15

Text == INSTANCE Quoting WITH
  Characters <- {"a", " ", "'", "\"", "=", "$", "\\"}, MaxWords <- 2, MaxLength <- 4,
  Value <- <<"a", "a">>,
  words <- r1

Config == INSTANCE ConfigUpdate WITH
  Pairs <- {"mac", "win"}, Bucketless <- {"win"}, Hashes <- {h0, h1}, Initial <- h0,
  Other <- other, Absent <- absent, Broken <- broken, MaxJobs <- 2,
  UsedAgain <- FALSE, SameFile <- TRUE,
  disk <- r1, memory <- r2, pending <- r3, pc <- r4, force <- r5, at <- r6,
  bucket <- r7, before <- r8, unnoted <- r9, written <- r10

Lookup == INSTANCE DependencyLookup WITH
  Dependencies <- {h1, h2}, Platforms <- {"default", "linux", "linux7"},
  Versioned <- "linux7", Paths <- IF Other THEN {"a"} ELSE {"a", "b", "c"},
  ConfigLists <- IF Other THEN Downloads ELSE Lists, Retries <- 1,
  configs <- r1, lookup <- r2, todo <- r3, recent <- r4, pc <- r5, op <- r6,
  asked <- r7, path <- r8, answer <- r9, tries <- r10, rest <- r11, found <- r12,
  skipped <- r13, missing <- r14

Archive == INSTANCE ArchiveFetch WITH
  Processes <- {p1},
  Hashes <- IF Other THEN {h0, h1, h2, h3, h4, h5} ELSE {h1, h2, h3, h4},
  Lacking <- {h4}, Bad <- {h3}, None <- Nil, Killed <- ~Other,
  pc <- r1, want <- r2, answer <- r3, spoiled <- r4, archive <- r5, dir <- r6

Mapping == INSTANCE BattOrMapping WITH
  Phones <- {"p1", "p2"}, BattOrs <- {"b1", "b2"}, Others <- {},
  Model <- <<"plugable", "keedox">>, Wiring <- Ports, MaxPlugs <- 0,
  where <- r1, num <- r2, tty <- r3, next <- r4, plugs <- r5, pc <- r6, op <- r7,
  phone <- r8, descs <- r9, tree <- r10, ttys <- r11, node <- r12, file <- r13,
  answer <- r14

Finding == INSTANCE BattOrMapping WITH
  Phones <- {"p1"}, BattOrs <- {"b1", "b2"}, Others <- {},
  Model <- <<"usb3_part2", "keedox">>, Wiring <- Ports, MaxPlugs <- 1,
  where <- r1, num <- r2, tty <- r3, next <- r4, plugs <- r5, pc <- r6, op <- r7,
  phone <- r8, descs <- r9, tree <- r10, ttys <- r11, node <- r12, file <- r13,
  answer <- r14

Wrapper == INSTANCE Parallelizer WITH
  N <- 2, MaxCalls <- 3, Sync <- TRUE, Raises <- TRUE, Maps <- FALSE,
  made <- r1, objs <- r2, parent <- r3, thread <- r4, pc <- r5, on <- r6, then <- r7,
  limit <- r8, alive <- r9, answer <- r10

Log == INSTANCE TraceLog WITH
  Forks <- TRUE, Threads <- {"main"}, MaxEvents <- IF Other THEN 1 ELSE 2,
  enabled <- r1, control <- r2, buf <- r3, desc <- r4, registered <- r5, mutex <- r6,
  tls <- r7, pc <- r8, op <- r9, flock <- r10, file <- r11, logged <- r12, crossed <- r13

Data == INSTANCE TraceData WITH
  Handles <- {h1, h2}, Pieces <- IF Other THEN {"a"} ELSE {"a", "b"}, MaxPieces <- 1,
  Parts <- {"chrome", "walt"}, Chrome <- "chrome", AllTraceParts <- {"chrome"},
  MaxTraces <- 2, Careless <- Other,
  backing <- r1, path <- r2, loaded <- r3, disk <- r4, content <- r5, building <- r6,
  given <- r7, raw <- r8, added <- r9, last <- r10

Control == INSTANCE TracingController WITH
  N <- 3, Name <- <<"atrace", "battor", "chrome">>, Late <- Other, Raises <- TRUE,
  pc <- r1, at <- r2, inProgress <- r3, children <- r4, oks <- r5, tracing <- r6,
  pending <- r7, unstopped <- r8, marks <- r9, log <- r10, results <- r11,
  written <- r12, outcome <- r13

Atrace == INSTANCE AtraceAgent WITH
  Cpus <- {1, 2}, Capacity <- 1, Pids <- {1}, MaxEvents <- IF Other THEN 2 ELSE 5,
  Marshmallow <- FALSE, Fails <- TRUE,
  on <- r1, events <- r2, owner <- r3, pc <- r4, thread <- r5, lines <- r6, data <- r7,
  result <- r8, output <- r9

Ftrace == INSTANCE FtraceAgent WITH
  Categories <- {"sched", "irq"}, Required <- Needed, Optional <- Extra,
  Default <- "sched", Asked <- Arguments, Breaks <- Other, MaxRuns <- 2,
  MaxRecords <- IF Other THEN 2 ELSE 3,
  writable <- r1, on <- r2, enabled <- r3, trace <- r4, buffer <- r5, recorded <- r6,
  run <- r7, pc <- r8, asked <- r9, todo <- r10, categories <- r11, result <- r12

BattOr == INSTANCE BattOrAgent WITH
  MaxFaults <- IF Other THEN 2 ELSE 3,
  Platforms <- {"android", "linux", "mac", "win", "chromeos"}, ChargingFails <- Other,
  ShellDies <- ~Other, TimesOut <- FALSE,
  platform <- r1, given <- r2, battors <- r3, mapped <- r4, main <- r5, worker <- r6,
  started <- r7, charging <- r8, handler <- r9, ref <- r10, shell <- r11,
  tracing <- r12, firmware <- r13, results <- r14, faults <- r15

Script == INSTANCE BattOrAgent WITH
  MaxFaults <- 2, Platforms <- {"android", "linux", "mac", "win", "chromeos"},
  ChargingFails <- TRUE, ShellDies <- TRUE, TimesOut <- TRUE,
  platform <- r1, given <- r2, battors <- r3, mapped <- r4, main <- r5, worker <- r6,
  started <- r7, charging <- r8, handler <- r9, ref <- r10, shell <- r11,
  tracing <- r12, firmware <- r13, results <- r14, faults <- r15

Profile == INSTANCE ProfileCapture WITH
  Intervals <- {"0", "4"}, Empties <- FALSE,
  interval <- r1, compress <- r2, writeJson <- r3, output <- r4, agents <- r5,
  asked <- r6, pc <- r7, results <- r8, merged <- r9, saved <- r10

(* What the proofs about the wrapper assume of its constants.              *)
ASSUME MCToolsProofAssumption == Wrapper!CountsAreNatural

-----------------------------------------------------------------------------
AnyInit ==
  /\ Init
  /\ component \in Components
  /\ \/ component = "lock" /\ Free1
     \/ component = "boot" /\ Boot!Init /\ Free14
     \/ component = "files" /\ Stored!Init /\ Free12
     \/ component = "push" /\ Push!Init
     \/ component = "prefs" /\ Prefs!Init /\ Free9
     \/ component = "flags" /\ Flags!Init /\ Free13
     \/ component = "fastboot" /\ Flash!Init /\ Free12
     \/ component = "battery" /\ Battery!Init /\ Free14
     \/ component = "metering" /\ Metering!Init /\ Free14
     \/ component = "speed" /\ Speed!Init /\ Free13
     \/ component = "provision" /\ Provision!Init /\ Free11
     \/ component = "recovery" /\ Recovery!Init /\ Free15
     \/ component = "forwarder" /\ Forward!Init /\ Free12
     \/ component = "logcat" /\ Logcat!Init /\ Free15
     \/ component = "timeout" /\ Timed!Init /\ Free13
     \/ component = "output" /\ Output!Init
     \/ component = "iteration" /\ Iteration!Init
     \/ component = "quoting" /\ Text!Init /\ Free2
     \/ component = "config" /\ Config!Init /\ Free11
     \/ component = "lookup" /\ Lookup!Init /\ Free15
     \/ component = "archive" /\ Archive!Init /\ Free7
     \/ component = "battor_map" /\ Mapping!Init /\ Free15
     \/ component = "battor_path" /\ Finding!Init /\ Free15
     \/ component = "parallel" /\ Wrapper!Init /\ Free11
     \/ component = "log" /\ Log!Init /\ Free14
     \/ component = "data" /\ Data!Init /\ Free11
     \/ component = "controller" /\ Control!Init /\ Free14
     \/ component = "atrace" /\ Atrace!Init /\ Free10
     \/ component = "ftrace" /\ Ftrace!Init /\ Free13
     \/ component = "battor" /\ BattOr!Init
     \/ component = "script" /\ Script!Init
     \/ component = "profile" /\ Profile!Init /\ Free11

(* These end, at their last step or at a bound.                            *)
Stops == component \in {"timeout", "output", "iteration", "quoting", "controller",
                  "atrace", "ftrace", "battor", "script", "profile"} /\ UNCHANGED allVars

AnyNext ==
  \/ component = "lock" /\ Next /\ UNCHANGED <<component, registers>>
  \/ component = "boot" /\ Boot!Next /\ UNCHANGED <<component, r14, r15, vars>>
  \/ component = "files" /\ Stored!Next /\ UNCHANGED <<component, r12, r13, r14, r15, vars>>
  \/ component = "push" /\ Push!Next /\ UNCHANGED <<component, vars>>
  \/ component = "prefs" /\ Prefs!Next /\ UNCHANGED <<component, r9, r10, r11, r12, r13, r14, r15, vars>>
  \/ component = "flags" /\ Flags!Next /\ UNCHANGED <<component, r13, r14, r15, vars>>
  \/ component = "fastboot" /\ Flash!Next /\ UNCHANGED <<component, r12, r13, r14, r15, vars>>
  \/ component = "battery" /\ Battery!Next /\ UNCHANGED <<component, r14, r15, vars>>
  \/ component = "metering" /\ Metering!Next /\ UNCHANGED <<component, r14, r15, vars>>
  \/ component = "speed" /\ Speed!Next /\ UNCHANGED <<component, r13, r14, r15, vars>>
  \/ component = "provision" /\ Provision!Next /\ UNCHANGED <<component, r11, r12, r13, r14, r15, vars>>
  \/ component = "recovery" /\ Recovery!Next /\ UNCHANGED <<component, r15, vars>>
  \/ component = "forwarder" /\ Forward!Next /\ UNCHANGED <<component, r12, r13, r14, r15, vars>>
  \/ component = "logcat" /\ Logcat!Next /\ UNCHANGED <<component, r15, vars>>
  \/ component = "timeout" /\ Timed!Next /\ UNCHANGED <<component, r13, r14, r15, vars>>
  \/ component = "output" /\ Output!Next /\ UNCHANGED <<component, vars>>
  \/ component = "iteration" /\ Iteration!Next /\ UNCHANGED <<component, vars>>
  \/ component = "quoting" /\ Text!Next /\ UNCHANGED <<component, r2, r3, r4, r5, r6, r7, r8, r9, r10, r11, r12, r13, r14, r15, vars>>
  \/ component = "config" /\ Config!Next /\ UNCHANGED <<component, r11, r12, r13, r14, r15, vars>>
  \/ component = "lookup" /\ Lookup!Next /\ UNCHANGED <<component, r15, vars>>
  \/ component = "archive" /\ Archive!Next /\ UNCHANGED <<component, r7, r8, r9, r10, r11, r12, r13, r14, r15, vars>>
  \/ component = "battor_map" /\ Mapping!Next /\ UNCHANGED <<component, r15, vars>>
  \/ component = "battor_path" /\ Finding!Next /\ UNCHANGED <<component, r15, vars>>
  \/ component = "parallel" /\ Wrapper!Next /\ UNCHANGED <<component, r11, r12, r13, r14, r15, vars>>
  \/ component = "log" /\ Log!Next /\ UNCHANGED <<component, r14, r15, vars>>
  \/ component = "data" /\ Data!Next /\ UNCHANGED <<component, r11, r12, r13, r14, r15, vars>>
  \/ component = "controller" /\ Control!Next /\ UNCHANGED <<component, r14, r15, vars>>
  \/ component = "atrace" /\ Atrace!Next /\ UNCHANGED <<component, r10, r11, r12, r13, r14, r15, vars>>
  \/ component = "ftrace" /\ Ftrace!Next /\ UNCHANGED <<component, r13, r14, r15, vars>>
  \/ component = "battor" /\ BattOr!Next /\ UNCHANGED <<component, vars>>
  \/ component = "script" /\ Script!Next /\ UNCHANGED <<component, vars>>
  \/ component = "profile" /\ Profile!Next /\ UNCHANGED <<component, r11, r12, r13, r14, r15, vars>>
  \/ component = "fastboot" /\ Flash!Done /\ UNCHANGED allVars
  \/ component = "speed" /\ Speed!Spent /\ UNCHANGED allVars
  \/ component = "provision" /\ Provision!Reported /\ UNCHANGED allVars
  \/ component = "recovery" /\ Recovery!Finished /\ UNCHANGED allVars
  \/ Stops

AnySpec == AnyInit /\ [][AnyNext]_allVars

(* The fairness each module states, for the component whose behaviour it   *)
(* is.                                                                     *)
DeviceFairSpec ==
  /\ AnySpec
  /\ WF_(Boot!vars)(component = "boot" /\ Boot!Step)
  /\ WF_(Boot!vars)(component = "boot" /\ Boot!TimesOut)
  /\ WF_(Boot!vars)(component = "boot" /\ Boot!GoesDown)
  /\ WF_(Boot!vars)(component = "boot" /\ Boot!ComesUp)
  /\ WF_(Flash!vars)(component = "fastboot" /\ Flash!Step(d1))
  /\ WF_(Flash!vars)(component = "fastboot" /\ Flash!DeviceStarts(d1))
  /\ WF_(Battery!vars)(component = "battery" /\ Battery!GoesOn)
  /\ WF_(Provision!vars)(component = "provision" /\ Provision!Next)
  /\ WF_(Recovery!vars)(component = "recovery" /\ Recovery!Next)
  /\ WF_(Logcat!vars)(component = "logcat" /\ Logcat!User)
  /\ \A t \in Logcat!Threads : WF_(Logcat!vars)(component = "logcat" /\ Logcat!Thread(t))

HostFairSpec ==
  /\ AnySpec
  /\ \A p \in Clients : WF_vars(component = "lock" /\ Proceeds(p))
  /\ \A p \in Clients : SF_vars(component = "lock" /\ Polls(p))
  /\ WF_(Timed!vars)(component = "timeout" /\ Timed!Caller)
  /\ WF_(Timed!vars)(component = "timeout" /\ Timed!Tick)
  /\ WF_(Iteration!vars)(component = "iteration" /\ Iteration!Reader)
  /\ WF_(Iteration!vars)(component = "iteration" /\ Iteration!ReaderThread)
  /\ SF_(Iteration!vars)(component = "iteration" /\ Iteration!TimesOut)
  /\ WF_(Config!vars)(component = "config" /\ Config!GoesOn)
  /\ WF_(Lookup!vars)(component = "lookup" /\ Lookup!Proceed)
  /\ WF_(Archive!vars)(component = "archive" /\ Archive!Proceed(p1))
  /\ WF_(Wrapper!vars)(component = "parallel" /\ Wrapper!Proceeds)
  /\ WF_(Wrapper!vars)(component = "parallel" /\ Wrapper!Threads)
  /\ \A t \in Log!Actors : SF_(Log!vars)(component = "log" /\ Log!Step(t))
  /\ WF_(Atrace!vars)(component = "atrace" /\ Atrace!CollectTraceData)
  /\ WF_(Atrace!vars)(component = "atrace" /\ Atrace!Stops)
  /\ WF_(Atrace!vars)(component = "atrace" /\ Atrace!Preprocess)
  /\ WF_(Atrace!vars)(component = "atrace" /\ Atrace!GetResults)
  /\ WF_(Script!vars)(component = "script" /\ Script!Controls)
  /\ WF_(Script!vars)(component = "script" /\ Script!GivesUp)

-----------------------------------------------------------------------------
(* Whatever earlier calls have left behind, one that returns normally has  *)
(* charging on and the updates of the battery running, and a device that   *)
(* was given its default mode is what it was at first.                     *)
PowerIsRestored ==
  /\ component = "battery" => Battery!TypeOK /\ Battery!ChargingIsRestored
  /\ component = "speed" => Speed!DefaultIsDefault

(* A call does what it says before it returns: what is read is all of what *)
(* the file held at some time of the try, and what was written is on the   *)
(* device. The uid by which the data of a package are found is its own     *)
(* unless it was reinstalled since the uid was read. A script that joins a *)
(* group leaves the daemon of the group alone; a wait answers by the first *)
(* line of the log that matches either of its patterns, and a monitor that *)
(* was started records.                                                    *)
ReturnsAsPromised ==
  /\ [][component = "files" => Stored!ReadIsWhole /\ Stored!WrittenIsThere]_allVars
  /\ [][component = "metering" => Metering!UidsAreOfPackage]_allVars
  /\ [][component = "forwarder" => Forward!HostKeptInGroup]_allVars
  /\ [][component = "logcat" => Logcat!AnswerIsOfFirstMatch /\ Logcat!StartRecords]_allVars

(* What holds when steps fail half-way, or with other devices and orders.  *)
(* A push leaves the files of the host, and a failed one repeats what it   *)
(* did not finish; a commit that failed leaves the changes to be committed *)
(* again; flags and enforcement are put back after nested and failing      *)
(* bodies, unless what puts them back fails, and inside of them the        *)
(* browser may read the file; no device stays behind in fastboot mode, or  *)
(* without charging but for a discharge that was declined; a measured      *)
(* block runs on battery, with power data from the block alone; a device   *)
(* made ready to be profiled has all processors on line at full            *)
(* performance; "Wipes data from device, keeping only the adb_keys",       *)
(* unless the wipe or what saves them fails; no forward is forgotten but   *)
(* where its own call failed; and a record has no line twice. Of the       *)
(* agents of systrace, results are only asked of those whose stop was      *)
(* reported, and each that was collected is in the file under its own      *)
(* name; every marker an agent has recorded is in the trace of the         *)
(* controller too, without which the clocks cannot be aligned, unless the  *)
(* stop that recorded it raised; a trace of ftrace holds nothing of a run  *)
(* before, though a file could not be written; and what the BattOr returns *)
(* was written to its end.                                                 *)
FaultsAreBorne ==
  /\ component = "push" => Push!PushedIsThere
  /\ component = "prefs" => Prefs!UnchangedIsSaved
  /\ component = "flags" => Flags!Restored /\ Flags!ReadableInside
  /\ component = "fastboot" => Flash!RebootsAfter
  /\ component = "battery" => Battery!ChargingIsRestored /\ Battery!BodyMeasuresFromZero
  /\ component = "speed" => Speed!ProfiledIsReady
  /\ component = "provision" => Provision!WipeKeepsKeys
  /\ component = "forwarder" => Forward!LiveIsKnown
  /\ component = "logcat" => Logcat!RecordedOnce
  /\ component = "controller" => Control!ResultsAreStopped /\ Control!MarksArePaired /\ Control!CollectedIsWritten
  /\ component = "ftrace" => Ftrace!ResultIsOfRun
  /\ component = "battor" => BattOr!ResultsAreWhole

(* Every call ends: none hangs on a device that was down too shortly to be *)
(* seen; every device is reported as flashed or as failed; waiting for a   *)
(* battery that does not charge ends; provisioning, recovery and status    *)
(* end, whatever the devices do; and a call that waits for a line of the   *)
(* log or for its thread returns. On the way a device that is missing once *)
(* stays known, after a failed mapping the next Map starts the daemon      *)
(* again, even if it could not be killed, and the traces that are answered *)
(* are whole, though their builder was not careful with the handles.       *)
DeviceCallsEnd ==
  /\ (component = "boot" /\ Boot!Busy) ~> ~(component = "boot" /\ Boot!Busy)
  /\ <>(component = "fastboot" => Flash!AllReported)
  /\ (component = "battery" /\ Battery!WaitsForCharge) ~> (component = "battery" /\ Battery!Over)
  /\ <>(component = "provision" => Provision!Reported)
  /\ <>(component = "recovery" => Recovery!Finished)
  /\ (component = "logcat" /\ Logcat!Waiting) ~> (component = "logcat" /\ Logcat!Returned)
  /\ [][component = "recovery" => Recovery!KnownDevicesStay]_allVars
  /\ [][component = "forwarder" => Forward!RestartedAfterFailure]_allVars
  /\ [][component = "data" => Data!AnswersAreWhole]_allVars

-----------------------------------------------------------------------------
(* No text changes on its way through a shell or a pipe: flags that are    *)
(* neither empty nor end in a backslash come back from the command line of *)
(* the browser as they were; a command of quoted arguments is read as it   *)
(* was, also as a snippet with a variable in it; "can be used in a shell   *)
(* command line as one token" holds of what has no backslash; and the      *)
(* lines of a command are those it wrote, wherever the chunks begin.       *)
TextSurvives ==
  /\ component = "quoting" => Text!CommonFlagsSurvive /\ Text!QuotedIsCommand /\ Text!DoubleIsOneToken /\ Text!SnippetIsCommand
  /\ component = "output" => Output!LinesAreOfOutput

(* "any dependencies that have local files ... will first look in those    *)
(* from config1, then those from config2": no file that some config lists  *)
(* before the chosen one exists at that moment, however they were merged,  *)
(* and a path is answered only while its file is there; a prefetch puts    *)
(* every dependency in exactly one list, and one that ends well has found  *)
(* whatever is configured for the platform. A single process, killed       *)
(* wherever it may be, keeps one version of an archive on the disk. With   *)
(* several BattOrs, a call for a phone finds the one that the file of      *)
(* pairs names, and as long as nothing is moved that file pairs exactly    *)
(* the phones and BattOrs with the same label.                             *)
AnswersAreRight ==
  /\ [][component = "lookup" => Lookup!EarlierConfigWins /\ Lookup!AnswerIsThere /\ Lookup!TypeOK' /\ Lookup!PrefetchIsComplete']_allVars
  /\ [][component = "archive" => Archive!OneVersionOnDisk']_allVars
  /\ [][component = "battor_path" => Finding!PathIsOfPhone]_allVars
  /\ [][component = "battor_map" => Mapping!MapIsByLabel']_allVars

(* What holds with other faults. A call that did not time out has read     *)
(* everything the process wrote and has not killed it ("if we fail with an *)
(* exception"); an update that is not forced leaves every file that was in *)
(* the bucket; with the blocking wrapper no two calls run at once, on any  *)
(* wrapper; and with forks, everything a process logged is in the file     *)
(* when its tracing is off, the file is a list until parent and child      *)
(* write at once, and has each event once until inherited events are       *)
(* flushed. Of calls with a timeout, of the wrapper and of the log the     *)
(* inductive invariants of their proofs hold.                              *)
HostFaultsAreBorne ==
  /\ component = "timeout" => Timed!IInv
  /\ component = "output" => Output!OutputIsWhole /\ Output!KilledOnlyOnTimeout
  /\ component = "config" => Config!UnforcedKeepsFiles
  /\ component = "parallel" => Wrapper!IInv /\ Wrapper!OneAtATime
  /\ component = "log" => Log!IInv /\ Log!WholeUntilCrossed

(* Every call ends: Run does, even if the function never does; reading the *)
(* lines of a process that does nothing, or has closed its output and      *)
(* stays, ends by the timeout; the lock of the downloads is let go; an     *)
(* update, a lookup, a prefetch, an extraction and a call of the wrapper   *)
(* come to their end, whatever is answered; a thread that waits for the    *)
(* lock of the log gets it and is through with its call; a trace of atrace *)
(* that was stopped has its results; and the script with a BattOr ends,    *)
(* whatever its shell does, as long as the controller may give up on a     *)
(* call. On the way, the path of an archive that is returned is of the     *)
(* version asked for, with all of it beside it.                            *)
CallsEnd ==
  /\ <>(/\ component = "timeout" => Timed!Returned
        /\ component = "iteration" => Iteration!IterationEnds
        /\ component = "script" => Script!ScriptIsOver)
  /\ HolderGetsOut
  /\ (\/ component = "config" /\ Config!Uploading
      \/ component = "lookup" /\ Lookup!Asking
      \/ component = "archive" /\ Archive!Unzipping(p1)
      \/ component = "parallel" /\ Wrapper!Waiting
      \/ component = "atrace" /\ Atrace!Stopped) ~>
     (\/ component = "config" /\ Config!Over
      \/ component = "lookup" /\ Lookup!Returned
      \/ component = "archive" /\ Archive!Returned(p1)
      \/ component = "parallel" /\ Wrapper!Returned
      \/ component = "atrace" /\ Atrace!HasResults)
  /\ \A t \in Log!Actors : (component = "log" /\ Log!Waits(t)) ~> (component = "log" /\ Log!Returned(t))
  /\ [][component = "archive" => Archive!ReturnedIsWhole]_allVars

-----------------------------------------------------------------------------
(* Nothing is left switched on. When the results are collected, only an    *)
(* agent whose stop was not reported may still trace; the device and the   *)
(* kernel trace no more when the agents of atrace and ftrace are through;  *)
(* a script that is over leaves the phone charging, whichever way it       *)
(* ended; and avrdude has the port of the BattOr to itself.                *)
NothingIsLeftOn ==
  /\ component = "controller" => Control!OthersAreStopped
  /\ component = "atrace" => Atrace!TracingIsOff
  /\ component = "ftrace" => Ftrace!StoppedIsQuiet
  /\ component = "battor" => BattOr!ChargingAtExit /\ BattOr!FlashOwnsBattOr /\ BattOr!FoundIsConnected

(* Traces are of the run and without gaps. From its first event on that of *)
(* atrace has every event of every processor; that of ftrace holds what    *)
(* the kernel recorded since it was cleared, of the categories asked for   *)
(* and of all of those whose required events can be enabled; whatever is   *)
(* merged, each result is in the profile; and no file of a trace is on     *)
(* disk that no handle knows. With forks, the log is a list until parent   *)
(* and child write at once, and has each event once until inherited events *)
(* are flushed; the inductive invariant of its proofs holds.               *)
TracesAreWhole ==
  /\ component = "atrace" => Atrace!TraceIsComplete
  /\ component = "ftrace" => Ftrace!ResultIsOfRun /\ Ftrace!OnlyWanted /\ Ftrace!AskedIsTraced
  /\ component = "profile" => Profile!NothingIsLost
  /\ component = "data" => Data!FilesAreKnown
  /\ component = "log" => Log!IInv /\ Log!WholeUntilCrossed

(* Whoever asks for the traces of a part, or has those of Chrome written,  *)
(* gets every trace that was added, in order, wherever it was kept. The    *)
(* builder does not change the data it has given away; and when all traces *)
(* are to be cleaned up, none of their files is left.                      *)
DataIsKept ==
  /\ [][component = "data" => Data!AnswersAreWhole /\ Data!BuiltIsSealed /\ Data!CleanedUp]_allVars
=============================================================================
