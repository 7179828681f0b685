------------------------------- MODULE MCHost --------------------------------
(***************************************************************************)
(* Steps of the host and of its devices that may fail half-way or run      *)
(* beside one another, composed: a call with a timeout (the module         *)
(* extended here), the update of a config, the flashing of devices, the    *)
(* forwarding of ports, a wrapper of devices, and of one device its        *)
(* commands, the push of files, its boot, the caches of what it is and     *)
(* has, the preferences of an application and the flags of a browser. A    *)
(* behaviour belongs to one of the components. Each module keeps the names *)
(* of its variables, but for those that another one has, and a variable    *)
(* that the component does not have is free.                               *)
(***************************************************************************)
EXTENDS TimeoutRetry

CONSTANTS
  Components,  \* the components of the run
  Pairs, Bucketless, Hashes, Initial, Other, Absent, Broken, MaxJobs,
  UsedAgain, SameFile,                     \* of the config
  Phones, Failing, MaxFaults, Lingers,    \* of flashing
  Processes, Group, Forwards, NoOne,       \* of the forwarder
  N, MaxCalls, Sync, Raises, Maps,         \* of the wrapper
  AdbTries, CallTries, MaxTemps, AdbFails, \* of the commands
  Tuples, Below, MaxVersion, Cached, Reverts, Breaks,   \* of pushing
  MaxBoots, MaxTries, UserBuild, HasSu, EarlyEnv, Loses, Glitches,   \* of the boot
  Sessions, Values, NoValue, MaxTokens,    \* of the cache
  Base, Splits, ApkVersions, NotCached,    \* of the package
  Keys, PrefTypes, CanRemove, AppWrites,   \* of the preferences
  Flags, Contexts, FlagObjects, Nested, MaxDepth, FlagFaults   \* of the flags

VARIABLES
  component,  \* whose behaviour this is
  pc,         \* of all but the call, the forwarder and the cache
  disk, memory, pending, force, at, bucket, before, unnoted, written,
  build, wipe, mode, image, charge, partitions, faults, broken, flashed, failed,
  holder, call, raised, pidFile, instance, initialized, toHost, toDevice, forwards,
  running, installed,
  made, objs, parent, thread, on, then, limit, alive, answer,
  check, large, script, isLong, status, largeMode, adbTry, attempt, runs, held, deleting,
  temps, undeleted, reported,
  host, newest, dev, tool, cache, commands, delete, todo, seen, changed, stale, touched, zip, omitted,
  power, boots, ready, root, needsSu, storage, op, block, wifi, tries, since, told,
  devToken, prop, content, phase, token, prev, cached, known, doubt, file, issued, got,
  apks, data, paths, verify, sums, asked, split, reinstall, lacking, hostSums, said,
  xml, unsaved, prefFile, labelled, app, last, prefFaults,
  flagFile, legacy, enforce, original, stack, needs, owed, order, flagFaults, unrestored, lifted

ofConfig == <<disk, memory, pending, force, at, bucket, before, unnoted, written>>
ofFlashing == <<build, wipe, mode, image, charge, partitions, faults, broken, flashed, failed>>
ofForwarder == <<holder, call, raised, pidFile, instance, initialized, toHost, toDevice,
                 forwards, running, installed>>
ofWrapper == <<made, objs, parent, thread, on, then, limit, alive, answer>>
ofHost == <<ofConfig, ofFlashing, ofForwarder, ofWrapper>>

ofShell == <<check, large, script, isLong, status, largeMode, adbTry, attempt, runs, held,
             deleting, temps, undeleted, reported>>
ofPush == <<host, newest, dev, tool, cache, commands, delete, todo, seen, changed, stale,
            touched, zip, omitted>>
ofBoot == <<power, boots, ready, root, needsSu, storage, op, block, wifi, tries, since, told>>
ofCache == <<devToken, prop, content, phase, token, prev, cached, known, doubt, file, issued, got>>
ofPackage == <<apks, data, paths, verify, sums, asked, split, reinstall, lacking, hostSums, said>>
ofPrefs == <<xml, unsaved, prefFile, labelled, app, last, prefFaults>>
ofFlags == <<flagFile, legacy, enforce, original, stack, needs, owed, order, flagFaults, unrestored, lifted>>
ofDevice == <<ofShell, ofPush, ofBoot, ofCache, ofPackage>>
ofSettings == <<ofPrefs, ofFlags>>

allVars == <<component, pc, ofHost, ofDevice, ofSettings, vars>>

NoConfig ==
  /\ disk = "free" /\ memory = "free" /\ pending = "free" /\ force = "free" /\ at = "free"
  /\ bucket = "free" /\ before = "free" /\ unnoted = "free" /\ written = "free"
NoFlashing ==
  /\ build = "free" /\ wipe = "free" /\ mode = "free" /\ image = "free" /\ charge = "free"
  /\ partitions = "free" /\ faults = "free" /\ broken = "free" /\ flashed = "free"
  /\ failed = "free"
NoForwarder ==
  /\ holder = "free" /\ call = "free" /\ raised = "free" /\ pidFile = "free"
  /\ instance = "free" /\ initialized = "free" /\ toHost = "free" /\ toDevice = "free"
  /\ forwards = "free" /\ running = "free" /\ installed = "free"
NoWrapper ==
  /\ made = "free" /\ objs = "free" /\ parent = "free" /\ thread = "free" /\ on = "free"
  /\ then = "free" /\ limit = "free" /\ alive = "free" /\ answer = "free"

NoHost == NoConfig /\ NoFlashing /\ NoForwarder /\ NoWrapper

NoShell ==
  /\ check = "free" /\ large = "free" /\ script = "free" /\ isLong = "free"
  /\ status = "free" /\ largeMode = "free" /\ adbTry = "free" /\ attempt = "free"
  /\ runs = "free" /\ held = "free" /\ deleting = "free" /\ temps = "free" /\ undeleted = "free"
  /\ reported = "free"
NoPush ==
  /\ host = "free" /\ newest = "free" /\ dev = "free" /\ tool = "free" /\ cache = "free"
  /\ commands = "free" /\ delete = "free" /\ todo = "free" /\ seen = "free"
  /\ changed = "free" /\ stale = "free" /\ touched = "free" /\ zip = "free"
  /\ omitted = "free"
NoBoot ==
  /\ power = "free" /\ boots = "free" /\ ready = "free" /\ root = "free"
  /\ needsSu = "free" /\ storage = "free" /\ op = "free" /\ block = "free" /\ wifi = "free"
  /\ tries = "free" /\ since = "free" /\ told = "free"
NoCache ==
  /\ devToken = "free" /\ prop = "free" /\ content = "free" /\ phase = "free"
  /\ token = "free" /\ prev = "free" /\ cached = "free" /\ known = "free" /\ file = "free"
  /\ issued = "free" /\ got = "free" /\ doubt = "free"
NoPackage ==
  /\ apks = "free" /\ data = "free" /\ paths = "free" /\ verify = "free" /\ sums = "free"
  /\ asked = "free" /\ split = "free" /\ reinstall = "free" /\ lacking = "free"
  /\ hostSums = "free" /\ said = "free"
NoDevice == NoShell /\ NoPush /\ NoBoot /\ NoCache /\ NoPackage

NoPrefs ==
  /\ xml = "free" /\ unsaved = "free" /\ prefFile = "free" /\ labelled = "free"
  /\ app = "free" /\ last = "free" /\ prefFaults = "free"
NoFlags ==
  /\ flagFile = "free" /\ legacy = "free" /\ enforce = "free" /\ original = "free"
  /\ stack = "free" /\ needs = "free" /\ owed = "free" /\ order = "free"
  /\ flagFaults = "free" /\ unrestored = "free" /\ lifted = "free"
NoSettings == NoPrefs /\ NoFlags

Config == INSTANCE ConfigUpdate
Flash == INSTANCE Fastboot WITH Devices <- Phones, left <- partitions
Forward == INSTANCE Forwarder WITH Pairs <- Forwards
Wrapper == INSTANCE Parallelizer

Shell == INSTANCE ShellCommand WITH
  Tries <- CallTries, mode <- largeMode, try <- attempt, result <- reported
Push == INSTANCE PushFiles
Boot == INSTANCE DeviceBoot WITH answer <- told
Cache == INSTANCE DeviceCache WITH None <- NoValue, answer <- got
Package == INSTANCE ApkInstall WITH
  Versions <- ApkVersions, Unknown <- NotCached, installed <- apks, stale <- lacking,
  host <- hostSums, answer <- said

Prefs == INSTANCE SharedPrefs WITH
  Types <- PrefTypes, changed <- unsaved, file <- prefFile, faults <- prefFaults
Changer == INSTANCE FlagChanger WITH
  Objects <- FlagObjects, MaxFaults <- FlagFaults, file <- flagFile, faults <- flagFaults

(* For the forwarder: two processes of a group beside a third, and a port. *)
TwoGroups == [p \in {"p1", "p2", "p3"} |-> IF p = "p3" THEN "p3" ELSE "p1"]
OneForward == {<<"s1", 1, 11>>}

(* For pushing: the files of two directories side by side.                 *)
SideBySide == [t \in {"t", "u"} |-> IF t = "t" THEN {"a"} ELSE {"b"}]

(* What the proofs assume of the constants.                                *)
ASSUME MCHostAssumption ==
  /\ Config!NamesDiffer
  /\ Flash!FailingAreSteps
  /\ Forward!Grouped
  /\ Wrapper!CountsAreNatural
  /\ Shell!TriesAreMade
  /\ Push!PushesApart
  /\ NoValue \notin Nat /\ NoValue \notin Values
  /\ Package!UnknownIsNone
  /\ Changer!ChangersApart

-----------------------------------------------------------------------------
AnyInit ==
  /\ component \in Components
  /\ Init
  /\ \/ component = "timeout" /\ pc = "free" /\ NoHost /\ NoDevice /\ NoSettings
     \/ /\ component = "config" /\ Config!Init
        /\ NoFlashing /\ NoForwarder /\ NoWrapper /\ NoDevice /\ NoSettings
     \/ /\ component = "fastboot" /\ Flash!Init
        /\ NoConfig /\ NoForwarder /\ NoWrapper /\ NoDevice /\ NoSettings
     \/ /\ component = "forwarder" /\ Forward!Init /\ pc = "free"
        /\ NoConfig /\ NoFlashing /\ NoWrapper /\ NoDevice /\ NoSettings
     \/ /\ component = "parallel" /\ Wrapper!Init
        /\ NoConfig /\ NoFlashing /\ NoForwarder /\ NoDevice /\ NoSettings
     \/ /\ component = "shell" /\ Shell!Init
        /\ NoHost /\ NoPush /\ NoBoot /\ NoCache /\ NoPackage /\ NoSettings
     \/ /\ component = "push" /\ Push!Init
        /\ NoHost /\ NoShell /\ NoBoot /\ NoCache /\ NoPackage /\ NoSettings
     \/ /\ component = "boot" /\ Boot!Init
        /\ NoHost /\ NoShell /\ NoPush /\ NoCache /\ NoPackage /\ NoSettings
     \/ /\ component = "cache" /\ Cache!Init /\ pc = "free"
        /\ NoHost /\ NoShell /\ NoPush /\ NoBoot /\ NoPackage /\ NoSettings
     \/ /\ component = "install" /\ Package!Init
        /\ NoHost /\ NoShell /\ NoPush /\ NoBoot /\ NoCache /\ NoSettings
     \/ component = "prefs" /\ Prefs!Init /\ NoHost /\ NoDevice /\ NoFlags
     \/ component = "flags" /\ Changer!Init /\ NoHost /\ NoDevice /\ NoPrefs

(* A call with a timeout and a flash come to their end.                    *)
Stops ==
  \/ component = "timeout" /\ Returned /\ UNCHANGED allVars
  \/ component = "fastboot" /\ Flash!Done /\ UNCHANGED allVars

AnyNext ==
  \/ /\ component = "timeout" /\ Next
     /\ UNCHANGED <<component, pc, ofHost, ofDevice, ofSettings>>
  \/ /\ component = "config" /\ Config!Next
     /\ UNCHANGED <<component, ofFlashing, ofForwarder, ofWrapper, ofDevice, ofSettings, vars>>
  \/ /\ component = "fastboot" /\ Flash!Next
     /\ UNCHANGED <<component, ofConfig, ofForwarder, ofWrapper, ofDevice, ofSettings, vars>>
  \/ /\ component = "forwarder" /\ Forward!Next
     /\ UNCHANGED <<component, pc, ofConfig, ofFlashing, ofWrapper, ofDevice, ofSettings, vars>>
  \/ /\ component = "parallel" /\ Wrapper!Next
     /\ UNCHANGED <<component, ofConfig, ofFlashing, ofForwarder, ofDevice, ofSettings, vars>>
  \/ /\ component = "shell" /\ Shell!Next
     /\ UNCHANGED <<component, ofHost, ofPush, ofBoot, ofCache, ofPackage, ofSettings, vars>>
  \/ /\ component = "push" /\ Push!Next
     /\ UNCHANGED <<component, ofHost, ofShell, ofBoot, ofCache, ofPackage, ofSettings, vars>>
  \/ /\ component = "boot" /\ Boot!Next
     /\ UNCHANGED <<component, ofHost, ofShell, ofPush, ofCache, ofPackage, ofSettings, vars>>
  \/ /\ component = "cache" /\ Cache!Next
     /\ UNCHANGED <<component, pc, ofHost, ofShell, ofPush, ofBoot, ofPackage, ofSettings, vars>>
  \/ /\ component = "install" /\ Package!Next
     /\ UNCHANGED <<component, ofHost, ofShell, ofPush, ofBoot, ofCache, ofSettings, vars>>
  \/ /\ component = "prefs" /\ Prefs!Next
     /\ UNCHANGED <<component, ofHost, ofDevice, ofFlags, vars>>
  \/ /\ component = "flags" /\ Changer!Next
     /\ UNCHANGED <<component, ofHost, ofDevice, ofPrefs, vars>>
  \/ Stops

AnySpec == AnyInit /\ [][AnyNext]_allVars

-----------------------------------------------------------------------------
(* Whatever the config file names can be downloaded, with the contents of  *)
(* its hash: a config is never ahead of the bucket, unless an interrupt    *)
(* came after the file was written. "both ... or neither", "even user      *)
(* interrupt via Ctrl+C": a failed update that has been rolled back leaves *)
(* each file of the bucket as it was, but for a new one whose upload was   *)
(* interrupted before it was noted; and the config file changes only by    *)
(* all the jobs of an update, each of them uploaded by then.               *)
UpdatesAreWhole ==
  /\ [](component = "config" => Config!IInv /\ Config!ConfigIsDownloadable /\ Config!FailureRestores)
  /\ [][component = "config" => Config!UpdatedTogether]_allVars

(* A device reported as flashed has every image that was to be flashed,    *)
(* and "Cannot stop mid flash so its important to validate everything      *)
(* first": no partition is flashed of a build that lacks an image or is    *)
(* not for this board.                                                     *)
FlashedIsWhole ==
  component = "fastboot" => Flash!IInv /\ Flash!FlashedIsWhole /\ Flash!InvalidIsUntouched

(* A forward that a living process made is in its map, so that it can be   *)
(* unmapped, whatever has failed in between. Two failures lose one: the    *)
(* answer of the command that maps it does not come, and the call raises;  *)
(* or the command that unmaps it fails, after its entry was deleted. No    *)
(* other forward is lost with it, of the call or of the process.           *)
LiveIsKnown ==
  /\ [](component = "forwarder" => Forward!IInv /\ Forward!LiveIsKnown)
  /\ [][component = "forwarder" => Forward!LostIsAskedFor]_allVars

(* Whoever asks for the values of a parallel call gets an answer when all  *)
(* threads have ended, whether one raised or not, and the exception is     *)
(* that of the first device that has one; and what is called on these      *)
(* values is started on no device before the call has returned on all of   *)
(* them.                                                                   *)
CallsAreInOrder ==
  component = "parallel" => Wrapper!IInv /\ Wrapper!CallsAreInOrder

(* With check_return, the output that is returned is all of it and of a    *)
(* command that succeeded. A command may run again, after a lost answer,   *)
(* to redirect its output and with each try of the call, but no more than  *)
(* that; and every temporary file on the device is of the running call or  *)
(* about to be deleted, or its one deletion has failed.                    *)
CommandsAreWhole ==
  component = "shell" =>
    Shell!IInv /\ Shell!CheckedIsWhole /\ Shell!RunsAreBounded /\ Shell!TempsHaveOwners

(* Files that were skipped did not need updating: after a push the device  *)
(* has every file as the host had it, unless it changed during the call or *)
(* a failing process had left it out of the zip; and "files that exist on  *)
(* the device but don't exist on the host are deleted", if the call asks   *)
(* for it and the checksums of the device are those of this call.          *)
PushedIsThere ==
  component = "push" =>
    Push!IInv /\ Push!PushedIsThere /\ (Push!AlwaysReads => Push!StaleIsGone)

(* What the caches say is true of the device. Commands for root run as     *)
(* NeedsSU found that they have to, unless it took an error of adb for a   *)
(* device without su; a cached property is the one of the device, also     *)
(* after a script has set it (a SetProp without a check leaves nothing in  *)
(* the cache, and one that raised leaves it in doubt), and so is what a    *)
(* script knows of its files, though it took it from another's dump ("This *)
(* prevents a stale cache from being used"); and an apk whose checksum is  *)
(* in the cache is installed. A call does what it says before it returns:  *)
(* Reboot "waits for the reboot to complete", a device that was waited for *)
(* has all that was asked for, and the apks are installed, whatever was    *)
(* skipped because of the caches.                                          *)
CachesAreTrue ==
  /\ [](/\ component = "boot" => Boot!IInv /\ Boot!SuIsTrue
        /\ component = "cache" => Cache!IInv /\ Cache!CachedPropIsTrue /\ Cache!KnownIsTrue
        /\ component = "install" => Package!IInv /\ Package!SumsAreInstalled)
  /\ [][/\ component = "boot" => Boot!RebootedIsNew /\ Boot!BootedIsReady
        /\ component = "cache" => Cache!LoadedIsTrue
        /\ component = "install" => Package!InstalledIsAsked]_allVars

(* The application runs with what a commit wrote and can read it, whatever *)
(* it saved meanwhile. When no changer of flags is in use, the device has  *)
(* the flags it began with ("Previous set of flags on the device is now    *)
(* restored"), unless a command that restored them failed and left others, *)
(* and the enforcement, unless a command of the enforcement left it        *)
(* lifted; and what each took for the original is what the one around it   *)
(* set.                                                                    *)
SettingsAreKept ==
  /\ component = "prefs" => Prefs!IInv /\ Prefs!AppIsCurrent /\ Prefs!CommittedIsReadable
  /\ component = "flags" => Changer!IInv /\ Changer!Restored /\ Changer!OriginalIsOuter
=============================================================================
