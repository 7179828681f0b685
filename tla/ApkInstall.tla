------------------------------ MODULE ApkInstall ------------------------------
(***************************************************************************)
(* DeviceUtils.Install, InstallSplitApk and Uninstall of one package, what *)
(* clears and reads it, and the cached paths and checksums that decide     *)
(* what has to be installed.                                               *)
(* An apk is <its name, its version>, and stands for its checksum.         *)
(***************************************************************************)
EXTENDS Naturals, FiniteSets

CONSTANTS
  Base,       \* the name of the base apk
  Splits,     \* the names of its splits
  Versions,
  Unknown     \* what is not in a cache

(* What may be installed: one version of the base and of some splits.      *)
Packages ==
  {{<<n, v>> : n \in names \cup {Base}} : names \in SUBSET Splits, v \in Versions}

VARIABLES
  installed,  \* the apks of the package on the device
  data,       \* whether the app has data of an earlier run
  paths,      \* _cache['package_apk_paths']: the apks there are paths of
  verify,     \* whether the package is in package_apk_paths_to_verify
  sums,       \* _cache['package_apk_checksums']
  pc,
  asked,      \* the apks of the call
  split,      \* whether the call is of InstallSplitApk
  reinstall,
  stale,      \* apks_to_install
  host,       \* host_checksums
  answer

device == <<installed, data>>
cache == <<paths, verify, sums>>
call == <<asked, split, reinstall>>
vars == <<device, cache, pc, call, stale, host, answer>>

Init ==
  /\ installed \in Packages \cup {{}}
  /\ data = (installed # {})
  /\ paths = Unknown /\ verify = FALSE /\ sums = Unknown
  /\ pc = "idle" /\ asked = {} /\ split = FALSE /\ reinstall = FALSE
  /\ stale = {} /\ host = Unknown /\ answer = "none"

Fails(from) == pc \in from /\ pc' = "idle" /\ answer' = "CommandFailedError"

(* Mutant: the caches keep what they knew of the device.                   *)
KeepsCaches == UNCHANGED <<paths, sums>>

(* The resulting state of the device is not known.                         *)
PopCaches == paths' = Unknown /\ sums' = Unknown

-----------------------------------------------------------------------------
(* _GetApplicationPathsInternal: paths of a loaded cache are verified, and *)
(* only when the package is thought to be installed.                       *)
IsCached == paths # Unknown /\ (verify => paths = {} \/ (paths \subseteq installed))

Lookup == IF IsCached THEN paths ELSE installed

(* Checksums go with the paths that are gone; paths stay until pm answers. *)
GetApplicationPaths ==
  /\ paths' = Lookup
  /\ verify' = (verify /\ paths = Unknown)
  /\ sums' = IF paths = Unknown \/ IsCached THEN sums ELSE Unknown

PmFails ==
  /\ ~IsCached
  /\ verify' = (verify /\ paths = Unknown)
  /\ sums' = IF paths = Unknown THEN sums ELSE Unknown
  /\ UNCHANGED paths

Install(package, asSplit, keep) ==
  /\ pc = "idle"
  /\ asSplit \/ Cardinality(package) = 1
  /\ asked' = package /\ split' = asSplit /\ reinstall' = keep
  /\ stale' = {} /\ host' = Unknown
  /\ \/ GetApplicationPaths /\ pc' = "decides" /\ answer' = "none"
     \/ PmFails /\ Fails({"idle"})
  /\ UNCHANGED device

(* What to install: everything, if the package is not there or changes     *)
(* between split and whole; else what the checksums of the device lack, or *)
(* everything if a checksum could not be had.                              *)
Switches == (Cardinality(paths) > 1 /\ ~split) \/ (Cardinality(paths) = 1 /\ split)

DeviceSums == IF sums = Unknown THEN paths \cap installed ELSE sums

Stale(known) == asked \ known

Decide ==
  /\ pc = "decides"
  /\ UNCHANGED <<device, paths, verify, call>>
  /\ \/ /\ paths = {} \/ Switches
        /\ stale' = asked /\ pc' = "installs"
        /\ UNCHANGED <<host, sums, answer>>
     \/ /\ paths # {} /\ ~Switches
        /\ \/ sums' = DeviceSums /\ host' = asked /\ stale' = Stale(DeviceSums)
           \/ sums' \in {sums, DeviceSums} /\ UNCHANGED host /\ stale' = asked
        /\ pc' = IF stale' = {} THEN "stops" ELSE IF reinstall THEN "installs" ELSE "uninstalls"
        /\ UNCHANGED answer

-----------------------------------------------------------------------------
(* Uninstall: the caches know that the package is gone, or know nothing.   *)
Uninstalled ==
  /\ installed' = {} /\ data' = FALSE
  /\ paths' = {} /\ sums' = {}

UninstallFails ==
  /\ PopCaches
  /\ \/ installed' = {} /\ data' = FALSE
     \/ UNCHANGED device

UninstallFirst ==
  /\ pc = "uninstalls"
  /\ UNCHANGED <<verify, call, host>>
  /\ \/ Uninstalled /\ pc' = "installs" /\ stale' = asked /\ UNCHANGED answer
     \/ UninstallFails /\ Fails({"uninstalls"}) /\ UNCHANGED stale

Uninstall ==
  /\ pc = "idle"
  /\ UNCHANGED <<pc, call, stale, host>>
  /\ \/ Lookup = {} /\ GetApplicationPaths /\ answer' = "ok" /\ UNCHANGED device
     \/ PmFails /\ answer' = "CommandFailedError" /\ UNCHANGED device
     \/ /\ Lookup # {} /\ verify' = (verify /\ paths = Unknown)
        /\ \/ Uninstalled /\ answer' = "ok"
           \/ UninstallFails /\ answer' = "CommandFailedError"

(* adb install replaces the package only if it is told to reinstall; a     *)
(* partial one adds to the apks that are there.                            *)
IsPartial == split /\ stale # asked
Result ==
  IF IsPartial THEN {a \in installed : a[1] \notin {b[1] : b \in stale}} \cup stale ELSE asked

AdbAccepts == reinstall \/ installed = {}

AdbInstall ==
  /\ pc = "installs"
  /\ PopCaches /\ UNCHANGED <<verify, call, stale, host>>
  /\ UNCHANGED data
  /\ \/ AdbAccepts /\ installed' = Result /\ pc' = "grants" /\ UNCHANGED answer
     \/ Fails({"installs"}) /\ UNCHANGED installed
     \/ AdbAccepts /\ Fails({"installs"}) /\ installed' = Result

NotesSums == sums' = IF host = Unknown THEN sums ELSE host

GrantPermissions ==
  /\ pc = "grants"
  /\ UNCHANGED <<device, paths, verify, call, stale, host>>
  /\ \/ pc' = "idle" /\ answer' = "ok" /\ NotesSums
     \/ Fails({"grants"}) /\ UNCHANGED sums

(* Nothing to install: the app is stopped instead.                         *)
ForceStop ==
  /\ UNCHANGED <<device, cache, call, stale, host>>
  /\ \/ pc = "stops" /\ pc' = "idle" /\ answer' = "ok"
     \/ Fails({"stops"})

-----------------------------------------------------------------------------
(* ClearApplicationState: before JB MR2 the package is looked up first, as *)
(* pm clear of one that is not there may never return.  The data may be    *)
(* gone and the permissions not granted again.                             *)
PmClears ==
  \/ data' = FALSE /\ answer' \in {"ok", "CommandFailedError"}
  \/ UNCHANGED data /\ answer' = "CommandFailedError"

ClearApplicationState ==
  /\ pc = "idle"
  /\ UNCHANGED <<installed, pc, call, stale, host>>
  /\ \/ PmClears /\ UNCHANGED cache
     \/ Lookup # {} /\ GetApplicationPaths /\ PmClears
     \/ Lookup = {} /\ GetApplicationPaths /\ answer' = "ok" /\ UNCHANGED data
     \/ PmFails /\ answer' = "CommandFailedError" /\ UNCHANGED data

(* What is asked of the device and of no cache: a package that is not      *)
(* there has no version, or the command fails.                             *)
GetApplicationVersion ==
  /\ pc = "idle"
  /\ answer' \in {IF installed = {} THEN "none" ELSE "ok", "CommandFailedError"}
  /\ UNCHANGED <<device, cache, pc, call, stale, host>>

GetApplicationDataDirectory ==
  /\ pc = "idle"
  /\ answer' = "CommandFailedError" \/ (installed # {} /\ answer' = "ok")
  /\ UNCHANGED <<device, cache, pc, call, stale, host>>

(* The app runs and writes data; a new session starts with an empty cache, *)
(* or with the one that the last session dumped.                           *)
AppRuns ==
  /\ pc = "idle" /\ installed # {} /\ data' = TRUE
  /\ UNCHANGED <<installed, cache, pc, call, stale, host, answer>>

NewSession ==
  /\ pc = "idle"
  /\ \/ PopCaches /\ verify' = FALSE
     \/ verify' = (paths # Unknown) /\ UNCHANGED <<paths, sums>>
  /\ \/ UNCHANGED device
     \/ installed' = {} /\ data' = FALSE   \* uninstalled by hand meanwhile
  /\ answer' = "none"
  /\ UNCHANGED <<pc, call, stale, host>>

Next ==
  \/ \E package \in Packages, asSplit, keep \in BOOLEAN : Install(package, asSplit, keep)
  \/ Decide \/ UninstallFirst \/ AdbInstall \/ GrantPermissions \/ ForceStop
  \/ Uninstall \/ ClearApplicationState \/ GetApplicationVersion
  \/ GetApplicationDataDirectory \/ AppRuns \/ NewSession

Spec == Init /\ [][Next]_vars

-----------------------------------------------------------------------------
(* A call that returns has put the apks on the device, whatever it skipped *)
(* because of its caches; one of a whole apk has put nothing else there.   *)
InstalledIsAsked ==
   answer' = "ok" /\ pc \in {"grants", "stops"} =>
        asked \subseteq installed /\ (split \/ installed = asked)

(* Checksums in the cache are of the device: an apk that is taken for      *)
(* installed is.  (The package may be uninstalled behind a loaded cache.)  *)
SumsAreInstalled ==
  sums # Unknown /\ installed # {} => sums \subseteq installed

-----------------------------------------------------------------------------
Apks == (Splits \cup {Base}) \X Versions
MaybeApks == {Unknown} \cup SUBSET Apks

TypeOK ==
  /\ installed \subseteq Apks /\ IsFiniteSet(installed) /\ data \in BOOLEAN
  /\ paths \in MaybeApks /\ verify \in BOOLEAN /\ sums \in MaybeApks
  /\ pc \in {"idle", "decides", "installs", "uninstalls", "grants", "stops"}
  /\ asked \in Packages \cup {{}} /\ split \in BOOLEAN /\ reinstall \in BOOLEAN
  /\ stale \subseteq asked

(* Paths in the cache are those of the package, or it is gone. Checksums   *)
(* that are not of the package are found out, as the cached paths are not  *)
(* there or will be verified.                                              *)
PathsAreOfPackage ==
  /\ paths # Unknown => paths = installed \/ installed = {}
  /\ verify => paths # Unknown
SumsAreVerified ==
  sums # Unknown /\ ~(sums \subseteq installed) =>
    installed = {} /\ (paths = Unknown \/ paths = {} \/ verify)

(* Where a call stands: what is not to be installed is there, and after    *)
(* adb has installed the rest, so is all that was asked for.               *)
AskedIsThere == asked \subseteq installed /\ (split \/ installed = asked)
CallStands ==
  /\ pc # "idle" => asked # {} /\ (split \/ Cardinality(asked) = 1)
  /\ pc # "idle" => ~verify
  /\ pc = "decides" => paths # Unknown /\ host = Unknown
  /\ pc = "installs" => asked \ stale \subseteq installed
  /\ pc \in {"grants", "stops"} => AskedIsThere
  /\ pc # "idle" => answer # "ok" /\ host \in {Unknown, asked}

IInv ==
  /\ TypeOK /\ PathsAreOfPackage /\ SumsAreVerified /\ CallStands

(* What is not known is no set of apks.                                    *)
UnknownIsNone == (\A known \in SUBSET Apks : known # Unknown) /\ IsFiniteSet(Splits)
=============================================================================
