------------------------------- MODULE PushFiles -------------------------------
(***************************************************************************)
(* DeviceUtils.PushChangedFiles: the directories of the host are compared  *)
(* with the device by checksums, or with cached checksums; what changed is *)
(* pushed, one by one or zipped, and what the host lacks may be deleted.   *)
(* A version of a file stands for its checksum.                            *)
(***************************************************************************)
EXTENDS Naturals, FiniteSets

CONSTANTS
  Tuples,      \* the pairs <host directory, device directory> of the calls
  Below,       \* Below[t]: the files there may be below the device directory
  MaxVersion,  \* bound on the versions of the files
  Cached,      \* enable_device_files_cache
  Reverts,     \* TRUE: a file of the host may get an earlier version again
  Breaks       \* TRUE: a push of the tools may leave half of them

Files == UNION {Below[t] : t \in Tuples}
Missing == 0
Unknown == [ignore |-> "unknown"]

VARIABLES
  host,       \* host[t][f]: the version, or Missing
  newest,     \* the newest version there has been
  dev,        \* the files of the device
  tool,       \* md5sum on the device: "none", "half" or "whole"
  cache,      \* _cache['device_path_checksums']
  commands,   \* _commands_installed
  pc, delete, todo, seen,
  changed,    \* all_changed_files: pairs <tuple, file>
  stale,      \* all_stale_files
  touched,    \* the files of the host that changed during the call
  zip,        \* the zip file: what it holds, or Missing everywhere
  omitted     \* files a zip left out, which nothing has pushed since

tree == <<host, newest>>
call == <<delete, seen>>
vars == <<tree, dev, tool, cache, commands, pc, call, todo, changed, stale, touched, zip, omitted>>

NoFiles == [f \in Files |-> Missing]
NotCompared == [f \in {} |-> Missing]

Init ==
  /\ host = [t \in Tuples |-> [f \in Below[t] |-> 1]] /\ newest = 1
  /\ dev \in [Files -> {Missing, 1}]
  /\ tool = "none" /\ commands = "None"
  /\ cache = [t \in Tuples |-> Unknown]
  /\ pc = "idle" /\ delete = FALSE /\ todo = {}
  /\ seen = [t \in Tuples |-> NotCompared]
  /\ changed = {} /\ stale = {} /\ touched = {} /\ zip = NoFiles
  /\ omitted = {}

(* Builds and users change the files of the host at any time.              *)
HostChanges(t, f) ==
  /\ \E v \in 0 .. MaxVersion :
       /\ v = Missing \/ v > newest \/ (Reverts /\ v <= newest)
       /\ host' = [host EXCEPT ![t][f] = v]
       /\ newest' = IF v > newest THEN v ELSE newest
  /\ touched' = IF pc = "idle" THEN {} ELSE touched \cup {f}
  /\ UNCHANGED <<dev, tool, cache, commands, pc, call, todo, changed, stale, zip, omitted>>

Call(del) ==
  /\ pc = "idle" /\ pc' = "compares"
  /\ delete' = del /\ todo' = Tuples /\ seen' = [t \in Tuples |-> NotCompared]
  /\ changed' = {} /\ stale' = {} /\ touched' = {} /\ zip' = NoFiles
  /\ omitted' = IF Cached THEN omitted ELSE {}
  /\ UNCHANGED <<tree, dev, tool, cache, commands>>

Fails ==
  /\ pc' = "idle" /\ touched' = {} /\ zip' = NoFiles
  /\ todo' = {} /\ changed' = {} /\ stale' = {}
  /\ seen' = [t \in Tuples |-> NotCompared] /\ delete' = FALSE

-----------------------------------------------------------------------------
(* CalculateDeviceMd5Sums pushes md5sum if it is not there.  A script that *)
(* finds it but cannot run it ends well and prints nothing.                *)
Md5Sums(t, t2) == [f \in Below[t] |-> IF t2 = "whole" THEN dev[f] ELSE Missing]

PushTool ==
  IF tool # "none" THEN tool' = tool
  ELSE tool' \in {"whole"} \cup (IF Breaks THEN {"half"} ELSE {})

IsCached(t) == Cached /\ cache[t] # Unknown /\ cache[t].ignore = ~delete

(* What the cache of t says of the files of the device.                    *)
Entry(sums) == [ignore |-> ~delete, sums |-> sums]

DeviceSums(t) == IF IsCached(t) THEN cache[t].sums ELSE Md5Sums(t, tool')

Exists(t) == {f \in Below[t] : host[t][f] # Missing}

(* Mutant: a file that is on the device needs no update.                   *)
AnyVersion(t, sums) == {f \in Exists(t) : sums[f] = Missing}

ToPush(t, sums) == {f \in Exists(t) : sums[f] # host[t][f]}

(* What the device has and the host lacks, if anybody asked for it.        *)
ToDelete(t, sums) == IF delete THEN {f \in Below[t] \ Exists(t) : sums[f] # Missing} ELSE {}

(* _GetChangedAndStaleFiles.  The sums of the device are cached before     *)
(* anything is pushed.                                                     *)
Compare(t) ==
  /\ pc = "compares" /\ t \in todo /\ todo' = todo \ {t}
  /\ IF IsCached(t) THEN UNCHANGED tool ELSE PushTool
  /\ cache' = [cache EXCEPT ![t] = Entry(DeviceSums(t))]
  /\ LET sums == DeviceSums(t) IN
       /\ changed' = changed \cup ({t} \X ToPush(t, sums))
       /\ stale' = stale \cup ToDelete(t, sums)
       /\ seen' = [seen EXCEPT ![t] = host[t]]
  /\ UNCHANGED <<tree, dev, commands, pc, delete, touched, zip, omitted>>

(* An EnvironmentError: the whole directory is pushed, and not noted.      *)
CompareFails(t) ==
  /\ pc = "compares" /\ t \in todo /\ todo' = todo \ {t}
  /\ changed' = changed \cup ({t} \X Exists(t))
  /\ UNCHANGED <<tree, dev, tool, cache, commands, pc, call, stale, touched, zip, omitted>>

DeleteStale ==
  /\ pc = "compares" /\ todo = {}
  /\ \/ /\ dev' = [f \in Files |-> IF f \in stale THEN Missing ELSE dev[f]]
        /\ pc' = IF changed = {} THEN "commits" ELSE "pushes"
        /\ UNCHANGED <<call, todo, changed, stale, touched, zip>>
     \/ /\ stale # {} /\ Fails
        /\ \E some \in SUBSET stale :
             dev' = [f \in Files |-> IF f \in some THEN Missing ELSE dev[f]]
  /\ UNCHANGED <<tree, tool, cache, commands, omitted>>

-----------------------------------------------------------------------------
(* _PushChangedFilesIndividually, one file at a time.                      *)
Push(t, f) ==
  /\ pc \in {"pushes", "individually"} /\ <<t, f>> \in changed
  /\ host[t][f] # Missing
  /\ dev' = [dev EXCEPT ![f] = host[t][f]]
  /\ changed' = changed \ {<<t, f>>} /\ omitted' = omitted \ {f}
  /\ pc' = IF changed' = {} THEN "commits" ELSE "individually"
  /\ UNCHANGED <<tree, tool, cache, commands, call, todo, stale, touched, zip>>

(* adb fails, a file has vanished from the host, the device is full.       *)
PushFails ==
  /\ pc \in {"pushes", "individually", "zipped"} /\ Fails
  /\ UNCHANGED <<tree, dev, tool, cache, commands, omitted>>

(* _PushChangedFilesZipped: a process zips the files while unzip is        *)
(* installed.  Nobody asks how the process ended: one that failed, on a    *)
(* file that has vanished or for any other reason, has left files out.     *)
ZipFiles ==
  /\ pc = "pushes" /\ commands # "False"
  /\ commands' = "True" /\ pc' = "zipped"
  /\ zip' \in [Files -> 0 .. MaxVersion]
  /\ \A f \in Files :
       zip'[f] # Missing => \E t \in Tuples : <<t, f>> \in changed /\ zip'[f] = host[t][f]
  /\ UNCHANGED <<tree, dev, tool, cache, call, todo, changed, stale, touched, omitted>>

(* A device that cannot have unzip gets the files one by one.              *)
NoUnzip ==
  /\ pc = "pushes" /\ commands = "None"
  /\ commands' = "False" /\ pc' = "individually"
  /\ UNCHANGED <<tree, dev, tool, cache, call, todo, changed, stale, touched, zip, omitted>>

Zipped == {f \in Files : zip[f] # Missing}
Unzipped(some) == [f \in Files |-> IF f \in some \cap Zipped THEN zip[f] ELSE dev[f]]

Unzip ==
  /\ pc = "zipped"
  /\ \/ /\ dev' = Unzipped(Files) /\ pc' = "commits" /\ changed' = {} /\ zip' = NoFiles
        /\ omitted' = (omitted \cup {p[2] : p \in changed}) \ Zipped
        /\ UNCHANGED <<call, todo, stale, touched>>
     \/ /\ \E some \in SUBSET Files : dev' = Unzipped(some)
        /\ Fails /\ UNCHANGED omitted
  /\ UNCHANGED <<tree, tool, cache, commands>>

(* The cache commit functions: the device has what the host had.           *)
Commit ==
  /\ pc = "commits" /\ Fails
  /\ cache' = [t \in Tuples |-> IF seen[t] = NotCompared THEN cache[t] ELSE Entry(seen[t])]
  /\ UNCHANGED <<tree, dev, tool, commands, omitted>>

(* Reboot forgets the cache; a new object also what it knew of unzip.      *)
ClearCache ==
  /\ pc = "idle" /\ cache' = [t \in Tuples |-> Unknown]
  /\ commands' \in {commands, "None"} /\ omitted' = {}
  /\ UNCHANGED <<tree, dev, tool, pc, call, todo, changed, stale, touched, zip>>

Next ==
  \/ \E del \in BOOLEAN : Call(del)
  \/ \E t \in Tuples : Compare(t) \/ CompareFails(t)
  \/ \E t \in Tuples : \E f \in Below[t] : HostChanges(t, f) \/ Push(t, f)
  \/ DeleteStale \/ PushFails \/ ZipFiles \/ NoUnzip \/ Unzip \/ Commit \/ ClearCache

Spec == Init /\ [][Next]_vars

-----------------------------------------------------------------------------
(* Files that were skipped did not need updating: after a push the device  *)
(* has every file as the host had it, unless it changed during the call or *)
(* an unzip that ended well was given a zip without it.  Of such a file    *)
(* the cached checksums are wrong, until they are cleared or the file      *)
(* changes again.                                                          *)
PushedIsThere ==
  pc = "commits" => \A t \in Tuples : \A f \in DOMAIN seen[t] \ touched :
    seen[t][f] # Missing =>
      \/ dev[f] = seen[t][f]
      \/ f \in omitted /\ commands = "True"

(* "files that exist on the device but don't exist on the host are         *)
(* deleted", if the call asks for it.                                      *)
StaleIsGone ==
  pc = "commits" /\ delete => \A t \in Tuples : \A f \in DOMAIN seen[t] \ touched :
                       seen[t][f] = Missing => dev[f] = Missing

-----------------------------------------------------------------------------
Versions == 0 .. MaxVersion
Sums(t) == [Below[t] -> Versions]

TypeOK ==
  /\ DOMAIN host = Tuples /\ \A t \in Tuples : host[t] \in Sums(t)
  /\ newest \in Versions /\ dev \in [Files -> Versions]
  /\ tool \in {"none", "half", "whole"} /\ commands \in {"None", "True", "False"}
  /\ DOMAIN cache = Tuples
  /\ \A t \in Tuples : cache[t] = Unknown \/ cache[t] \in [ignore : BOOLEAN, sums : Sums(t)]
  /\ pc \in {"idle", "compares", "pushes", "individually", "zipped", "commits"}
  /\ delete \in BOOLEAN /\ todo \subseteq Tuples
  /\ DOMAIN seen = Tuples /\ \A t \in Tuples : seen[t] \in {NotCompared} \cup Sums(t)
  /\ changed \subseteq {<<t, f>> : t \in Tuples, f \in Files}
  /\ stale \subseteq Files /\ touched \subseteq Files /\ zip \in [Files -> Versions]
  /\ omitted \subseteq Files

(* Nothing is newer than the newest version.                               *)
NewestIsLast ==
  /\ \A t \in Tuples : \A f \in Below[t] : host[t][f] <= newest
  /\ \A t \in Tuples : \A f \in DOMAIN seen[t] : seen[t][f] <= newest
  /\ \A f \in Files : dev[f] <= newest /\ zip[f] <= newest

(* What a comparison has found: a file that did not change since it was    *)
(* seen will be pushed, or is on the device.                               *)
Compared(t) == seen[t] # NotCompared
Unchanged(t, f) == seen[t][f] = host[t][f] /\ (Reverts => f \notin touched)

UnchangedIsPushed ==
  \A t \in Tuples : Compared(t) =>
    \A f \in Below[t] :
      /\ f \notin touched => seen[t][f] = host[t][f]
      /\ <<t, f>> \in changed => seen[t][f] # Missing
      /\ f \in stale => seen[t][f] = Missing
      /\ seen[t][f] # Missing /\ Unchanged(t, f) =>
           <<t, f>> \in changed \/ dev[f] = host[t][f] \/ f \in omitted

(* Where a call stands: nothing is deleted of a directory that was not     *)
(* compared, and nothing changed of one that is still to be; only a zip    *)
(* leaves files out.                                                       *)
Phases ==
  /\ \A t \in todo : ~Compared(t) /\ \A f \in Below[t] : <<t, f>> \notin changed
  /\ \A t \in Tuples : ~Compared(t) => Below[t] \cap stale = {}
  /\ \A p \in changed : p[2] \in Below[p[1]]
  /\ pc = "idle" => \A t \in Tuples : ~Compared(t)
  /\ pc \notin {"idle", "compares"} => todo = {}
  /\ pc = "commits" => changed = {}
  /\ omitted # {} \/ pc = "zipped" => commands = "True"

(* What a cached checksum that is that of the host says of the device.     *)
IsOfHost(t, f) ==
  cache[t] # Unknown /\ cache[t].sums[f] # Missing /\ cache[t].sums[f] = host[t][f]

(* The zip file holds what changed, and of it what has not changed since.  *)
ZippedIsChanged ==
  pc = "zipped" =>
    \A t \in Tuples : \A f \in Below[t] :
      /\ zip[f] # Missing => <<t, f>> \in changed
      /\ zip[f] # Missing /\ Compared(t) /\ Unchanged(t, f) => zip[f] = host[t][f]
      /\ zip[f] # Missing /\ Cached /\ IsOfHost(t, f) => zip[f] = host[t][f]

(* A cached checksum that is that of the host is that of the device, or    *)
(* the file was left out.                                                  *)
CacheIsTrue ==
  Cached => \A t \in Tuples : cache[t] # Unknown =>
    \A f \in Below[t] :
      /\ cache[t].sums[f] <= newest
      /\ IsOfHost(t, f) => (dev[f] = host[t][f] \/ f \in omitted) /\ f \notin stale

(* If the checksums of the device are read in each call, what the host     *)
(* lacks is deleted or was not there.                                      *)
AlwaysReads == ~Cached /\ ~Breaks

LackingIsStale ==
  AlwaysReads =>
    /\ tool # "half"
    /\ delete => \A t \in Tuples : Compared(t) =>
         \A f \in Below[t] : seen[t][f] = Missing /\ f \notin touched =>
            dev[f] = Missing \/ (pc = "compares" /\ f \in stale)

IInv ==
  /\ TypeOK /\ NewestIsLast /\ Phases /\ UnchangedIsPushed /\ ZippedIsChanged
  /\ CacheIsTrue /\ LackingIsStale

(* No two directories of the device have a file in common, and with cached *)
(* checksums no file of the host gets back an earlier version.             *)
PushesApart == MaxVersion \in Nat /\ MaxVersion > 0 /\ (Cached => ~Reverts)
Disjoint == \A t, u \in Tuples : t # u => Below[t] \cap Below[u] = {}
=============================================================================
