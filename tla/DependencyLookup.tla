--------------------------- MODULE DependencyLookup ---------------------------
(***************************************************************************)
(* dependency_manager.DependencyManager: configs, given in the order of    *)
(* their precedence, are merged into one table; a caller asks it for a     *)
(* path of a dependency on a platform, found locally or downloaded.  Files *)
(* come and go meanwhile.                                                  *)
(***************************************************************************)
EXTENDS Naturals, Sequences, FiniteSets, SequencesExt

CONSTANTS
  Dependencies,
  Platforms,      \* "default" among them
  Versioned,      \* the platform with the version of the system in its name
  Paths,          \* local paths
  ConfigLists,    \* the lists of configs: each config a sequence of infos
  Retries         \* cloud_storage_retries

Nothing == "none"
Remote == "remote"  \* the path that a dependency is downloaded to

(* An info: its dependency and platform, its local paths in groups of      *)
(* decreasing priority, and whether it is in the cloud storage.            *)
Infos == [dependency : Dependencies, platform : Platforms,
          groups : Seq(SUBSET Paths), remote : BOOLEAN]

CloudErrors == {"CredentialsError", "PermissionError", "NotFoundError", "ServerError", "CloudStorageError"}
OtherErrors == {"FileNotFoundError", "ArchiveError"}

VARIABLES
  configs,  \* the list the manager was made of
  lookup,   \* _lookup_dict
  todo,     \* the infos that are not merged yet
  recent,   \* the existing local paths, the newest last
  pc, op,
  asked,    \* the dependency and platform of the call
  path,     \* the path found so far
  answer,   \* what the last call returned or raised
  tries,    \* attempts to download the dependency at hand
  rest, found, skipped, missing  \* the lists of PrefetchPaths

table == <<configs, lookup, todo>>
lists == <<rest, found, skipped, missing>>
call == <<pc, op, asked, path, answer, tries>>
vars == <<table, recent, call, lists>>

Exists == ToSet(recent)

(* The infos of a config are the ones its file lists; one that may be      *)
(* downloaded has a hash, or the config is refused.                        *)
IterDependencyInfo(config) == config

Init ==
  /\ configs \in ConfigLists
  /\ lookup = [d \in Dependencies |-> [p \in {} |-> Nothing]]
  /\ todo = FlattenSeq([i \in DOMAIN configs |-> IterDependencyInfo(configs[i])])
  /\ recent = <<>>
  /\ pc = "idle" /\ op = Nothing /\ asked = Nothing /\ path = Nothing /\ answer = Nothing /\ tries = 0
  /\ rest = <<>> /\ found = {} /\ skipped = {} /\ missing = {}

-----------------------------------------------------------------------------
(* Mutant: the paths of the later config come first.                       *)
MergedBackwards(old, new) == new \o old

(* A path that an earlier group has is not listed again.                   *)
Merged(old, new) ==
  FoldSeq(LAMBDA group, groups :
            LET fresh == group \ UNION ToSet(groups) IN
            IF fresh = {} THEN groups ELSE Append(groups, fresh),
          old, new)

(* _UpdateDependencies: one info; two that name the cloud storage conflict.*)
UpdateDependencies ==
  LET info == Head(todo)
      known == lookup[info.dependency]
      old == known[info.platform] IN
  /\ pc = "idle" /\ todo # <<>>
  /\ IF info.platform \notin DOMAIN known
       THEN /\ lookup' = [lookup EXCEPT ![info.dependency] =
                            [p \in DOMAIN known \cup {info.platform} |->
                               IF p = info.platform THEN info ELSE known[p]]]
            /\ todo' = Tail(todo) /\ UNCHANGED <<pc, answer>>
       ELSE IF info.remote /\ old.remote
       THEN /\ pc' = "unmade" /\ answer' = "ValueError"
            /\ UNCHANGED <<lookup, todo>>
       ELSE /\ lookup' = [lookup EXCEPT ![info.dependency][info.platform] =
                            [old EXCEPT !.groups = Merged(old.groups, info.groups),
                                        !.remote = old.remote \/ info.remote]]
            /\ todo' = Tail(todo) /\ UNCHANGED <<pc, answer>>
  /\ UNCHANGED <<configs, recent, op, asked, path, tries, lists>>

-----------------------------------------------------------------------------
(* _GetDependencyInfo, with the default platform behind the others.        *)
Platform(d, p) == IF p \in DOMAIN lookup[d] THEN p ELSE "default"
IsKnown(d, p) == Platform(d, p) \in DOMAIN lookup[d]
Info(d, p) == lookup[d][Platform(d, p)]

Newest(group) ==
  recent[CHOOSE i \in DOMAIN recent :
           /\ recent[i] \in group
           /\ \A j \in DOMAIN recent : recent[j] \in group => j <= i]

(* The newest existing file of the first group that has one.               *)
GetLocalPath(groups) ==
  LET there == SelectSeq(groups, LAMBDA group : group \cap Exists # {}) IN
  IF there = <<>> THEN Nothing ELSE Newest(Head(there) \cap Exists)

(* FetchPathWithVersion, FetchPath and LocalPath look for a local file;    *)
(* the binary manager asks for the versioned platform first.               *)
Ask(name, dependency, platform) ==
  /\ pc = "idle" /\ todo = <<>>
  /\ op' = name /\ asked' = <<dependency, platform>>
  /\ pc' = "asked" /\ path' = Nothing /\ answer' = Nothing /\ tries' = 0
  /\ rest' = <<>> /\ found' = {} /\ skipped' = {} /\ missing' = {}
  /\ UNCHANGED <<table, recent>>

(* No path: the binary manager falls back from the versioned platform.     *)
NoPath ==
  IF op = "binary" /\ asked[2] = Versioned
    THEN /\ asked' \in {<<asked[1], p>> : p \in Platforms \ {Versioned, "default"}}
         /\ pc' = "asked" /\ path' = Nothing
         /\ UNCHANGED answer
    ELSE /\ pc' = "idle" /\ answer' = "NoPathFoundError"
         /\ UNCHANGED <<asked, path>>

FindLocal ==
  /\ pc = "asked" /\ op # "prefetch"
  /\ IF ~IsKnown(asked[1], asked[2]) THEN NoPath
     ELSE /\ path' = GetLocalPath(Info(asked[1], asked[2]).groups)
          /\ pc' = "found" /\ UNCHANGED <<asked, answer>>
  /\ UNCHANGED <<table, recent, op, tries, lists>>

StillThere == path \in Exists

CheckLocal ==
  /\ pc = "found"
  /\ IF StillThere THEN pc' = "idle" /\ answer' = path /\ UNCHANGED <<asked, path>>
     ELSE IF op # "local" /\ Info(asked[1], asked[2]).remote
     THEN pc' = "remote" /\ UNCHANGED <<asked, path, answer>>
     ELSE NoPath
  /\ UNCHANGED <<table, recent, op, tries, lists>>

(* GetRemotePath: downloaded, and unzipped when it is an archive; every    *)
(* error goes to the caller.                                               *)
GetRemotePath ==
  /\ pc = "remote" /\ op # "prefetch"
  /\ pc' = "idle" /\ answer' \in {Remote} \cup CloudErrors \cup OtherErrors
  /\ UNCHANGED <<table, recent, op, asked, path, tries, lists>>

-----------------------------------------------------------------------------
PrefetchPaths(platform) ==
  /\ pc = "idle" /\ todo = <<>>
  /\ op' = "prefetch" /\ pc' = "asked" /\ path' = Nothing /\ answer' = Nothing /\ tries' = 0
  /\ asked' = <<Nothing, platform>>
  /\ rest' \in {q \in [1..Cardinality(Dependencies) -> Dependencies] : IsInjective(q)}
  /\ found' = {} /\ skipped' = {} /\ missing' = {}
  /\ UNCHANGED <<table, recent>>

NotFound(d) == missing' = missing \cup {d} /\ UNCHANGED <<found, skipped>>

NextRest == Tail(rest)

(* The next dependency: skipped, found locally, missing or to be fetched.  *)
PrefetchNext ==
  LET d == Head(rest)
      p == asked[2] IN
  /\ pc = "asked" /\ op = "prefetch" /\ rest # <<>>
  /\ rest' = NextRest /\ tries' = 0
  /\ IF ~IsKnown(d, p)
       THEN skipped' = skipped \cup {d} /\ UNCHANGED <<pc, asked, found, missing>>
     ELSE IF GetLocalPath(Info(d, p).groups) # Nothing
       THEN found' = found \cup {d} /\ UNCHANGED <<pc, asked, skipped, missing>>
     ELSE IF ~Info(d, p).remote
       THEN NotFound(d) /\ UNCHANGED <<pc, asked>>
     ELSE pc' = "remote" /\ asked' = <<d, p>> /\ UNCHANGED <<found, skipped, missing>>
  /\ UNCHANGED <<table, recent, op, path, answer>>

LastTry == tries = Retries

(* An error of the cloud storage is worth another attempt; any other one   *)
(* leaves the call.                                                        *)
PrefetchRemote ==
  LET d == asked[1] IN
  /\ pc = "remote" /\ op = "prefetch"
  /\ \/ pc' = "asked" /\ found' = found \cup {d} /\ UNCHANGED <<answer, tries, skipped, missing>>
     \/ /\ ~LastTry
        /\ tries' = tries + 1 /\ UNCHANGED <<pc, answer, found, skipped, missing>>
     \/ /\ LastTry
        /\ NotFound(d) /\ pc' = "asked" /\ UNCHANGED <<answer, tries>>
     \/ /\ pc' = "idle" /\ answer' \in OtherErrors
        /\ UNCHANGED <<tries, found, skipped, missing>>
  /\ UNCHANGED <<table, recent, op, asked, path, rest>>

PrefetchDone ==
  /\ pc = "asked" /\ op = "prefetch" /\ rest = <<>>
  /\ pc' = "idle" /\ answer' = IF missing # {} THEN "NoPathFoundError" ELSE "prefetched"
  /\ UNCHANGED <<table, recent, op, asked, path, tries, lists>>

(* A local file is written or removed by somebody else.                    *)
FileWritten(p) ==
  /\ recent' = Append(SelectSeq(recent, LAMBDA q : q # p), p)
  /\ UNCHANGED <<table, call, lists>>

FileRemoved(p) ==
  /\ p \in Exists
  /\ recent' = SelectSeq(recent, LAMBDA q : q # p)
  /\ UNCHANGED <<table, call, lists>>

(* A file that was there when it was asked for and is gone when its time   *)
(* is asked for: the error leaves the call.                                *)
Vanishes(p) ==
  LET d == IF op = "prefetch" THEN Head(rest) ELSE asked[1]
      there == SelectSeq(Info(d, asked[2]).groups, LAMBDA group : group \cap Exists # {}) IN
  /\ pc = "asked" /\ (op = "prefetch" => rest # <<>>) /\ IsKnown(d, asked[2])
  /\ there # <<>> /\ p \in Head(there) \cap Exists
  /\ recent' = SelectSeq(recent, LAMBDA q : q # p)
  /\ pc' = "idle" /\ answer' = "OSError"
  /\ UNCHANGED <<table, op, asked, path, tries, lists>>

Proceed ==
  \/ UpdateDependencies \/ FindLocal \/ CheckLocal \/ GetRemotePath
  \/ PrefetchNext \/ PrefetchRemote \/ PrefetchDone

Next ==
  \/ Proceed
  \/ \E d \in Dependencies, p \in Platforms, name \in {"fetch", "local", "binary"} : Ask(name, d, p)
  \/ \E p \in Platforms : PrefetchPaths(p)
  \/ \E p \in Paths : FileWritten(p) \/ FileRemoved(p) \/ Vanishes(p)

Spec == Init /\ [][Next]_vars
FairSpec == Spec /\ WF_vars(Proceed)

-----------------------------------------------------------------------------
TypeOK ==
  /\ configs \in ConfigLists
  /\ \A d \in Dependencies : DOMAIN lookup[d] \subseteq Platforms
  /\ \A d \in Dependencies : \A p \in DOMAIN lookup[d] : lookup[d][p] \in Infos
  /\ Exists \subseteq Paths /\ IsInjective(recent)
  /\ pc \in {"idle", "unmade", "asked", "found", "remote"}
  /\ op \in {Nothing, "fetch", "local", "binary", "prefetch"}
  /\ path \in Paths \cup {Nothing}
  /\ answer \in Paths \cup CloudErrors \cup OtherErrors
                \cup {Nothing, Remote, "prefetched", "ValueError", "NoPathFoundError", "OSError"}
  /\ tries \in 0..Retries
  /\ found \cup skipped \cup missing \subseteq Dependencies

(* The groups that the configs list for a dependency on a platform, in     *)
(* the order of the configs.                                               *)
Listed(d, p) ==
  FlattenSeq([i \in DOMAIN configs |->
    FlattenSeq([j \in DOMAIN configs[i] |->
      IF configs[i][j].dependency = d /\ configs[i][j].platform = p
        THEN configs[i][j].groups ELSE <<>>])])

(* "any dependencies that have local files ... will first look in those    *)
(* from config1, then those from config2": no file that some config lists  *)
(* before the chosen one exists at that moment, however they were merged.  *)
EarlierConfigWins ==
   pc = "asked" /\ pc' = "found" =>
        LET groups == Listed(asked[1], Platform(asked[1], asked[2])) IN
        \A i \in DOMAIN groups :
          groups[i] \cap Exists # {} =>
            \E j \in 1..i : path' \in groups[j]

(* A local path is answered only while the file is there.                  *)
AnswerIsThere ==  answer' # answer /\ answer' \in Paths => answer' \in Exists

(* A prefetch puts every dependency in exactly one list, and one that ends *)
(* well has found whatever is configured for the platform.                 *)
PrefetchIsComplete ==
  /\ \A s, t \in {<<1, found>>, <<2, skipped>>, <<3, missing>>, <<4, ToSet(rest)>>} :
       s # t => s[2] \cap t[2] = {}
  /\ op = "prefetch" /\ answer = "prefetched" =>
       \A d \in Dependencies : d \in found <=> IsKnown(d, asked[2])

Asking == pc \in {"asked", "remote"}
Returned == pc = "idle"
=============================================================================
