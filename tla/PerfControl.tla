----------------------------- MODULE PerfControl -----------------------------
(***************************************************************************)
(* The performance modes of a device. A mode is set by a number of         *)
(* scripts, one after the other, while mpdecision, where a device has it,  *)
(* takes processors off line and back. A processor that is off line cannot *)
(* be written to; one that comes back has its default governor and speed.  *)
(***************************************************************************)
EXTENDS Naturals, Sequences

CONSTANTS
  N,           \* the processors are 0..N-1; the first is always on line
  Stubborn,    \* processors that may refuse to go on line
  Unrooted,    \* the shell of the device may be without root
  MaxCalls     \* a bound on the modes set

Cpus == 0 .. N - 1
Models == {"Nexus 4", "Nexus 5", "other"}

VARIABLES
  model, rootable, haveMpdecision,         \* the device
  root, mpdecision, online, governor, maxFreq, gpu,
  mode, todo, calls                        \* the mode, the scripts to run, the calls made

fixed == <<model, rootable, haveMpdecision>>
cpus == <<online, governor, maxFreq, gpu>>
vars == <<fixed, root, mpdecision, cpus, mode, todo, calls>>

Init ==
  /\ model \in Models /\ rootable \in BOOLEAN /\ haveMpdecision \in BOOLEAN
  /\ root \in IF Unrooted THEN BOOLEAN ELSE {TRUE}
  /\ mpdecision = haveMpdecision
  /\ online = [c \in Cpus |-> haveMpdecision => c = 0]
  /\ governor = [c \in Cpus |-> "ondemand"]
  /\ maxFreq = [c \in Cpus |-> "full"] /\ gpu = "full"
  /\ mode = "none" /\ todo = <<>> /\ calls = 0

Back(cs) ==
  /\ governor' = [c \in Cpus |-> IF c \in cs /\ ~online[c] THEN "ondemand" ELSE governor[c]]
  /\ maxFreq' = [c \in Cpus |-> IF c \in cs /\ ~online[c] THEN "full" ELSE maxFreq[c]]
  /\ online' = [c \in Cpus |-> online[c] \/ c \in cs]

HotPlug(c) ==
  /\ mpdecision /\ c # 0
  /\ IF online[c]
     THEN online' = [online EXCEPT ![c] = FALSE] /\ UNCHANGED <<governor, maxFreq>>
     ELSE Back({c})
  /\ UNCHANGED <<fixed, root, mpdecision, gpu, mode, todo, calls>>

-----------------------------------------------------------------------------
AllCpusAreOnline == \A c \in Cpus \ {0} : online[c]

Begins(m, scripts) ==
  /\ todo = <<>> /\ calls < MaxCalls
  /\ calls' = calls + 1 /\ mode' = m /\ todo' = scripts
  /\ UNCHANGED <<fixed, mpdecision, cpus>>

HighPerfScripts ==
  CASE model = "Nexus 4" -> <<"stop", "online", "governor">>
    [] model = "Nexus 5" -> <<"stop", "online", "governor", "freq", "gpu">>
    [] OTHER -> <<"governor">>

SetHighPerfMode ==
  /\ root' = (root \/ rootable)
  /\ IF root' THEN Begins("high", HighPerfScripts) ELSE Begins("noisy", <<>>)

ProfilingScripts == <<"stop", "online", "governor", "check">>

(* Without root mpdecision cannot be stopped, which raises; where there is *)
(* none the writes fail unseen, and only the check is left.                *)
SetPerfProfilingMode ==
  /\ CASE root -> Begins("profiling", ProfilingScripts)
       [] ~root /\ haveMpdecision -> Begins("raised", <<>>)
       [] OTHER -> Begins("profiling", <<"check">>)
  /\ UNCHANGED root

DefaultScripts ==
  (IF model = "Nexus 5" THEN <<"speed_back">> ELSE <<>>) \o <<"governor_back", "start">>

SetDefaultPerfMode ==
  /\ IF root THEN Begins("default", DefaultScripts) ELSE Begins("left", <<>>)
  /\ UNCHANGED root

-----------------------------------------------------------------------------
Script(s) ==
  /\ todo # <<>> /\ Head(todo) = s /\ todo' = Tail(todo)
  /\ UNCHANGED <<fixed, root, calls>>

Written(file, value) == [c \in Cpus |-> IF online[c] THEN value ELSE file[c]]

(* _ForceAllCpusOnline(True): first mpdecision, then each processor, and   *)
(* nobody looks at what the writes returned.                               *)
StopMpdecision ==
  /\ Script("stop")
  /\ mpdecision' = FALSE
  /\ UNCHANGED <<cpus, mode>>

ForceOnline ==
  /\ Script("online")
  /\ \E refuse \in SUBSET Stubborn : Back(Cpus \ refuse)
  /\ UNCHANGED <<mpdecision, gpu, mode>>

SetScalingGovernor(s, value) ==
  /\ Script(s)
  /\ governor' = Written(governor, value)
  /\ UNCHANGED <<mpdecision, online, maxFreq, gpu, mode>>

SetScalingMaxFreq ==
  /\ Script("freq")
  /\ maxFreq' = Written(maxFreq, "low")
  /\ UNCHANGED <<mpdecision, online, governor, gpu, mode>>

SetMaxGpuClock ==
  /\ Script("gpu")
  /\ gpu' = "low"
  /\ UNCHANGED <<mpdecision, online, governor, maxFreq, mode>>

CheckOnline ==
  /\ Script("check")
  /\ mode' = IF AllCpusAreOnline THEN mode ELSE "raised"
  /\ UNCHANGED <<mpdecision, cpus>>

(* The speeds of a Nexus 5 are put back only when all are on line.         *)
SpeedBack ==
  /\ Script("speed_back")
  /\ IF AllCpusAreOnline
     THEN maxFreq' = Written(maxFreq, "full") /\ gpu' = "full"
     ELSE UNCHANGED <<maxFreq, gpu>>
  /\ UNCHANGED <<mpdecision, online, governor, mode>>

StartMpdecision ==
  /\ Script("start")
  /\ mpdecision' = haveMpdecision
  /\ UNCHANGED <<cpus, mode>>

(* The end of the calls of this instance.                                  *)
Spent == calls = MaxCalls /\ todo = <<>>

Next ==
  \/ \E c \in Cpus : HotPlug(c)
  \/ SetHighPerfMode \/ SetPerfProfilingMode \/ SetDefaultPerfMode
  \/ StopMpdecision \/ ForceOnline \/ CheckOnline
  \/ SetScalingGovernor("governor", "performance") \/ SetScalingGovernor("governor_back", "ondemand")
  \/ SetScalingMaxFreq \/ SetMaxGpuClock \/ SpeedBack \/ StartMpdecision

Spec == Init /\ [][Next]_vars

-----------------------------------------------------------------------------
(* A device that was made ready to be profiled has all processors on line, *)
(* at full performance, and keeps them so.                                 *)
ProfiledIsReady ==
  mode = "profiling" /\ todo = <<>> => \A c \in Cpus : online[c] /\ governor[c] = "performance"

(* A device that was given its default mode is what it was at first.       *)
DefaultIsDefault ==
  mode = "default" /\ todo = <<>> =>
    /\ gpu = "full" /\ mpdecision = haveMpdecision
    /\ \A c \in Cpus : online[c] => maxFreq[c] = "full" /\ governor[c] = "ondemand"
=============================================================================
