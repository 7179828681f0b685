------------------------------ MODULE DeviceCache ------------------------------
(***************************************************************************)
(* The cache of DeviceUtils: its token on the device, the properties, what *)
(* is known of the files and apks of the device, and the dump of it that a *)
(* later script loads.  A session is a script with a DeviceUtils object.   *)
(***************************************************************************)
EXTENDS Naturals

CONSTANTS
  Sessions,    \* scripts that may use the device at the same time
  Values,      \* of a property, and of what is installed
  None,        \* no value, no token, not in the cache
  MaxTokens    \* bound on the number of tokens ever made

VARIABLES
  devToken, prop, content,        \* of the device
  phase, token, prev, cached, known,   \* of each session
  doubt,                          \* what its last SetProp left in its cache
  file,                           \* the dump: a token and what was known
  issued,                         \* tokens made so far
  answer                          \* of the last GetProp of each session

device == <<devToken, prop, content>>
local == <<phase, token, prev, cached, known, doubt, answer>>
vars == <<device, local, file, issued>>

Init ==
  /\ devToken = None /\ prop \in Values /\ content \in Values
  /\ phase = [s \in Sessions |-> "off"]
  /\ token = [s \in Sessions |-> None] /\ prev = token
  /\ cached = token /\ known = token /\ answer = token
  /\ doubt = [s \in Sessions |-> "no"]
  /\ file = [token |-> None, known |-> None] /\ issued = 0

Set(f, s, v) == f' = [f EXCEPT ![s] = v]

-----------------------------------------------------------------------------
(* A script starts with an empty cache and ends after it dumped its cache, *)
(* or without a dump.                                                      *)
Start(s) ==
  /\ phase[s] = "off" /\ Set(phase, s, "starts")
  /\ UNCHANGED <<device, token, prev, cached, known, doubt, answer, file, issued>>

Ends(s) ==
  /\ Set(phase, s, "off")
  /\ Set(token, s, None) /\ Set(prev, s, None) /\ Set(cached, s, None)
  /\ Set(known, s, None) /\ Set(answer, s, None) /\ Set(doubt, s, "no")

End(s) == phase[s] # "off" /\ Ends(s) /\ UNCHANGED <<device, file, issued>>

(* _EnsureCacheInitialized: one command of the shell reads the old token,  *)
(* writes a new one and asks for all properties.  Its answer may be lost:  *)
(* the retry then reads the token of the first try, or all retries fail.   *)
IsInitialized(s) == token[s] # None

EnsureCacheInitialized(s) ==
  /\ phase[s] # "off" /\ ~IsInitialized(s) /\ issued < MaxTokens
  /\ issued' = issued + 1 /\ devToken' = issued'
  /\ \/ /\ Set(token, s, issued') /\ Set(cached, s, prop) /\ Set(doubt, s, "no")
        /\ \/ Set(prev, s, devToken) \/ Set(prev, s, issued')
     \/ UNCHANGED <<token, prev, cached, doubt>>
  /\ UNCHANGED <<prop, content, phase, known, answer, file>>

Uses(s) == phase[s] # "off" /\ IsInitialized(s)

(* GetProp: the cache is asked, or the device, whose answer is cached.     *)
(* None is the empty string: nothing asks the device for a property that   *)
(* is not in a cache with a token.                                         *)
GetCachedProp(s) ==
  /\ Uses(s) /\ Set(answer, s, cached[s])
  /\ UNCHANGED <<device, phase, token, prev, cached, known, doubt, file, issued>>

GetProp(s) ==
  /\ phase[s] # "off"
  /\ Set(answer, s, prop) /\ Set(cached, s, prop) /\ Set(doubt, s, "no")
  /\ UNCHANGED <<device, phase, token, prev, known, file, issued>>

(* SetProp takes the value out of the cache, and a check puts in what the  *)
(* device then says.                                                       *)
Uncached(s, check) == Set(cached, s, IF check THEN prop' ELSE None)

(* A device without root ignores the new value.                            *)
SetProp(s, v, check) ==
  /\ phase[s] # "off"
  /\ prop' \in {prop, v}
  /\ Uncached(s, check) /\ Set(doubt, s, IF check THEN "no" ELSE "out")
  /\ UNCHANGED <<devToken, content, phase, token, prev, known, answer, file, issued>>

(* A setprop that raises may have reached the device: the cache keeps the  *)
(* value before.                                                           *)
SetPropFails(s, v) ==
  /\ phase[s] # "off"
  /\ prop' \in {prop, v} /\ Set(doubt, s, "lost")
  /\ UNCHANGED <<devToken, content, phase, token, prev, cached, known, answer, file, issued>>

-----------------------------------------------------------------------------
(* An installation or a push asks for a property first, then changes the   *)
(* device and notes the result, or forgets what it knew when it fails.     *)
Change(s, v) ==
  /\ Uses(s) /\ Set(phase, s, "works")
  /\ content' = v
  /\ \/ Set(known, s, v) \/ Set(known, s, None)
  /\ UNCHANGED <<devToken, prop, token, prev, cached, doubt, answer, file, issued>>

(* What is on the device is asked for and noted.                           *)
Look(s) ==
  /\ Uses(s) /\ Set(phase, s, "works")
  /\ Set(known, s, content)
  /\ UNCHANGED <<device, token, prev, cached, doubt, answer, file, issued>>

(* Reboot clears all caches.                                               *)
ClearCache(s) ==
  /\ phase[s] # "off" /\ Set(phase, s, "works")
  /\ Set(token, s, None) /\ Set(prev, s, None) /\ Set(cached, s, None) /\ Set(known, s, None)
  /\ Set(doubt, s, "no")
  /\ UNCHANGED <<device, answer, file, issued>>

(* Mutant: any dump is good.                                               *)
AcceptsAll(s) == TRUE

(* A dump is good if no other session has used the device since.           *)
Accepts(s) == file.token # None /\ file.token = prev[s]

(* A script loads the dump before it works with the device.                *)
LoadCacheData(s) ==
  /\ Uses(s) /\ phase[s] = "starts" /\ Set(phase, s, "loaded")
  /\ Set(known, s, IF Accepts(s) THEN file.known ELSE known[s])
  /\ UNCHANGED <<device, token, prev, cached, doubt, answer, file, issued>>

DumpCacheData(s) ==
  /\ Uses(s) /\ Ends(s)
  /\ file' = [token |-> token[s], known |-> known[s]]
  /\ UNCHANGED <<device, issued>>

Next ==
  \/ \E s \in Sessions :
       \/ Start(s) \/ End(s) \/ EnsureCacheInitialized(s)
       \/ GetCachedProp(s) \/ GetProp(s) \/ Look(s)
       \/ ClearCache(s) \/ LoadCacheData(s) \/ DumpCacheData(s)
       \/ \E v \in Values, check \in BOOLEAN : SetProp(s, v, check)
       \/ \E v \in Values : SetPropFails(s, v) \/ Change(s, v)

Spec == Init /\ [][Next]_vars

-----------------------------------------------------------------------------
(* "The cache is used only if its token matches the one found on the       *)
(* device.  This prevents a stale cache from being used": what a script    *)
(* takes from the dump of another one is true of the device.               *)
LoadedIsTrue ==
   \A s \in Sessions : phase[s] = "starts" /\ phase'[s] = "loaded"
        => known'[s] \in {None, content, known[s]}

(* A cache with a token has the property of the device, and not the value  *)
(* before a SetProp that went well: that one leaves what the device then   *)
(* says or, without a check, nothing, which GetProp answers with the empty *)
(* string until the device is asked.  A SetProp that failed leaves any     *)
(* value in doubt.                                                         *)
CachedPropIsTrue ==
  \A s \in Sessions : phase[s] # "off" =>
    /\ doubt[s] = "no" => cached[s] = prop \/ (cached[s] = None /\ ~IsInitialized(s))
    /\ doubt[s] = "out" => cached[s] = None

-----------------------------------------------------------------------------
Tokens == Nat \cup {None}
Known == Values \cup {None}

TypeOK ==
  /\ devToken \in Tokens /\ prop \in Values /\ content \in Values
  /\ phase \in [Sessions -> {"off", "starts", "loaded", "works"}]
  /\ token \in [Sessions -> Tokens] /\ prev \in [Sessions -> Tokens]
  /\ cached \in [Sessions -> Known] /\ known \in [Sessions -> Known]
  /\ doubt \in [Sessions -> {"no", "out", "lost"}]
  /\ file \in [token : Tokens, known : Known] /\ issued \in Nat

(* No token is newer than those that were made, and a session that is over *)
(* knows nothing.                                                          *)
TokensAreMade ==
  /\ devToken # None => devToken <= issued
  /\ file.token # None => file.token <= issued
OverKnowsNothing ==
  \A s \in Sessions : phase[s] = "off" =>
    token[s] = None /\ cached[s] = None /\ doubt[s] = "no"

(* The token of a session is on the device, and not yet in the dump.       *)
TokenIsOfDevice ==
  \A s \in Sessions : token[s] # None => token[s] = devToken /\ file.token # devToken

(* A dump with the token of the device is true of it; and so is one that   *)
(* has the token a session found, as long as the session has not begun to  *)
(* work.                                                                   *)
DumpIsTrue == file.known \in {None, content}
DumpOfDeviceIsTrue == devToken # None /\ file.token = devToken => DumpIsTrue
DumpOfPrevIsTrue ==
  \A s \in Sessions :
    phase[s] = "starts" /\ token[s] # None /\ prev[s] # None /\ file.token = prev[s] => DumpIsTrue

(* A session that works knows what is on the device.                       *)
KnownIsTrue == \A s \in Sessions : known[s] \in {None, content}

IInv ==
  /\ TypeOK /\ TokensAreMade /\ OverKnowsNothing /\ TokenIsOfDevice
  /\ DumpOfDeviceIsTrue /\ DumpOfPrevIsTrue /\ KnownIsTrue /\ CachedPropIsTrue

(* One script at a time uses the device.                                   *)
OneSession ==
  /\ \A s, t \in Sessions : s = t
  /\ None \notin Nat /\ None \notin Values
=============================================================================
