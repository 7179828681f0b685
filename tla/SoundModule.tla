----------------------------- MODULE SoundModule -----------------------------
(***************************************************************************)
(* The settings of the sound module: loudness, gain, bass, treble and the  *)
(* balance of the speakers.                                                *)
(*                                                                         *)
(* AudioValues keeps them as preferences, each stored by a commit of its   *)
(* own, and builds from them the word that selects a channel (three words, *)
(* one per channel, hold loudness and gain next to the select bits) and    *)
(* the frame of the audio values.  A handler of the settings screen is a   *)
(* list of commits; the main looper runs one handler at a time, but the    *)
(* process may die between two commits.  A frame that is built is posted:  *)
(* it reaches the sound module after a delay, unless the process dies, and *)
(* the screens' delays differ, so that one frame may overtake another.     *)
(***************************************************************************)
EXTENDS Integers, Sequences

CONSTANTS
  Gestures,   \* what the user does
  Tones,      \* the bass and treble values that are set, of -7..7
  Gains,      \* the gains that are set
  Spots,      \* where the picture of the balance is dropped
  MaxPosts,   \* bound: a handler starts with fewer frames posted
  MaxKills    \* bound: how often the process dies in a behaviour

Words == {"aux", "radio", "android"}
Speakers == {"lf", "rf", "lr", "rr"}
Handlers == {"none", "loud", "gain", "bass", "treble", "balance", "reset"}

(* A spot is in pixels from the top left corner of the area. *)
Area == (0..160) \X (0..240)

ASSUME SoundModuleAssumption ==
  /\ Gestures \subseteq {"loudness", "gain", "bass", "treble", "balance",
                         "arrow", "centre", "reset"}
  /\ Tones \subseteq -7..7
  /\ Gains \subseteq {0, 4, 8, 12}
  /\ Spots \subseteq Area
  /\ MaxPosts \in Nat /\ MaxKills \in Nat

VARIABLES
  pref,    \* the preferences
  base,    \* the field of AudioValues, of the instance of each screen
  home,    \* has the home screen an instance?
  open,    \* is the settings screen open?
  busy,    \* the handler that runs
  todo,    \* its commits and frames to come
  frame,   \* the audio values that were built last
  posts,   \* the frames that are posted, the first due first
  heard,   \* the audio values that the sound module received last
  behind,  \* was the last frame overtaken, or lost by a death?
  torn,    \* handlers that died and were not run to their end since
  kills

vars == <<pref, base, home, open, busy, todo, frame, posts, heard, behind, torn, kills>>
sending == <<frame, posts, heard, behind>>

-----------------------------------------------------------------------------
(* The words.                                                              *)

Default == [aux |-> 92, radio |-> 93, android |-> 94]

Weight == [p \in {2, 3, 4} |-> IF p = 2 THEN 4 ELSE IF p = 3 THEN 8 ELSE 16]

Bit(number, position) == (number \div Weight[position]) % 2

ModifyBit(number, position, bitValue) ==
  number - Bit(number, position) * Weight[position]
    + bitValue * Weight[position]

Modified(words, position, bitValue) ==
  [c \in Words |-> ModifyBit(words[c], position, bitValue)]

(* A commit is a pair; the key "frame" stands for sending the frame. *)
(* Mutant: two of the channels are swapped. *)
StoreWordsSwapped(words) ==
  <<<<"aux", words["radio"]>>, <<"android", words["android"]>>,
    <<"radio", words["aux"]>>>>

StoreWords(words) ==
  <<<<"aux", words["aux"]>>, <<"android", words["android"]>>,
    <<"radio", words["radio"]>>>>

(* Mutant: the bit is set to the state and not against it. *)
LoudStateStraight(words, state) ==
  <<<<"loud", state>>>> \o StoreWords(Modified(words, 2, state))

LoudState(words, state) ==
  <<<<"loud", state>>>> \o StoreWords(Modified(words, 2, 1 - state))

SetGainValue(words, value) ==
  LET lower == Modified(words, 3, IF value \in {0, 8} THEN 1 ELSE 0)
  IN  <<<<"gain", value>>>> \o StoreWords(lower)
        \o StoreWords(Modified(lower, 4, IF value \in {0, 4} THEN 1 ELSE 0))

-----------------------------------------------------------------------------
(* The frame: fields with their number and their width in characters.      *)

Null == [number |-> 0, width |-> 4]
Decimal(n) ==
  [number |-> n, width |-> IF n < 10 THEN 1 ELSE IF n < 100 THEN 2 ELSE 3]
Padded(n) == [number |-> n, width |-> Decimal(n).width + 1]

(* The result for -3..-1 is discarded and the field stays as it is. *)
GetBaseValue(i, field) ==
  IF i < -3 THEN Padded(103 + i)
  ELSE IF i < 0 THEN field
  ELSE Decimal(111 - i)

GetTrebleValue(i) == Decimal(IF i < 0 THEN 119 + i ELSE 127 - i)

GetAudioValues(p, field) ==
  [lf |-> Decimal(223 - p["lf"]), rf |-> Decimal(255 - p["rf"]),
   lr |-> Decimal(159 - p["lr"]), rr |-> Decimal(191 - p["rr"]),
   bass |-> GetBaseValue(p["bass"], field),
   treble |-> GetTrebleValue(p["treble"])]

Send == <<"frame", 0>>

-----------------------------------------------------------------------------
(* The balance.  Distances are exact: in units of 1/4500 of the eleven     *)
(* steps, a pixel is 275 units across and 198 units down.                  *)

Truncated(a) == IF a >= 0 THEN a \div 4500 ELSE -((-a) \div 4500)

Percent(across, down) ==
  IF across <= 22500 /\ down <= 22500 THEN 100
  ELSE Truncated(900000 - 20 * (IF across > down THEN across ELSE down))

CheckPercent(value) ==
  CASE value \in 0..20 -> 0
    [] value \in 21..40 -> 7
    [] value \in 41..60 -> 14
    [] value \in 61..80 -> 22
    [] OTHER -> 31

(* Mutant: the frame is sent before the last speaker is stored. *)
SpeakersInitEarly(fl, fr, rl, rr) ==
  <<<<"lf", CheckPercent(rl)>>, <<"rf", CheckPercent(rr)>>,
    <<"lr", CheckPercent(fl)>>, Send, <<"rr", CheckPercent(fr)>>>>

(* The front of the picture is stored for the rear fields, and vice versa. *)
SpeakersInit(fl, fr, rl, rr) ==
  <<<<"lf", CheckPercent(rl)>>, <<"rf", CheckPercent(rr)>>,
    <<"lr", CheckPercent(fl)>>, <<"rr", CheckPercent(fr)>>, Send>>

CalculateBalanceData(spot) ==
  LET xfl == 275 * spot[1]
      yfl == 198 * spot[2]
      xfr == 4500 * Truncated(45000 - xfl)
      yrl == 4500 * Truncated(45000 - yfl)
  IN  SpeakersInit(Percent(xfl, yfl), Percent(xfr, yfl),
                   Percent(xfl, yrl), Percent(xfr, yrl))

SetXYcordinates(spot) == <<<<"x", spot[1]>>, <<"y", spot[2]>>>>

Centre == <<93, 128>>

-----------------------------------------------------------------------------
Keys == Words \cup Speakers \cup {"loud", "gain", "bass", "treble", "x", "y"}

Frames ==
  LET field == [number : 0..255, width : 1..4]
  IN  [{"lf", "rf", "lr", "rr", "bass", "treble"} -> field]

Screens == {"home", "settings"}
Posts == [from : Screens, frame : Frames]

TypeOK ==
  /\ DOMAIN pref = Keys
  /\ \A c \in Words : pref[c] \in 64..127
  /\ \A s \in Speakers : pref[s] \in {0, 7, 14, 22, 30, 31}
  /\ pref["loud"] \in {0, 1} /\ pref["gain"] \in {0, 4, 8, 12}
  /\ pref["bass"] \in -7..7 /\ pref["treble"] \in -7..7
  /\ <<pref["x"], pref["y"]>> \in Area
  /\ base \in [Screens -> [number : 0..255, width : 1..4]]
  /\ home \in BOOLEAN /\ open \in BOOLEAN
  /\ busy \in Handlers
  /\ (busy = "none") = (todo = <<>>)
  /\ frame \in Frames /\ heard \in Frames
  /\ posts \in Seq(Posts) /\ behind \in BOOLEAN
  /\ torn \subseteq Handlers
  /\ kills \in 0..MaxKills

(* The defaults of PrefManager, and the home screen has sent its frame.    *)
Init ==
  /\ pref = [k \in Keys |->
       CASE k \in Words -> Default[k]
         [] k \in Speakers -> 30
         [] k = "x" -> Centre[1]
         [] k = "y" -> Centre[2]
         [] OTHER -> 0]
  /\ base = [i \in Screens |-> Decimal(111)]
  /\ home = TRUE /\ open = FALSE
  /\ busy = "none" /\ todo = <<>>
  /\ frame = GetAudioValues(pref, Null)
  /\ posts = <<>> /\ heard = frame /\ behind = FALSE
  /\ torn = {} /\ kills = 0

Starts(handler, commits) ==
  /\ busy = "none"
  /\ Len(posts) < MaxPosts
  /\ busy' = handler /\ todo' = commits
  /\ UNCHANGED <<pref, home, sending, torn, kills>>

Handles(gesture, handler, commits) ==
  /\ gesture \in Gestures
  /\ open
  /\ Starts(handler, commits)
  /\ UNCHANGED <<base, open>>

(* A new screen; its switch reports a loudness that is on.                 *)
SettingsOpens ==
  /\ open' = TRUE
  /\ base' = [base EXCEPT !["settings"] = GetBaseValue(pref["bass"], Null)]
  /\ IF pref["loud"] = 1
       THEN Starts("loud", LoudState(pref, 1))
       ELSE Starts("none", <<>>)

Loudness ==
  \E state \in {0, 1} : Handles("loudness", "loud", LoudState(pref, state))

Gain ==
  \E value \in Gains : Handles("gain", "gain", SetGainValue(pref, value))

Bass ==
  \E value \in Tones : Handles("bass", "bass", <<<<"bass", value>>, Send>>)

Treble ==
  \E value \in Tones :
    Handles("treble", "treble", <<<<"treble", value>>, Send>>)

(* A touch, a drop or a button for a place.                                *)
Balance ==
  \E spot \in Spots :
    Handles("balance", "balance",
            CalculateBalanceData(spot) \o SetXYcordinates(spot))

(* The four arrows move the picture by 20 pixels within the area.          *)
Arrow ==
  \E step \in {<<-20, 0>>, <<20, 0>>, <<0, -20>>, <<0, 20>>} :
    LET spot == <<pref["x"] + step[1], pref["y"] + step[2]>>
    IN  /\ spot \in Area
        /\ Handles("arrow", "balance",
                   CalculateBalanceData(spot) \o SetXYcordinates(spot))

ToCentre == SetXYcordinates(Centre) \o SpeakersInit(100, 100, 100, 100)

(* A touch outside the area, and the reset button.                         *)
BalanceReset == Handles("centre", "balance", ToCentre)

(* The reset button, held.                                                 *)
Reset ==
  Handles("reset", "reset",
    ToCentre \o LoudState(pref, 0)
      \o <<<<"bass", 0>>, Send, <<"treble", 0>>, Send>>
      \o SetGainValue(Modified(pref, 2, 1), 0))

(* The frame is built at once and sent later: those of the home screen     *)
(* after 500 ms, those of the settings after 100 ms and so, it may be,     *)
(* before frames of the home screen that are older.                        *)
SendFrame(instance, field) ==
  /\ frame' = GetAudioValues(pref, field)
  /\ base' = [base EXCEPT ![instance] = GetBaseValue(pref["bass"], field)]
  /\ \E n \in 0 .. Len(posts) :
       /\ n < Len(posts) => instance = "settings"
       /\ \A i \in n + 1 .. Len(posts) : posts[i].from = "home"
       /\ posts' = SubSeq(posts, 1, n) \o <<[from |-> instance, frame |-> frame']>>
                     \o SubSeq(posts, n + 1, Len(posts))
       /\ behind' = (n < Len(posts))
  /\ UNCHANGED heard

Covers(handler) == IF handler = "reset" THEN Handlers ELSE {handler}

Commit ==
  /\ busy # "none"
  /\ todo' = Tail(todo)
  /\ IF Head(todo) = Send
       THEN SendFrame("settings", base["settings"]) /\ UNCHANGED pref
       ELSE /\ pref' = [pref EXCEPT ![Head(todo)[1]] = Head(todo)[2]]
            /\ UNCHANGED <<base, sending>>
  /\ IF Tail(todo) = <<>>
       THEN busy' = "none" /\ torn' = torn \ Covers(busy)
       ELSE UNCHANGED <<busy, torn>>
  /\ UNCHANGED <<home, open, kills>>

(* The home screen comes to the front, with its old instance or a new one. *)
HomeResumes ==
  /\ busy = "none"
  /\ Len(posts) < MaxPosts
  /\ \E old \in (IF home THEN {base["home"], Null} ELSE {Null}) : SendFrame("home", old)
  /\ home' = TRUE
  /\ UNCHANGED <<pref, open, busy, todo, torn, kills>>

(* The main looper, between two handlers, sends the frame that is due.     *)
FrameArrives ==
  /\ busy = "none"
  /\ posts # <<>>
  /\ heard' = Head(posts).frame /\ posts' = Tail(posts)
  /\ UNCHANGED <<pref, base, home, open, busy, todo, frame, behind, torn, kills>>

(* The preferences and the sound module survive; what was posted does not. *)
Killed ==
  /\ kills < MaxKills
  /\ kills' = kills + 1
  /\ busy' = "none" /\ todo' = <<>>
  /\ torn' = torn \cup (Covers(busy) \ {"none"})
  /\ home' = FALSE /\ open' = FALSE
  /\ base' = [i \in Screens |-> Null]
  /\ posts' = <<>> /\ behind' = (behind \/ posts # <<>>)
  /\ UNCHANGED <<pref, frame, heard>>

Next ==
  \/ SettingsOpens \/ Loudness \/ Gain \/ Bass \/ Treble
  \/ Balance \/ Arrow \/ BalanceReset \/ Reset
  \/ Commit \/ HomeResumes \/ FrameArrives \/ Killed

Spec == Init /\ [][Next]_vars

-----------------------------------------------------------------------------
(* Whatever is set, and wherever a handler dies, every word goes on        *)
(* selecting its own channel: the settings never leak into the select      *)
(* bits.                                                                   *)
SelectBitsKept ==
  \A c \in Words :
    /\ pref[c] % 4 = Default[c] % 4
    /\ pref[c] \div 32 = Default[c] \div 32

(* Between handlers the three words agree with the stored loudness and     *)
(* gain, and so with one another, unless the handler of that setting died; *)
(* running it again to its end repairs all three.                          *)
LoudFollows(p) == \A c \in Words : Bit(p[c], 2) = 1 - p["loud"]

GainFollows(p) ==
  \A c \in Words :
    /\ Bit(p[c], 3) = 1 <=> p["gain"] \in {0, 8}
    /\ Bit(p[c], 4) = 1 <=> p["gain"] \in {0, 4}

WordsFollowSettings ==
  busy = "none" =>
    /\ "loud" \notin torn => LoudFollows(pref)
    /\ "gain" \notin torn => GainFollows(pref)

(* Between handlers, once all posted frames have arrived, what the sound   *)
(* module has heard is what is stored, bass values of -3..-1 apart, unless *)
(* a death cost it the last frame, or a handler, or an older frame of the  *)
(* home screen came after the last one.                                    *)
Tellers == {"balance", "bass", "treble"}

Tells(values) ==
  LET stored == GetAudioValues(pref, Null)
  IN  \A f \in DOMAIN values :
        f # "bass" \/ pref["bass"] \notin -3..-1 => values[f] = stored[f]

Told == Tells(frame)

StoredIsSent ==
  busy = "none" /\ posts = <<>> /\ ~behind /\ torn \cap Tellers = {} => Tells(heard)

(* The speakers on the side of the picture are never quieter than those on *)
(* the other side, across and down (the front of the picture being stored  *)
(* for the rear fields), up to the last twelve pixels at the bottom.       *)
NearIsLouder(p) ==
  p["y"] <= 228 =>
    /\ IF p["x"] <= 81
         THEN p["lf"] >= p["rf"] /\ p["lr"] >= p["rr"]
         ELSE p["rf"] >= p["lf"] /\ p["rr"] >= p["lr"]
    /\ IF p["y"] <= 113
         THEN p["lr"] >= p["lf"] /\ p["rr"] >= p["rf"]
         ELSE p["lf"] >= p["lr"] /\ p["rf"] >= p["rr"]

NearSpeakersAreLouder ==
  busy = "none" /\ "balance" \notin torn => NearIsLouder(pref)

-----------------------------------------------------------------------------
(* The preferences p when the commits of a list have been stored.          *)
Skips(list, keys) == \A i \in 1 .. Len(list) : list[i][1] \notin keys

EndsWith(list, commit, keys) ==
  \E i \in 1 .. Len(list) :
    list[i] = commit /\ \A j \in i + 1 .. Len(list) : list[j][1] \notin keys

LastOf(list, k) ==
  CHOOSE i \in 1 .. Len(list) :
    list[i][1] = k /\ \A j \in i + 1 .. Len(list) : list[j][1] # k

Stored(list, p) ==
  [k \in Keys |-> IF Skips(list, {k}) THEN p[k] ELSE list[LastOf(list, k)][2]]

(* A handler of another setting leaves the bits of this one alone.         *)
KeepsBit(list, position) ==
  \A i \in 1 .. Len(list) : \A c \in Words :
    list[i][1] = c => Bit(list[i][2], position) = Bit(pref[c], position)

LoudOwed(handler, list) ==
  IF "loud" \in Covers(handler)
    THEN LoudFollows(Stored(list, pref))
    ELSE Skips(list, {"loud"}) /\ KeepsBit(list, 2)

GainOwed(handler, list) ==
  IF "gain" \in Covers(handler)
    THEN GainFollows(Stored(list, pref))
    ELSE Skips(list, {"gain"}) /\ KeepsBit(list, 3) /\ KeepsBit(list, 4)

(* Who changes a field of the frame sends it after the last change.        *)
FrameKeys == Speakers \cup {"bass", "treble"}

SendsLast(list) == EndsWith(list, Send, FrameKeys)

FrameOwed(handler, list) ==
  IF Covers(handler) \cap Tellers = {}
    THEN Skips(list, FrameKeys \cup {"frame"})
    ELSE SendsLast(list) \/ (Told /\ Skips(list, FrameKeys))

PlaceOwed(handler, list) ==
  IF "balance" \in Covers(handler)
    THEN NearIsLouder(Stored(list, pref))
    ELSE Skips(list, Speakers \cup {"x", "y"})

(* A setting is right unless its handler died or runs, and what a handler  *)
(* owes completes its setting and touches no other.                        *)
OwedInv ==
  LET unsettled == torn \cup Covers(busy)
  IN  /\ "loud" \notin unsettled => LoudFollows(pref)
      /\ "gain" \notin unsettled => GainFollows(pref)
      /\ unsettled \cap Tellers = {} => Told
      /\ "balance" \notin unsettled => NearIsLouder(pref)
      /\ LoudOwed(busy, todo) /\ GainOwed(busy, todo)
      /\ FrameOwed(busy, todo) /\ PlaceOwed(busy, todo)

(* The last frame is the last to come, or the last that came.              *)
LastComesLast ==
  ~behind => frame = IF posts = <<>> THEN heard ELSE posts[Len(posts)].frame

(* What the sound module has heard is what is stored, with the process     *)
(* killed between any two commits, or between a commit and the frame that  *)
(* is sent after a delay. Between handlers the words hold the bits of      *)
(* loudness and gain as they are set; with no frame posted the last one    *)
(* heard has all settings in force, unless the death cost it one or an     *)
(* older one came later; the near speakers are the louder ones. While a    *)
(* handler runs, what it owes completes its setting.                       *)
SettingsReachModule ==
  OwedInv /\ LastComesLast /\ WordsFollowSettings /\ StoredIsSent /\ NearSpeakersAreLouder

(* What the comment of getAudioValues says of the frame: after the volume  *)
(* come six fields of three characters.                                    *)
FrameIsWellFormed == \A f \in DOMAIN frame : frame[f].width = 3
=============================================================================
