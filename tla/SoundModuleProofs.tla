-------------------------- MODULE SoundModuleProofs --------------------------
(***************************************************************************)
(* Theorems about the settings of the sound module, for any tones, gains   *)
(* and spots and any number of deaths of the process.                      *)
(*                                                                         *)
(* The invariant says of the commits a handler still owes what the type    *)
(* invariant says of the preferences; so a death between two of them       *)
(* leaves nothing malformed.  A second invariant, OwedInv, says that the   *)
(* commits owed complete the setting of the handler and touch no other;    *)
(* so between handlers each setting is complete or was torn by a death.    *)
(***************************************************************************)
EXTENDS SoundModule, TLAPS, WellFoundedInduction

(* The values that a word can take: its select bits with any three others. *)
WordsOf(c) == {w \in 64..95 : w % 4 = Default[c] % 4}

Levels == {0, 7, 14, 22, 30, 31}

(* The commits that handlers are made of.                                  *)
Commits ==
  {<<c, w>> : c \in {"aux"}, w \in WordsOf("aux")}
    \cup {<<c, w>> : c \in {"radio"}, w \in WordsOf("radio")}
    \cup {<<c, w>> : c \in {"android"}, w \in WordsOf("android")}
    \cup Speakers \X Levels
    \cup {"loud"} \X {0, 1}
    \cup {"gain"} \X {0, 4, 8, 12}
    \cup {"bass", "treble"} \X (-7..7)
    \cup {"x"} \X (0..160)
    \cup {"y"} \X (0..240)
    \cup {Send}

Fields == [number : 0..255, width : 1..4]

PrefOK ==
  /\ DOMAIN pref = Keys
  /\ \A c \in Words : pref[c] \in WordsOf(c)
  /\ \A s \in Speakers : pref[s] \in Levels
  /\ pref["loud"] \in {0, 1} /\ pref["gain"] \in {0, 4, 8, 12}
  /\ pref["bass"] \in -7..7 /\ pref["treble"] \in -7..7
  /\ pref["x"] \in 0..160 /\ pref["y"] \in 0..240
  /\ pref = [k \in Keys |-> pref[k]]

TodoOK ==
  /\ todo \in Seq(Commits)
  /\ busy \in Handlers
  /\ (busy = "none") = (todo = <<>>)

SentOK ==
  /\ base \in [Screens -> Fields]
  /\ frame \in Frames /\ heard \in Frames
  /\ posts \in Seq(Posts) /\ behind \in BOOLEAN

RestOK ==
  /\ home \in BOOLEAN /\ open \in BOOLEAN
  /\ torn \subseteq Handlers
  /\ kills \in 0..MaxKills

IInv == PrefOK /\ TodoOK /\ SentOK /\ RestOK

-----------------------------------------------------------------------------
(* Setting a bit above the select bits leaves them alone and the word in   *)
(* its range (modifyBit).                                                  *)
LEMMA ModifyBitKeeps ==
  ASSUME NEW w \in 64..95, NEW p \in {2, 3, 4}, NEW b \in {0, 1}
  PROVE  /\ ModifyBit(w, p, b) \in 64..95
         /\ ModifyBit(w, p, b) % 4 = w % 4
<1>1. CASE p = 2
  BY <1>1 DEF ModifyBit, Bit, Weight
<1>2. CASE p = 3
  BY <1>2 DEF ModifyBit, Bit, Weight
<1>3. CASE p = 4
  BY <1>3 DEF ModifyBit, Bit, Weight
<1> QED BY <1>1, <1>2, <1>3

(* The three words stay words when a bit of each is set.                   *)
LEMMA ModifiedKeeps ==
  ASSUME NEW words, \A c \in Words : words[c] \in WordsOf(c),
         NEW p \in {2, 3, 4}, NEW b \in {0, 1}
  PROVE  \A c \in Words : Modified(words, p, b)[c] \in WordsOf(c)
BY ModifyBitKeeps DEF Modified, WordsOf

(* Storing three words is a list of commits.                               *)
LEMMA StoreWordsOK ==
  ASSUME NEW words, \A c \in Words : words[c] \in WordsOf(c)
  PROVE  StoreWords(words) \in Seq(Commits) /\ StoreWords(words) # <<>>
<1>1. /\ <<"aux", words["aux"]>> \in Commits
      /\ <<"android", words["android"]>> \in Commits
      /\ <<"radio", words["radio"]>> \in Commits
  BY DEF Commits, Words
<1> QED BY <1>1 DEF StoreWords

(* The handlers of loudness and gain are lists of commits.                 *)
LEMMA LoudStateOK ==
  ASSUME NEW words, \A c \in Words : words[c] \in WordsOf(c),
         NEW state \in {0, 1}
  PROVE  LoudState(words, state) \in Seq(Commits) \ {<<>>}
<1>1. <<<<"loud", state>>>> \in Seq(Commits)
  <2>1. <<"loud", state>> \in Commits
    BY DEF Commits
  <2> QED BY <2>1
<1>2. 1 - state \in {0, 1}
  OBVIOUS
<1>3. StoreWords(Modified(words, 2, 1 - state)) \in Seq(Commits)
  BY <1>2, ModifiedKeeps, StoreWordsOK
<1> QED BY <1>1, <1>3 DEF LoudState

LEMMA SetGainValueOK ==
  ASSUME NEW words, \A c \in Words : words[c] \in WordsOf(c),
         NEW value \in {0, 4, 8, 12}
  PROVE  SetGainValue(words, value) \in Seq(Commits) \ {<<>>}
<1> DEFINE low == IF value \in {0, 8} THEN 1 ELSE 0
           high == IF value \in {0, 4} THEN 1 ELSE 0
           lower == Modified(words, 3, low)
<1>1. <<<<"gain", value>>>> \in Seq(Commits)
  <2>1. <<"gain", value>> \in Commits
    BY DEF Commits
  <2> QED BY <2>1
<1>2. low \in {0, 1} /\ high \in {0, 1}
  OBVIOUS
<1>3. \A c \in Words : lower[c] \in WordsOf(c)
  BY <1>2, ModifiedKeeps
<1> HIDE DEF low, high, lower
<1>4. StoreWords(lower) \in Seq(Commits)
  BY <1>3, StoreWordsOK
<1>5. StoreWords(Modified(lower, 4, high)) \in Seq(Commits)
  BY <1>2, <1>3, ModifiedKeeps, StoreWordsOK
<1> QED BY <1>1, <1>4, <1>5 DEF SetGainValue, lower, low, high

(* So are those of the balance.                                            *)
LEMMA SpeakersInitOK ==
  ASSUME NEW fl, NEW fr, NEW rl, NEW rr
  PROVE  SpeakersInit(fl, fr, rl, rr) \in Seq(Commits)
<1>1. \A v : CheckPercent(v) \in Levels
  BY DEF CheckPercent, Levels
<1>2. \A s \in Speakers : \A v : <<s, CheckPercent(v)>> \in Commits
  BY <1>1 DEF Commits
<1>3. Send \in Commits
  BY DEF Commits
<1> QED BY <1>2, <1>3 DEF SpeakersInit, Speakers

LEMMA SetXYcordinatesOK ==
  ASSUME NEW spot \in Area
  PROVE  SetXYcordinates(spot) \in Seq(Commits) \ {<<>>}
<1>1. <<"x", spot[1]>> \in Commits /\ <<"y", spot[2]>> \in Commits
  BY DEF Commits, Area
<1> QED BY <1>1 DEF SetXYcordinates

LEMMA BalanceOK ==
  ASSUME NEW spot \in Area
  PROVE  CalculateBalanceData(spot) \o SetXYcordinates(spot)
           \in Seq(Commits) \ {<<>>}
<1>1. CalculateBalanceData(spot) \in Seq(Commits)
  BY SpeakersInitOK DEF CalculateBalanceData
<1> QED BY <1>1, SetXYcordinatesOK

LEMMA ToCentreOK == ToCentre \in Seq(Commits) \ {<<>>}
<1>1. Centre \in Area
  BY DEF Centre, Area
<1> QED BY <1>1, SetXYcordinatesOK, SpeakersInitOK DEF ToCentre

(* Every frame has its six fields.                                         *)
LEMMA DecimalOK == \A n \in 0..255 : Decimal(n) \in Fields
BY DEF Decimal, Fields

LEMMA BaseOK ==
  ASSUME NEW i \in -7..7, NEW field \in Fields
  PROVE  GetBaseValue(i, field) \in Fields
<1>1. CASE i < -3
  <2>1. 103 + i \in 96..99
    BY <1>1
  <2> QED BY <1>1, <2>1 DEF GetBaseValue, Padded, Decimal, Fields
<1>2. CASE i >= -3 /\ i < 0
  BY <1>2 DEF GetBaseValue
<1>3. CASE i >= 0
  <2>1. 111 - i \in 0..255
    BY <1>3
  <2> QED BY <1>3, <2>1, DecimalOK DEF GetBaseValue
<1> QED BY <1>1, <1>2, <1>3

LEMMA FrameOK ==
  ASSUME PrefOK, NEW field \in Fields
  PROVE  GetAudioValues(pref, field) \in Frames
<1>1. /\ 223 - pref["lf"] \in 0..255 /\ 255 - pref["rf"] \in 0..255
      /\ 159 - pref["lr"] \in 0..255 /\ 191 - pref["rr"] \in 0..255
  BY DEF PrefOK, Speakers, Levels
<1>2. GetTrebleValue(pref["treble"]) \in Fields
  <2>1. pref["treble"] \in -7..7
    BY DEF PrefOK
  <2>2. (IF pref["treble"] < 0 THEN 119 + pref["treble"]
                               ELSE 127 - pref["treble"]) \in 0..255
    BY <2>1
  <2> QED BY <2>2, DecimalOK DEF GetTrebleValue
<1>3. GetBaseValue(pref["bass"], field) \in Fields
  BY BaseOK DEF PrefOK
<1>4. /\ Decimal(223 - pref["lf"]) \in Fields
      /\ Decimal(255 - pref["rf"]) \in Fields
      /\ Decimal(159 - pref["lr"]) \in Fields
      /\ Decimal(191 - pref["rr"]) \in Fields
  BY <1>1, DecimalOK
<1>5. Frames = [{"lf", "rf", "lr", "rr", "bass", "treble"} -> Fields]
  BY DEF Frames, Fields
<1> QED BY <1>2, <1>3, <1>4, <1>5 DEF GetAudioValues

-----------------------------------------------------------------------------
(* The initial preferences are those of PrefManager.                       *)
LEMMA InitOK == Init => IInv
<1> SUFFICES ASSUME Init
             PROVE  IInv
  OBVIOUS
<1>1. PrefOK
  <2>1. /\ DOMAIN pref = Keys
        /\ pref = [k \in Keys |-> pref[k]]
    BY DEF Init
  <2>2. \A c \in Words : pref[c] = Default[c]
    BY DEF Init, Keys, Words, Speakers
  <2>3. \A c \in Words : Default[c] \in WordsOf(c)
    BY DEF Words, WordsOf, Default
  <2>4. \A s \in Speakers : pref[s] = 30
    BY DEF Init, Keys, Words, Speakers
  <2>5. /\ pref["loud"] = 0 /\ pref["gain"] = 0
        /\ pref["bass"] = 0 /\ pref["treble"] = 0
        /\ pref["x"] = 93 /\ pref["y"] = 128
    BY DEF Init, Keys, Words, Speakers, Centre
  <2> QED BY <2>1, <2>2, <2>3, <2>4, <2>5 DEF PrefOK, Levels
<1>2. TodoOK
  BY DEF Init, TodoOK, Handlers
<1>3. Null \in Fields
  BY DEF Null, Fields
<1>4. SentOK
  <2>1. frame \in Frames
    BY <1>1, <1>3, FrameOK DEF Init
  <2>2. Decimal(111) \in Fields
    BY DecimalOK
  <2>3. base \in [Screens -> Fields]
    BY <2>2 DEF Init
  <2>4. heard \in Frames /\ posts \in Seq(Posts) /\ behind \in BOOLEAN
    <3>1. posts = <<>> /\ heard = frame
      BY DEF Init
    <3>2. behind = FALSE
      BY Zenon DEF Init
    <3>3. heard \in Frames /\ posts \in Seq(Posts)
      BY <2>1, <3>1
    <3>4. behind \in BOOLEAN
      BY <3>2
    <3> QED BY <3>3, <3>4
  <2> QED BY <2>1, <2>3, <2>4 DEF SentOK
<1>5. RestOK
  <2>1. kills \in 0..MaxKills
    BY SoundModuleAssumption DEF Init, SoundModuleAssumption
  <2>2. home \in BOOLEAN /\ open \in BOOLEAN /\ torn \subseteq Handlers
    BY DEF Init
  <2> QED BY <2>1, <2>2 DEF RestOK
<1> QED BY <1>1, <1>2, <1>4, <1>5 DEF IInv

(* A step that stores nothing keeps the preferences as they are.           *)
LEMMA PrefKept ==
  ASSUME IInv, pref' = pref
  PROVE  PrefOK'
BY DEF IInv, PrefOK

(* A handler that starts with a list of commits keeps the invariant.       *)
LEMMA HandlesOK ==
  ASSUME IInv, NEW g, NEW h \in Handlers \ {"none"},
         NEW list \in Seq(Commits) \ {<<>>}, Handles(g, h, list)
  PROVE  IInv'
<1> USE DEF Handles, Starts
<1>1. PrefOK'
  BY PrefKept
<1>2. TodoOK'
  BY DEF TodoOK
<1>3. SentOK'
  BY DEF IInv, SentOK, sending
<1>4. RestOK'
  BY DEF IInv, RestOK
<1> QED BY <1>1, <1>2, <1>3, <1>4 DEF IInv

(* A commit changes one key, to a value of its kind.                       *)
LEMMA StoreOK ==
  ASSUME PrefOK, NEW commit \in Commits, commit # Send,
         pref' = [pref EXCEPT ![commit[1]] = commit[2]]
  PROVE  PrefOK'
<1> DEFINE k == commit[1]
           v == commit[2]
<1>1. /\ k \in Words => v \in WordsOf(k)
      /\ k \in Speakers => v \in Levels
      /\ k = "loud" => v \in {0, 1}
      /\ k = "gain" => v \in {0, 4, 8, 12}
      /\ k \in {"bass", "treble"} => v \in -7..7
      /\ k = "x" => v \in 0..160
      /\ k = "y" => v \in 0..240
  BY DEF Commits, Words, Speakers, Send
<1>2. k \in Keys
  BY DEF Commits, Words, Speakers, Send, Keys
<1> HIDE DEF k, v
<1>3. /\ DOMAIN pref' = Keys
      /\ pref' = [x \in Keys |-> pref'[x]]
      /\ \A x \in Keys : pref'[x] = IF x = k THEN v ELSE pref[x]
  BY DEF PrefOK, k, v
<1>4. /\ Words \subseteq Keys /\ Speakers \subseteq Keys
      /\ {"loud", "gain", "bass", "treble", "x", "y"} \subseteq Keys
  BY DEF Keys
<1>5. \A c \in Words : pref'[c] \in WordsOf(c)
  BY <1>1, <1>3, <1>4 DEF PrefOK
<1>6. \A s \in Speakers : pref'[s] \in Levels
  BY <1>1, <1>3, <1>4 DEF PrefOK
<1>7. /\ pref'["loud"] \in {0, 1} /\ pref'["gain"] \in {0, 4, 8, 12}
      /\ pref'["bass"] \in -7..7 /\ pref'["treble"] \in -7..7
      /\ pref'["x"] \in 0..160 /\ pref'["y"] \in 0..240
  BY <1>1, <1>3, <1>4 DEF PrefOK
<1> QED BY <1>3, <1>5, <1>6, <1>7 DEF PrefOK

(* A frame is posted in its place; with none overtaken it is the last one  *)
(* to come.                                                                *)
LEMMA SendFrameOK ==
  ASSUME PrefOK, SentOK, NEW instance \in Screens, NEW field \in Fields, SendFrame(instance, field)
  PROVE  SentOK' /\ LastComesLast'
<1>1. PICK n \in 0 .. Len(posts) :
        /\ posts' = SubSeq(posts, 1, n) \o <<[from |-> instance, frame |-> frame']>>
                      \o SubSeq(posts, n + 1, Len(posts))
        /\ behind' = (n < Len(posts))
  BY DEF SendFrame
<1>2. frame' \in Frames /\ heard' = heard
  BY FrameOK DEF SendFrame
<1>3. base' \in [Screens -> Fields]
  <2>1. GetBaseValue(pref["bass"], field) \in Fields
    BY BaseOK DEF PrefOK
  <2> QED BY <2>1 DEF SentOK, SendFrame
<1> DEFINE post == [from |-> instance, frame |-> frame']
           first == SubSeq(posts, 1, n)
           rest == SubSeq(posts, n + 1, Len(posts))
<1>4. post \in Posts /\ post.frame = frame'
  BY <1>2 DEF Posts
<1>5. posts \in Seq(Posts)
  BY DEF SentOK
<1>6. first \in Seq(Posts) /\ Len(first) = n /\ rest \in Seq(Posts)
  BY <1>5
<1>7. n = Len(posts) => rest = <<>>
  BY <1>5
<1>8. posts' = first \o <<post>> \o rest
  BY <1>1
<1> HIDE DEF post, first, rest
<1>9. posts' \in Seq(Posts)
  BY <1>4, <1>6, <1>8
<1>10. ASSUME ~behind'
       PROVE  posts' # <<>> /\ posts'[Len(posts')] = post
  <2>1. n = Len(posts)
    <3>1. ~(n < Len(posts))
      BY <1>1, <1>10, Zenon
    <3> QED BY <1>5, <3>1
  <2>2. posts' = Append(first, post)
    BY <1>4, <1>6, <1>7, <1>8, <2>1
  <2> QED BY <1>4, <1>6, <2>2
<1>11. behind' \in BOOLEAN
  BY <1>1
<1> QED BY <1>2, <1>3, <1>4, <1>9, <1>10, <1>11 DEF SentOK, LastComesLast

(* So does the step that carries out the first commit owed.                *)
LEMMA CommitOK ==
  ASSUME IInv, Commit
  PROVE  IInv'
<1>1. todo \in Seq(Commits) /\ todo # <<>>
  BY DEF IInv, TodoOK, Commit
<1>2. Head(todo) \in Commits /\ Tail(todo) \in Seq(Commits)
  BY <1>1
<1>3. PrefOK'
  <2>1. CASE Head(todo) = Send
    BY <2>1, PrefKept DEF Commit
  <2>2. CASE Head(todo) # Send
    BY <1>2, <2>2, StoreOK DEF Commit, IInv
  <2> QED BY <2>1, <2>2
<1>4. TodoOK'
  BY <1>2 DEF Commit, IInv, TodoOK, Handlers
<1>5. SentOK'
  <2>1. CASE Head(todo) = Send
    <3>1. base["settings"] \in Fields /\ "settings" \in Screens
      BY DEF IInv, SentOK, Screens
    <3> QED BY <2>1, <3>1, SendFrameOK DEF Commit, IInv
  <2>2. CASE Head(todo) # Send
    BY <2>2 DEF Commit, IInv, SentOK, sending
  <2> QED BY <2>1, <2>2
<1>6. RestOK'
  BY DEF Commit, IInv, RestOK
<1> QED BY <1>3, <1>4, <1>5, <1>6 DEF IInv

LEMMA SettingsOpensOK ==
  ASSUME IInv, SettingsOpens
  PROVE  IInv'
<1>1. PrefOK'
  BY PrefKept DEF SettingsOpens, Starts
<1>2. TodoOK'
  <2>1. LoudState(pref, 1) \in Seq(Commits) \ {<<>>}
    BY LoudStateOK DEF IInv, PrefOK
  <2>2. CASE pref["loud"] = 1
    BY <2>1, <2>2 DEF SettingsOpens, Starts, TodoOK, Handlers
  <2>3. CASE pref["loud"] # 1
    BY <2>3 DEF SettingsOpens, Starts, TodoOK, Handlers
  <2> QED BY <2>2, <2>3
<1>3. SentOK'
  <2>1. Null \in Fields
    BY DEF Null, Fields
  <2>2. GetBaseValue(pref["bass"], Null) \in Fields
    BY <2>1, BaseOK DEF IInv, PrefOK
  <2> QED BY <2>2 DEF SettingsOpens, Starts, IInv, SentOK, sending
<1>4. RestOK'
  BY DEF SettingsOpens, Starts, IInv, RestOK
<1> QED BY <1>1, <1>2, <1>3, <1>4 DEF IInv

LEMMA HomeResumesOK ==
  ASSUME IInv, HomeResumes
  PROVE  IInv'
<1>1. PrefOK'
  BY PrefKept DEF HomeResumes
<1>2. TodoOK'
  BY DEF HomeResumes, IInv, TodoOK
<1>3. SentOK'
  <2>1. PICK old \in {base["home"], Null} : SendFrame("home", old)
    BY DEF HomeResumes
  <2>2. old \in Fields /\ "home" \in Screens
    BY DEF IInv, SentOK, Null, Fields, Screens
  <2> QED BY <2>1, <2>2, SendFrameOK DEF IInv
<1>4. RestOK'
  BY DEF HomeResumes, IInv, RestOK
<1> QED BY <1>1, <1>2, <1>3, <1>4 DEF IInv

LEMMA FrameArrivesOK ==
  ASSUME IInv, FrameArrives
  PROVE  IInv'
<1>1. PrefOK'
  BY PrefKept DEF FrameArrives
<1>2. TodoOK' /\ RestOK'
  BY DEF FrameArrives, IInv, TodoOK, RestOK
<1>3. SentOK'
  <2>1. posts \in Seq(Posts) /\ posts # <<>>
    BY DEF FrameArrives, IInv, SentOK
  <2>2. Head(posts) \in Posts /\ Tail(posts) \in Seq(Posts)
    BY <2>1
  <2> QED BY <2>2 DEF FrameArrives, IInv, SentOK, Posts
<1> QED BY <1>1, <1>2, <1>3 DEF IInv

LEMMA KilledOK ==
  ASSUME IInv, Killed
  PROVE  IInv'
<1>1. PrefOK'
  BY PrefKept DEF Killed
<1>2. TodoOK'
  BY DEF Killed, TodoOK, Handlers
<1>3. SentOK'
  <2>1. base' \in [Screens -> Fields]
    BY DEF Killed, Null, Fields
  <2> QED BY <2>1 DEF Killed, IInv, SentOK
<1>4. RestOK'
  <2>1. Covers(busy) \subseteq Handlers
    BY DEF IInv, TodoOK, Covers
  <2>2. torn' \subseteq Handlers
    BY <2>1 DEF Killed, IInv, RestOK
  <2>3. kills' \in 0..MaxKills
    BY SoundModuleAssumption
       DEF Killed, IInv, RestOK, SoundModuleAssumption
  <2> QED BY <2>2, <2>3 DEF Killed, RestOK
<1> QED BY <1>1, <1>2, <1>3, <1>4 DEF IInv

LEMMA ResetOK ==
  ASSUME IInv
  PROVE  ToCentre \o LoudState(pref, 0)
           \o <<<<"bass", 0>>, Send, <<"treble", 0>>, Send>>
           \o SetGainValue(Modified(pref, 2, 1), 0) \in Seq(Commits) \ {<<>>}
<1>1. LoudState(pref, 0) \in Seq(Commits) \ {<<>>}
  BY LoudStateOK DEF IInv, PrefOK
<1>2. <<<<"bass", 0>>, Send, <<"treble", 0>>, Send>> \in Seq(Commits) \ {<<>>}
  <2>1. /\ <<"bass", 0>> \in Commits /\ <<"treble", 0>> \in Commits
        /\ Send \in Commits
    BY DEF Commits
  <2> QED BY <2>1
<1>3. SetGainValue(Modified(pref, 2, 1), 0) \in Seq(Commits) \ {<<>>}
  BY ModifiedKeeps, SetGainValueOK DEF IInv, PrefOK
<1> QED BY <1>1, <1>2, <1>3, ToCentreOK

(* Every step keeps the invariant: one case for each action.               *)
LEMMA NextOK == IInv /\ [Next]_vars => IInv'
<1> SUFFICES ASSUME IInv, [Next]_vars
             PROVE  IInv'
  OBVIOUS
<1>1. \A c \in Words : pref[c] \in WordsOf(c)
  BY DEF IInv, PrefOK
<1>2. CASE SettingsOpens
  BY <1>2, SettingsOpensOK
<1>3. CASE Loudness
  <2>1. PICK state \in {0, 1} :
          Handles("loudness", "loud", LoudState(pref, state))
    BY <1>3 DEF Loudness
  <2>2. LoudState(pref, state) \in Seq(Commits) \ {<<>>}
    BY <1>1, LoudStateOK
  <2> QED BY <2>1, <2>2, HandlesOK DEF Handlers
<1>4. CASE Gain
  <2>1. PICK value \in Gains : Handles("gain", "gain", SetGainValue(pref, value))
    BY <1>4 DEF Gain
  <2>2. SetGainValue(pref, value) \in Seq(Commits) \ {<<>>}
    BY <1>1, SetGainValueOK, SoundModuleAssumption DEF SoundModuleAssumption
  <2> QED BY <2>1, <2>2, HandlesOK DEF Handlers
<1>5. CASE Bass
  <2>1. PICK value \in Tones :
          Handles("bass", "bass", <<<<"bass", value>>, Send>>)
    BY <1>5 DEF Bass
  <2>2. <<"bass", value>> \in Commits /\ Send \in Commits
    BY SoundModuleAssumption DEF Commits, SoundModuleAssumption
  <2>3. <<<<"bass", value>>, Send>> \in Seq(Commits) \ {<<>>}
    BY <2>2
  <2> QED BY <2>1, <2>3, HandlesOK DEF Handlers
<1>6. CASE Treble
  <2>1. PICK value \in Tones :
          Handles("treble", "treble", <<<<"treble", value>>, Send>>)
    BY <1>6 DEF Treble
  <2>2. <<"treble", value>> \in Commits /\ Send \in Commits
    BY SoundModuleAssumption DEF Commits, SoundModuleAssumption
  <2>3. <<<<"treble", value>>, Send>> \in Seq(Commits) \ {<<>>}
    BY <2>2
  <2> QED BY <2>1, <2>3, HandlesOK DEF Handlers
<1>7. CASE Balance
  <2>1. PICK spot \in Spots :
          Handles("balance", "balance",
                  CalculateBalanceData(spot) \o SetXYcordinates(spot))
    BY <1>7 DEF Balance
  <2>2. spot \in Area
    BY SoundModuleAssumption DEF SoundModuleAssumption
  <2> QED BY <2>1, <2>2, BalanceOK, HandlesOK DEF Handlers
<1>8. CASE Arrow
  <2>1. PICK spot \in Area :
          Handles("arrow", "balance",
                  CalculateBalanceData(spot) \o SetXYcordinates(spot))
    BY <1>8 DEF Arrow
  <2> QED BY <2>1, BalanceOK, HandlesOK DEF Handlers
<1>9. CASE BalanceReset
  BY <1>9, ToCentreOK, HandlesOK DEF BalanceReset, Handlers
<1>10. CASE Reset
  BY <1>10, ResetOK, HandlesOK DEF Reset, Handlers
<1>11. CASE Commit
  BY <1>11, CommitOK
<1>12. CASE HomeResumes
  BY <1>12, HomeResumesOK
<1>13. CASE Killed
  BY <1>13, KilledOK
<1>14. CASE FrameArrives
  BY <1>14, FrameArrivesOK
<1>15. CASE UNCHANGED vars
  <2>1. PrefOK'
    BY <1>15, PrefKept DEF vars
  <2> QED BY <1>15, <2>1 DEF vars, IInv, TodoOK, SentOK, RestOK
<1> QED BY <1>2, <1>3, <1>4, <1>5, <1>6, <1>7, <1>8, <1>9, <1>10, <1>11,
           <1>12, <1>13, <1>14, <1>15 DEF Next

(* The invariant of the settings screen holds in every reachable state.    *)
THEOREM Invariance == Spec => []IInv
BY InitOK, NextOK, PTL DEF Spec

-----------------------------------------------------------------------------
LEMMA InvSuffices == IInv => TypeOK
<1> SUFFICES ASSUME IInv
             PROVE  TypeOK
  OBVIOUS
<1>1. \A c \in Words : pref[c] \in 64..127
  BY DEF IInv, PrefOK, WordsOf
<1>2. \A s \in Speakers : pref[s] \in {0, 7, 14, 22, 30, 31}
  BY DEF IInv, PrefOK, Levels
<1>3. <<pref["x"], pref["y"]>> \in Area
  BY DEF IInv, PrefOK, Area
<1>4. base \in [Screens -> [number : 0..255, width : 1..4]]
  BY DEF IInv, SentOK, Fields
<1> QED BY <1>1, <1>2, <1>3, <1>4
        DEF TypeOK, IInv, PrefOK, TodoOK, SentOK, RestOK

(* The preferences, the frame and what a handler still owes keep their     *)
(* types, for all tones, gains, spots and deaths (AudioValues, PrefManager *)
(* and SettingsActivity).                                                  *)
THEOREM SoundTypes == Spec => []TypeOK
BY InvSuffices, Invariance, PTL

(* Whatever is set and wherever a handler dies, each word goes on          *)
(* selecting its own channel (AudioValues.modifyBit and the word stores).  *)
THEOREM SelectBitsStay == Spec => []SelectBitsKept
<1>1. IInv => SelectBitsKept
  <2> SUFFICES ASSUME IInv, NEW c \in Words
               PROVE  /\ pref[c] % 4 = Default[c] % 4
                      /\ pref[c] \div 32 = Default[c] \div 32
    BY DEF SelectBitsKept
  <2>1. pref[c] \in 64..95 /\ pref[c] % 4 = Default[c] % 4
    BY DEF IInv, PrefOK, WordsOf
  <2>2. Default[c] \in 64..95
    BY DEF Default, Words
  <2>3. \A w \in 64..95 : w \div 32 = 2
    OBVIOUS
  <2> QED BY <2>1, <2>2, <2>3
<1> QED BY <1>1, Invariance, PTL

-----------------------------------------------------------------------------
(* The settings that a list of commits comes to.                           *)
(* The bits of a word after one of them is set (modifyBit).                *)
LEMMA ModifyBits ==
  ASSUME NEW w \in 64..95, NEW p \in {2, 3, 4}, NEW b \in {0, 1}
  PROVE  /\ Bit(ModifyBit(w, p, b), p) = b
         /\ \A q \in {2, 3, 4} \ {p} : Bit(ModifyBit(w, p, b), q) = Bit(w, q)
<1>1. CASE p = 2
  BY <1>1 DEF ModifyBit, Bit, Weight
<1>2. CASE p = 3
  BY <1>2 DEF ModifyBit, Bit, Weight
<1>3. CASE p = 4
  BY <1>3 DEF ModifyBit, Bit, Weight
<1> QED BY <1>1, <1>2, <1>3

(* A key that a list skips keeps its value; one that it ends with takes    *)
(* it.                                                                     *)
LEMMA StoredSkips ==
  ASSUME NEW list, NEW p, NEW k \in Keys, Skips(list, {k})
  PROVE  Stored(list, p)[k] = p[k]
BY DEF Stored

LEMMA StoredEnds ==
  ASSUME NEW list \in Seq(Commits), NEW p, NEW k \in Keys, NEW v, EndsWith(list, <<k, v>>, {k})
  PROVE  Stored(list, p)[k] = v
<1> DEFINE Is(i) == list[i][1] = k /\ \A j \in i + 1 .. Len(list) : list[j][1] # k
           l == LastOf(list, k)
<1>1. PICK i \in 1 .. Len(list) :
        list[i] = <<k, v>> /\ \A j \in i + 1 .. Len(list) : list[j][1] # k
  BY DEF EndsWith
<1>2. Is(i)
  BY <1>1
<1>3. l \in 1 .. Len(list) /\ Is(l)
  <2>1. l = CHOOSE x \in 1 .. Len(list) : Is(x)
    BY DEF LastOf
  <2> HIDE DEF l, Is
  <2> QED BY <1>2, <2>1
<1>4. l = i
  <2>1. i \in Int /\ l \in Int /\ Len(list) \in Nat
    BY <1>3
  <2>2. ~(l < i)
    BY <1>1, <1>3, <2>1
  <2>3. ~(i < l)
    BY <1>1, <1>3, <2>1
  <2> QED BY <2>1, <2>2, <2>3
<1>5. ~Skips(list, {k})
  BY <1>1 DEF Skips
<1> HIDE DEF l
<1>6. Stored(list, p)[k] = list[l][2]
  BY <1>5 DEF Stored, l
<1> QED BY <1>1, <1>4, <1>6

(* A set of places of a list has a last one.                               *)
LEMMA LastPlace ==
  ASSUME NEW n \in Nat, NEW S \in SUBSET (1 .. n), S # {}
  PROVE  \E i \in S : \A j \in S : j <= i
<1> DEFINE R == OpToRel(<, Nat)
           T == {n - i : i \in S}
<1>1. T \subseteq Nat /\ T # {}
  <2>1. \A i \in S : n - i \in Nat
    OBVIOUS
  <2>2. PICK i \in S : TRUE
    OBVIOUS
  <2>3. n - i \in T
    OBVIOUS
  <2> QED BY <2>1, <2>3
<1>2. PICK x \in T : \A y \in T : ~(<<y, x>> \in R)
  <2> HIDE DEF R, T
  <2>1. IsWellFoundedOn(R, Nat)
    BY NatLessThanWellFounded DEF R
  <2> QED BY <1>1, <2>1, WFMin
<1>3. \A y \in T : ~(y < x)
  <2>1. \A y \in T : <<y, x>> \in R <=> y < x
    BY <1>1 DEF OpToRel
  <2> QED BY <1>2, <2>1
<1>4. PICK i \in S : x = n - i
  BY <1>2
<1>5. \A j \in S : ~(n - j < n - i)
  BY <1>3, <1>4
<1> QED BY <1>4, <1>5

(* Either way a list says something of each key.                           *)
LEMMA SkipsOrEnds ==
  ASSUME NEW list \in Seq(Commits), NEW k
  PROVE  Skips(list, {k}) \/ \E v : EndsWith(list, <<k, v>>, {k})
<1> SUFFICES ASSUME ~Skips(list, {k})
             PROVE  \E v : EndsWith(list, <<k, v>>, {k})
  OBVIOUS
<1> DEFINE S == {i \in 1 .. Len(list) : list[i][1] = k}
<1>1. S \in SUBSET (1 .. Len(list)) /\ S # {} /\ Len(list) \in Nat
  BY DEF Skips
<1>2. PICK i \in S : \A j \in S : j <= i
  <2> HIDE DEF S
  <2> QED BY <1>1, LastPlace
<1>3. \A c \in Commits : c = <<c[1], c[2]>>
  BY DEF Commits, Send
<1>4. list[i] = <<k, list[i][2]>>
  BY <1>2, <1>3
<1>5. \A j \in i + 1 .. Len(list) : list[j][1] # k
  BY <1>2
<1> QED BY <1>2, <1>4, <1>5 DEF EndsWith

After(p, commit) ==
  IF commit = Send THEN p ELSE [p EXCEPT ![commit[1]] = commit[2]]

(* Carrying out the first commit does not change what the list comes to.   *)
LEMMA StoredTail ==
  ASSUME NEW list \in Seq(Commits), list # <<>>, NEW p, DOMAIN p = Keys, NEW k \in Keys
  PROVE  Stored(Tail(list), After(p, Head(list)))[k] = Stored(list, p)[k]
<1> DEFINE t == Tail(list)
           q == After(p, Head(list))
<1>0. /\ Head(list) = Send => q = p
      /\ Head(list) # Send => q = [p EXCEPT ![Head(list)[1]] = Head(list)[2]]
  BY DEF After
<1> SUFFICES Stored(t, q)[k] = Stored(list, p)[k]
  OBVIOUS
<1> HIDE DEF q
<1>1. /\ t \in Seq(Commits) /\ Len(list) \in Nat /\ Len(t) = Len(list) - 1
      /\ Head(list) = list[1] /\ Head(list) \in Commits
      /\ \A i \in 1 .. Len(t) : t[i] = list[i + 1]
  OBVIOUS
<1>2. CASE Skips(t, {k})
  <2>1. Stored(t, q)[k] = q[k]
    BY <1>2 DEF Stored
  <2>2. \A j \in 2 .. Len(list) : list[j][1] # k
    <3> TAKE j \in 2 .. Len(list)
    <3>1. j - 1 \in 1 .. Len(t) /\ list[j] = t[j - 1]
      BY <1>1
    <3> QED BY <1>2, <3>1 DEF Skips
  <2>3. CASE Head(list)[1] = k
    <3>1. Head(list) # Send
      BY <2>3 DEF Send, Keys, Words, Speakers
    <3>2. Head(list) = <<k, Head(list)[2]>>
      BY <1>1, <2>3 DEF Commits, Send
    <3>3. EndsWith(list, <<k, Head(list)[2]>>, {k})
      BY <1>1, <2>2, <3>2 DEF EndsWith
    <3>4. q[k] = Head(list)[2]
      BY <1>0, <2>3, <3>1
    <3>5. Stored(list, p)[k] = Head(list)[2]
      BY <3>3, StoredEnds
    <3> QED BY <2>1, <3>4, <3>5
  <2>4. CASE Head(list)[1] # k
    <3>1. Skips(list, {k})
      BY <1>1, <2>2, <2>4 DEF Skips
    <3>2. q[k] = p[k]
      BY <1>0, <2>4
    <3>3. Stored(list, p)[k] = p[k]
      BY <3>1 DEF Stored
    <3> QED BY <2>1, <3>2, <3>3
  <2> QED BY <2>3, <2>4
<1>3. CASE ~Skips(t, {k})
  <2>1. PICK v : EndsWith(t, <<k, v>>, {k})
    BY <1>1, <1>3, SkipsOrEnds
  <2>2. EndsWith(list, <<k, v>>, {k})
    <3>1. PICK i \in 1 .. Len(t) :
            t[i] = <<k, v>> /\ \A j \in i + 1 .. Len(t) : t[j][1] \notin {k}
      BY <2>1 DEF EndsWith
    <3>2. i + 1 \in 1 .. Len(list) /\ list[i + 1] = <<k, v>>
      BY <1>1, <3>1
    <3>3. \A j \in i + 2 .. Len(list) : list[j][1] # k
      <4> TAKE j \in i + 2 .. Len(list)
      <4>1. j - 1 \in i + 1 .. Len(t) /\ j - 1 \in 1 .. Len(t) /\ t[j - 1] = list[j]
        BY <1>1, <3>1
      <4> QED BY <3>1, <4>1
    <3> QED BY <3>2, <3>3 DEF EndsWith
  <2>3. Stored(t, q)[k] = v
    <3>1. \A x \in Seq(Commits) : EndsWith(x, <<k, v>>, {k}) => Stored(x, q)[k] = v
      BY StoredEnds
    <3> QED BY <1>1, <2>1, <3>1
  <2>4. Stored(list, p)[k] = v
    BY <2>2, StoredEnds
  <2> QED BY <2>3, <2>4
<1> QED BY <1>2, <1>3

(* Lists one after the other.                                              *)
LEMMA Appended ==
  ASSUME NEW a \in Seq(Commits), NEW b \in Seq(Commits)
  PROVE  /\ a \o b \in Seq(Commits)
         /\ Len(a \o b) = Len(a) + Len(b) /\ Len(a) \in Nat /\ Len(b) \in Nat
         /\ \A i \in 1 .. Len(a) : (a \o b)[i] = a[i]
         /\ \A i \in 1 .. Len(b) : (a \o b)[Len(a) + i] = b[i]
         /\ \A i \in 1 .. Len(a \o b) : i \in 1 .. Len(a) \/ i - Len(a) \in 1 .. Len(b)
OBVIOUS

(* What a list ends with, or skips, when another follows or precedes it.   *)
LEMMA EndsLater ==
  ASSUME NEW a \in Seq(Commits), NEW b \in Seq(Commits), NEW commit, NEW keys,
         EndsWith(b, commit, keys)
  PROVE  EndsWith(a \o b, commit, keys)
<1>1. PICK i \in 1 .. Len(b) :
        b[i] = commit /\ \A j \in i + 1 .. Len(b) : b[j][1] \notin keys
  BY DEF EndsWith
<1> DEFINE c == a \o b
<1>2. /\ Len(c) = Len(a) + Len(b) /\ Len(a) \in Nat /\ Len(b) \in Nat
      /\ \A x \in 1 .. Len(b) : c[Len(a) + x] = b[x]
  BY Appended
<1> HIDE DEF c
<1>3. Len(a) + i \in 1 .. Len(c) /\ c[Len(a) + i] = commit
  BY <1>1, <1>2
<1>4. \A j \in Len(a) + i + 1 .. Len(c) : c[j][1] \notin keys
  <2> TAKE j \in Len(a) + i + 1 .. Len(c)
  <2> DEFINE x == j - Len(a)
  <2>1. x \in i + 1 .. Len(b) /\ x \in 1 .. Len(b) /\ j = Len(a) + x
    BY <1>1, <1>2
  <2> HIDE DEF x
  <2> QED BY <1>1, <1>2, <2>1
<1>5. EndsWith(c, commit, keys)
  BY <1>3, <1>4 DEF EndsWith
<1> QED BY <1>5 DEF c

LEMMA EndsBefore ==
  ASSUME NEW a \in Seq(Commits), NEW b \in Seq(Commits), NEW commit, NEW keys,
         EndsWith(a, commit, keys), Skips(b, keys)
  PROVE  EndsWith(a \o b, commit, keys)
<1>1. PICK i \in 1 .. Len(a) :
        a[i] = commit /\ \A j \in i + 1 .. Len(a) : a[j][1] \notin keys
  BY DEF EndsWith
<1> DEFINE c == a \o b
<1>2. /\ Len(c) = Len(a) + Len(b) /\ Len(a) \in Nat /\ Len(b) \in Nat
      /\ \A x \in 1 .. Len(a) : c[x] = a[x]
      /\ \A x \in 1 .. Len(b) : c[Len(a) + x] = b[x]
  BY Appended
<1> HIDE DEF c
<1>3. i \in 1 .. Len(c) /\ c[i] = commit
  BY <1>1, <1>2
<1>4. \A j \in i + 1 .. Len(c) : c[j][1] \notin keys
  <2> TAKE j \in i + 1 .. Len(c)
  <2>1. CASE j <= Len(a)
    BY <1>1, <1>2, <2>1
  <2>2. CASE j > Len(a)
    <3> DEFINE x == j - Len(a)
    <3>1. x \in 1 .. Len(b) /\ j = Len(a) + x
      BY <1>2, <2>2
    <3> HIDE DEF x
    <3> QED BY <1>2, <3>1 DEF Skips
  <2> QED BY <1>2, <2>1, <2>2
<1>5. EndsWith(c, commit, keys)
  BY <1>3, <1>4 DEF EndsWith
<1> QED BY <1>5 DEF c

LEMMA SkipsBoth ==
  ASSUME NEW a \in Seq(Commits), NEW b \in Seq(Commits), NEW keys,
         Skips(a, keys), Skips(b, keys)
  PROVE  Skips(a \o b, keys)
<1> DEFINE c == a \o b
<1>1. /\ Len(c) = Len(a) + Len(b) /\ Len(a) \in Nat /\ Len(b) \in Nat
      /\ \A x \in 1 .. Len(a) : c[x] = a[x]
      /\ \A x \in 1 .. Len(b) : c[Len(a) + x] = b[x]
  BY Appended
<1> HIDE DEF c
<1>2. \A j \in 1 .. Len(c) : c[j][1] \notin keys
  <2> TAKE j \in 1 .. Len(c)
  <2>1. CASE j <= Len(a)
    BY <1>1, <2>1 DEF Skips
  <2>2. CASE j > Len(a)
    <3> DEFINE x == j - Len(a)
    <3>1. x \in 1 .. Len(b) /\ j = Len(a) + x
      BY <1>1, <2>2
    <3> HIDE DEF x
    <3> QED BY <1>1, <3>1 DEF Skips
  <2> QED BY <1>1, <2>1, <2>2
<1>3. Skips(c, keys)
  BY <1>2 DEF Skips
<1> QED BY <1>3 DEF c

-----------------------------------------------------------------------------
(* What the parts of the handlers store.                                   *)
LEMMA OneEnds ==
  ASSUME NEW commit \in Commits, NEW keys
  PROVE  EndsWith(<<commit>>, commit, keys)
BY DEF EndsWith

LEMMA OneSkips ==
  ASSUME NEW commit \in Commits, NEW keys, commit[1] \notin keys
  PROVE  Skips(<<commit>>, keys)
BY DEF Skips

(* Storing the three words ends with each word and touches nothing else.   *)
LEMMA WordsEnd ==
  ASSUME NEW words, NEW c \in Words
  PROVE  EndsWith(StoreWords(words), <<c, words[c]>>, {c})
<1> DEFINE list == StoreWords(words)
<1>1. /\ Len(list) = 3
      /\ list[1] = <<"aux", words["aux"]>>
      /\ list[2] = <<"android", words["android"]>>
      /\ list[3] = <<"radio", words["radio"]>>
  BY DEF StoreWords
<1> HIDE DEF list
<1>2. EndsWith(list, <<c, words[c]>>, {c})
  <2>1. CASE c = "aux"
    BY <1>1, <2>1 DEF EndsWith
  <2>2. CASE c = "android"
    BY <1>1, <2>2 DEF EndsWith
  <2>3. CASE c = "radio"
    BY <1>1, <2>3 DEF EndsWith
  <2> QED BY <2>1, <2>2, <2>3 DEF Words
<1> QED BY <1>2 DEF list

LEMMA WordsSkip ==
  ASSUME NEW words, NEW keys, Words \cap keys = {}
  PROVE  Skips(StoreWords(words), keys)
<1> DEFINE list == StoreWords(words)
<1>1. /\ Len(list) = 3 /\ list[1][1] = "aux" /\ list[2][1] = "android" /\ list[3][1] = "radio"
  BY DEF StoreWords
<1> HIDE DEF list
<1>2. Skips(list, keys)
  BY <1>1 DEF Skips, Words
<1> QED BY <1>2 DEF list

LEMMA WordsKeepBit ==
  ASSUME NEW words, NEW p, \A c \in Words : Bit(words[c], p) = Bit(pref[c], p)
  PROVE  KeepsBit(StoreWords(words), p)
<1> DEFINE list == StoreWords(words)
<1>1. /\ Len(list) = 3
      /\ list[1] = <<"aux", words["aux"]>>
      /\ list[2] = <<"android", words["android"]>>
      /\ list[3] = <<"radio", words["radio"]>>
  BY DEF StoreWords
<1> HIDE DEF list
<1>2. KeepsBit(list, p)
  <2> SUFFICES ASSUME NEW i \in 1 .. Len(list), NEW c \in Words, list[i][1] = c
               PROVE  Bit(list[i][2], p) = Bit(pref[c], p)
    BY DEF KeepsBit
  <2>1. i = 1 \/ i = 2 \/ i = 3
    BY <1>1
  <2>2. list[i] = <<c, words[c]>>
    BY <1>1, <2>1
  <2> QED BY <2>2
<1> QED BY <1>2 DEF list

LEMMA KeepsBoth ==
  ASSUME NEW a \in Seq(Commits), NEW b \in Seq(Commits), NEW p,
         KeepsBit(a, p), KeepsBit(b, p)
  PROVE  KeepsBit(a \o b, p)
<1> DEFINE c == a \o b
<1>1. /\ Len(c) = Len(a) + Len(b) /\ Len(a) \in Nat /\ Len(b) \in Nat
      /\ \A x \in 1 .. Len(a) : c[x] = a[x]
      /\ \A x \in 1 .. Len(b) : c[Len(a) + x] = b[x]
  BY Appended
<1> HIDE DEF c
<1>2. \A j \in 1 .. Len(c) : \A w \in Words : c[j][1] = w => Bit(c[j][2], p) = Bit(pref[w], p)
  <2> TAKE j \in 1 .. Len(c)
  <2>1. CASE j <= Len(a)
    BY <1>1, <2>1 DEF KeepsBit
  <2>2. CASE j > Len(a)
    <3> DEFINE x == j - Len(a)
    <3>1. x \in 1 .. Len(b) /\ j = Len(a) + x
      BY <1>1, <2>2
    <3> HIDE DEF x
    <3>2. c[j] = b[x]
      BY <1>1, <3>1
    <3>3. \A w \in Words : b[x][1] = w => Bit(b[x][2], p) = Bit(pref[w], p)
      BY <3>1 DEF KeepsBit
    <3> QED BY <3>2, <3>3
  <2> QED BY <1>1, <2>1, <2>2
<1>3. KeepsBit(c, p)
  BY <1>2 DEF KeepsBit
<1> QED BY <1>3 DEF c

LEMMA OneKeepsBit ==
  ASSUME NEW commit \in Commits, NEW p, commit[1] \notin Words
  PROVE  KeepsBit(<<commit>>, p)
BY DEF KeepsBit

(* The list of the balance ends with each speaker and with the frame, and  *)
(* skips every other key (speakersInit).                                   *)
LEMMA SpeakersEnd ==
  ASSUME NEW fl, NEW fr, NEW rl, NEW rr
  PROVE  LET list == SpeakersInit(fl, fr, rl, rr)
         IN  /\ EndsWith(list, <<"lf", CheckPercent(rl)>>, {"lf"})
             /\ EndsWith(list, <<"rf", CheckPercent(rr)>>, {"rf"})
             /\ EndsWith(list, <<"lr", CheckPercent(fl)>>, {"lr"})
             /\ EndsWith(list, <<"rr", CheckPercent(fr)>>, {"rr"})
             /\ EndsWith(list, Send, FrameKeys)
<1> DEFINE list == SpeakersInit(fl, fr, rl, rr)
<1>1. /\ Len(list) = 5
      /\ list[1] = <<"lf", CheckPercent(rl)>> /\ list[2] = <<"rf", CheckPercent(rr)>>
      /\ list[3] = <<"lr", CheckPercent(fl)>> /\ list[4] = <<"rr", CheckPercent(fr)>>
      /\ list[5] = Send
  BY DEF SpeakersInit
<1> HIDE DEF list
<1>2. /\ list[1][1] = "lf" /\ list[2][1] = "rf" /\ list[3][1] = "lr" /\ list[4][1] = "rr" /\ list[5][1] = "frame"
  BY <1>1 DEF Send
<1>3. EndsWith(list, <<"lf", CheckPercent(rl)>>, {"lf"})
  <2>1. \A j \in 2 .. 5 : list[j][1] # "lf"
    BY <1>2
  <2> QED BY <1>1, <2>1 DEF EndsWith
<1>4. EndsWith(list, <<"rf", CheckPercent(rr)>>, {"rf"})
  <2>1. \A j \in 3 .. 5 : list[j][1] # "rf"
    BY <1>2
  <2> QED BY <1>1, <2>1 DEF EndsWith
<1>5. EndsWith(list, <<"lr", CheckPercent(fl)>>, {"lr"})
  <2>1. \A j \in 4 .. 5 : list[j][1] # "lr"
    BY <1>2
  <2> QED BY <1>1, <2>1 DEF EndsWith
<1>6. EndsWith(list, <<"rr", CheckPercent(fr)>>, {"rr"})
  <2>1. \A j \in 5 .. 5 : list[j][1] # "rr"
    BY <1>2
  <2> QED BY <1>1, <2>1 DEF EndsWith
<1>7. EndsWith(list, Send, FrameKeys)
  BY <1>1 DEF EndsWith
<1> QED BY <1>3, <1>4, <1>5, <1>6, <1>7 DEF list

LEMMA SpeakersSkip ==
  ASSUME NEW fl, NEW fr, NEW rl, NEW rr, NEW keys, (Speakers \cup {"frame"}) \cap keys = {}
  PROVE  Skips(SpeakersInit(fl, fr, rl, rr), keys)
<1> DEFINE list == SpeakersInit(fl, fr, rl, rr)
<1>1. /\ Len(list) = 5
      /\ list[1][1] = "lf" /\ list[2][1] = "rf" /\ list[3][1] = "lr" /\ list[4][1] = "rr"
      /\ list[5][1] = "frame"
  BY DEF SpeakersInit, Send
<1> HIDE DEF list
<1>2. Skips(list, keys)
  <2> SUFFICES ASSUME NEW i \in 1 .. Len(list) PROVE list[i][1] \notin keys
    BY DEF Skips
  <2>1. list[i][1] \in Speakers \cup {"frame"}
    BY <1>1 DEF Speakers
  <2> QED BY <2>1
<1> QED BY <1>2 DEF list

(* So does the place of the picture (setXYcordinates).                     *)
LEMMA PlaceEnds ==
  ASSUME NEW spot
  PROVE  /\ EndsWith(SetXYcordinates(spot), <<"x", spot[1]>>, {"x"})
         /\ EndsWith(SetXYcordinates(spot), <<"y", spot[2]>>, {"y"})
<1> DEFINE list == SetXYcordinates(spot)
<1>1. Len(list) = 2 /\ list[1] = <<"x", spot[1]>> /\ list[2] = <<"y", spot[2]>>
  BY DEF SetXYcordinates
<1> HIDE DEF list
<1>2. EndsWith(list, <<"x", spot[1]>>, {"x"}) /\ EndsWith(list, <<"y", spot[2]>>, {"y"})
  BY <1>1 DEF EndsWith
<1> QED BY <1>2 DEF list

LEMMA PlaceSkips ==
  ASSUME NEW spot, NEW keys, {"x", "y"} \cap keys = {}
  PROVE  Skips(SetXYcordinates(spot), keys)
<1> DEFINE list == SetXYcordinates(spot)
<1>1. Len(list) = 2 /\ list[1][1] = "x" /\ list[2][1] = "y"
  BY DEF SetXYcordinates
<1> HIDE DEF list
<1>2. Skips(list, keys)
  BY <1>1 DEF Skips
<1> QED BY <1>2 DEF list
-----------------------------------------------------------------------------
(* The balance: percentages fall with the larger of the distances, and the *)
(* levels follow them.                                                     *)
Larger(a, b) == IF a > b THEN a ELSE b

Share(m) == IF m <= 22500 THEN 100 ELSE Truncated(900000 - 20 * m)

(* The share depends on the larger distance only (getPercent).             *)
LEMMA PercentIsShare ==
  ASSUME NEW a \in Int, NEW b \in Int
  PROVE  Percent(a, b) = Share(Larger(a, b)) /\ Larger(a, b) \in Int
BY SMT DEF Percent, Share, Larger

(* Division by 4500 towards zero. *)
LEMMA TruncatedIs ==
  ASSUME NEW m \in Int, 0 - 4500 < m, m <= 900000
  PROVE  /\ Truncated(m) \in 0..200
         /\ m >= 0 => 4500 * Truncated(m) <= m /\ m < 4500 * Truncated(m) + 4500
         /\ m < 0 => Truncated(m) = 0
<1>1. CASE m >= 0
  <2>1. Truncated(m) = m \div 4500
    BY SMT, <1>1 DEF Truncated
  <2>2. m \div 4500 \in Nat /\ 4500 * (m \div 4500) <= m /\ m < 4500 * (m \div 4500) + 4500
    BY SMT, <1>1
  <2> QED BY SMT, <1>1, <2>1, <2>2
<1>2. CASE m < 0
  <2>1. Truncated(m) = 0 - ((0 - m) \div 4500)
    BY SMT, <1>2 DEF Truncated
  <2>2. (0 - m) \div 4500 = 0
    BY SMT, <1>2
  <2> QED BY SMT, <1>2, <2>1, <2>2
<1> QED BY SMT, <1>1, <1>2

(* Shares are percentages up to 45144 of the units, and fall with the      *)
(* distance.                                                               *)
LEMMA ShareRange ==
  ASSUME NEW m \in Nat, m <= 45144
  PROVE  Share(m) \in 0..100
<1> DEFINE n == 900000 - 20 * m
<1>1. CASE m <= 22500
  BY SMT, <1>1 DEF Share
<1>2. CASE m > 22500
  <2>1. n \in Int /\ 0 - 4500 < n /\ n <= 900000 /\ n < 450000
    BY SMT, <1>2
  <2>2. Share(m) = Truncated(n)
    BY SMT, <1>2 DEF Share
  <2> HIDE DEF n
  <2>3. Truncated(n) \in 0..200 /\ (n >= 0 => 4500 * Truncated(n) <= n) /\ (n < 0 => Truncated(n) = 0)
    BY SMT, <2>1, TruncatedIs
  <2> QED BY SMT, <2>1, <2>2, <2>3
<1> QED BY SMT, <1>1, <1>2

LEMMA ShareFalls ==
  ASSUME NEW m \in Nat, NEW n \in Nat, n <= 45144, m <= n
  PROVE  Share(n) <= Share(m)
<1>1. CASE m <= 22500
  <2>1. Share(m) = 100
    BY SMT, <1>1 DEF Share
  <2>2. Share(n) \in 0..100
    BY SMT, ShareRange
  <2> QED BY SMT, <2>1, <2>2
<1>2. CASE m > 22500
  <2> DEFINE u == 900000 - 20 * m
             v == 900000 - 20 * n
  <2>1. /\ u \in Int /\ 0 - 4500 < u /\ u <= 900000
        /\ v \in Int /\ 0 - 4500 < v /\ v <= 900000 /\ v <= u
    BY SMT, <1>2
  <2>2. Share(m) = Truncated(u) /\ Share(n) = Truncated(v)
    BY SMT, <1>2 DEF Share
  <2> HIDE DEF u, v
  <2>3. Truncated(u) \in 0..200 /\ (u >= 0 => u < 4500 * Truncated(u) + 4500)
    BY SMT, <2>1, TruncatedIs
  <2>4. Truncated(v) \in 0..200 /\ (v >= 0 => 4500 * Truncated(v) <= v) /\ (v < 0 => Truncated(v) = 0)
    BY SMT, <2>1, TruncatedIs
  <2> QED BY SMT, <2>1, <2>2, <2>3, <2>4
<1> QED BY SMT, <1>1, <1>2

(* Levels do not fall when the percentage rises (checkPercent).            *)
LEMMA LevelsFollow ==
  ASSUME NEW m \in 0..100, NEW n \in 0..100, m <= n
  PROVE  CheckPercent(m) <= CheckPercent(n)
<1> SUFFICES ASSUME NEW k \in 0..100
             PROVE  /\ k <= 20 => CheckPercent(k) = 0
                    /\ 20 < k /\ k <= 40 => CheckPercent(k) = 7
                    /\ 40 < k /\ k <= 60 => CheckPercent(k) = 14
                    /\ 60 < k /\ k <= 80 => CheckPercent(k) = 22
                    /\ 80 < k => CheckPercent(k) = 31
  BY SMT
<1>1. /\ k \in 0..20 <=> k <= 20
      /\ k \in 21..40 <=> 20 < k /\ k <= 40
      /\ k \in 41..60 <=> 40 < k /\ k <= 60
      /\ k \in 61..80 <=> 60 < k /\ k <= 80
  BY SMT
<1> QED BY SMT, <1>1 DEF CheckPercent

(* So levels do not rise with either distance.                             *)
LEMMA LevelFalls ==
  ASSUME NEW a \in Nat, NEW b \in Nat, NEW c \in Nat, a <= b, b <= 45144, c <= 45144
  PROVE  /\ CheckPercent(Percent(b, c)) <= CheckPercent(Percent(a, c))
         /\ CheckPercent(Percent(c, b)) <= CheckPercent(Percent(c, a))
<1> DEFINE m == Larger(a, c)
           n == Larger(b, c)
<1>1. m \in Nat /\ n \in Nat /\ m <= n /\ n <= 45144 /\ m <= 45144
  BY SMT DEF Larger
<1>2. Larger(c, a) = m /\ Larger(c, b) = n
  BY SMT DEF Larger
<1>3. /\ Percent(b, c) = Share(Larger(b, c)) /\ Percent(a, c) = Share(Larger(a, c))
      /\ Percent(c, b) = Share(Larger(c, b)) /\ Percent(c, a) = Share(Larger(c, a))
  BY SMT, PercentIsShare
<1>4. /\ Percent(b, c) = Share(n) /\ Percent(a, c) = Share(m)
      /\ Percent(c, b) = Share(n) /\ Percent(c, a) = Share(m)
  BY SMT, <1>2, <1>3
<1> HIDE DEF m, n
<1>5. Share(m) \in 0..100 /\ Share(n) \in 0..100 /\ Share(n) <= Share(m)
  BY SMT, <1>1, ShareRange, ShareFalls
<1>6. CheckPercent(Share(n)) <= CheckPercent(Share(m))
  BY SMT, <1>5, LevelsFollow
<1> QED BY SMT, <1>4, <1>6

(* The far edge against the near one, across and down.                     *)
LEMMA Across ==
  ASSUME NEW x \in 0..160
  PROVE  /\ 4500 * Truncated(45000 - 275 * x) \in Nat
         /\ 4500 * Truncated(45000 - 275 * x) <= 45000
         /\ x <= 81 => 275 * x <= 4500 * Truncated(45000 - 275 * x)
         /\ x > 81 => 4500 * Truncated(45000 - 275 * x) <= 275 * x
<1> DEFINE m == 45000 - 275 * x
<1>1. /\ m \in Int /\ 0 - 4500 < m /\ m <= 900000
      /\ m >= 0 /\ m <= 45000
      /\ x <= 81 => m >= 22725 /\ 275 * x <= 22275
      /\ x > 81 => m <= 22450 /\ 275 * x >= 22550
  BY SMT
<1> HIDE DEF m
<1>2. /\ Truncated(m) \in 0..200
      /\ m >= 0 => 4500 * Truncated(m) <= m /\ m < 4500 * Truncated(m) + 4500
  BY SMT, <1>1, TruncatedIs
<1>3. /\ 4500 * Truncated(m) \in Nat /\ 4500 * Truncated(m) <= 45000
      /\ x <= 81 => 275 * x <= 4500 * Truncated(m)
      /\ x > 81 => 4500 * Truncated(m) <= 275 * x
  BY SMT, <1>1, <1>2
<1> QED BY SMT, <1>3 DEF m

LEMMA Down ==
  ASSUME NEW y \in 0..228
  PROVE  /\ 4500 * Truncated(45000 - 198 * y) \in Nat
         /\ 4500 * Truncated(45000 - 198 * y) <= 45000
         /\ y <= 113 => 198 * y <= 4500 * Truncated(45000 - 198 * y)
         /\ y > 113 => 4500 * Truncated(45000 - 198 * y) <= 198 * y
<1> DEFINE m == 45000 - 198 * y
<1>1. /\ m \in Int /\ 0 - 4500 < m /\ m <= 900000
      /\ m <= 45000
      /\ y <= 113 => m >= 22626 /\ 198 * y <= 22374
      /\ y > 113 => m <= 22428 /\ 198 * y >= 22572
  BY SMT
<1> HIDE DEF m
<1>2. /\ Truncated(m) \in 0..200
      /\ m >= 0 => 4500 * Truncated(m) <= m /\ m < 4500 * Truncated(m) + 4500
      /\ m < 0 => Truncated(m) = 0
  BY SMT, <1>1, TruncatedIs
<1>3. /\ 4500 * Truncated(m) \in Nat /\ 4500 * Truncated(m) <= 45000
      /\ y <= 113 => 198 * y <= 4500 * Truncated(m)
      /\ y > 113 => 4500 * Truncated(m) <= 198 * y
  BY SMT, <1>1, <1>2
<1> QED BY SMT, <1>3 DEF m

(* Which side is near: across of x and down of y, with the distances to    *)
(* the left, the right, the upper and the lower edge.                      *)
Sides(x, y, l, r, u, d) ==
  y <= 228 =>
    /\ l \in Nat /\ l <= 45144 /\ r \in Nat /\ r <= 45144
    /\ u \in Nat /\ u <= 45144 /\ d \in Nat /\ d <= 45144
    /\ (x <= 81 => l <= r) /\ (x > 81 => r <= l)
    /\ (y <= 113 => u <= d) /\ (y > 113 => d <= u)

(* Where the picture is dropped, its side is heard (calculateBalanceData). *)
LEMMA SpotIsNear ==
  ASSUME NEW x \in 0..160, NEW y \in 0..240,
         NEW l, NEW r, NEW u, NEW d,
         Sides(x, y, l, r, u, d),
         NEW p, p["x"] = x /\ p["y"] = y,
         /\ p["lf"] = CheckPercent(Percent(l, d)) /\ p["rf"] = CheckPercent(Percent(r, d))
         /\ p["lr"] = CheckPercent(Percent(l, u)) /\ p["rr"] = CheckPercent(Percent(r, u))
  PROVE  NearIsLouder(p)
<1> SUFFICES ASSUME y <= 228
             PROVE  NearIsLouder(p)
  BY DEF NearIsLouder
<1> USE DEF Sides
<1>3. IF x <= 81 THEN p["lf"] >= p["rf"] /\ p["lr"] >= p["rr"]
                  ELSE p["rf"] >= p["lf"] /\ p["rr"] >= p["lr"]
  <2>1. CASE x <= 81
    BY SMT, <2>1, LevelFalls
  <2>2. CASE x > 81
    BY SMT, <2>2, LevelFalls
  <2> QED BY SMT, <2>1, <2>2
<1>4. IF y <= 113 THEN p["lr"] >= p["lf"] /\ p["rr"] >= p["rf"]
                   ELSE p["lf"] >= p["lr"] /\ p["rf"] >= p["rr"]
  <2>1. CASE y <= 113
    BY SMT, <2>1, LevelFalls
  <2>2. CASE y > 113
    BY SMT, <2>2, LevelFalls
  <2> QED BY SMT, <2>1, <2>2
<1> QED BY <1>3, <1>4 DEF NearIsLouder

(* What the handlers of the balance owe completes it.                      *)
LEMMA BalanceCompletes ==
  ASSUME NEW spot \in Area
  PROVE  LET list == CalculateBalanceData(spot) \o SetXYcordinates(spot)
         IN  NearIsLouder(Stored(list, pref)) /\ SendsLast(list)
<1> DEFINE x == spot[1]
           y == spot[2]
           l == 275 * x
           r == 4500 * Truncated(45000 - 275 * x)
           u == 198 * y
           d == 4500 * Truncated(45000 - 198 * y)
           speakers == SpeakersInit(Percent(l, u), Percent(r, u), Percent(l, d), Percent(r, d))
           place == SetXYcordinates(spot)
           list == speakers \o place
<1>0. x \in 0..160 /\ y \in 0..240
  BY DEF Area
<1>1. CalculateBalanceData(spot) \o SetXYcordinates(spot) = list
  BY DEF CalculateBalanceData
<1>2. speakers \in Seq(Commits) /\ place \in Seq(Commits)
  BY SpeakersInitOK, SetXYcordinatesOK DEF Area
<1>3. /\ EndsWith(place, <<"x", x>>, {"x"})
      /\ EndsWith(place, <<"y", y>>, {"y"})
  BY PlaceEnds
<1>4. \A k \in Speakers : Skips(place, {k})
  <2> TAKE k \in Speakers
  <2>1. {"x", "y"} \cap {k} = {}
    BY DEF Speakers
  <2> QED BY <2>1, PlaceSkips
<1>5. Skips(place, FrameKeys)
  <2>1. {"x", "y"} \cap FrameKeys = {}
    BY DEF FrameKeys, Speakers
  <2> QED BY <2>1, PlaceSkips
<1>6. /\ EndsWith(speakers, <<"lf", CheckPercent(Percent(l, d))>>, {"lf"})
      /\ EndsWith(speakers, <<"rf", CheckPercent(Percent(r, d))>>, {"rf"})
      /\ EndsWith(speakers, <<"lr", CheckPercent(Percent(l, u))>>, {"lr"})
      /\ EndsWith(speakers, <<"rr", CheckPercent(Percent(r, u))>>, {"rr"})
      /\ EndsWith(speakers, Send, FrameKeys)
  BY SpeakersEnd
<1> HIDE DEF speakers, place
<1>7. /\ EndsWith(list, <<"lf", CheckPercent(Percent(l, d))>>, {"lf"})
      /\ EndsWith(list, <<"rf", CheckPercent(Percent(r, d))>>, {"rf"})
      /\ EndsWith(list, <<"lr", CheckPercent(Percent(l, u))>>, {"lr"})
      /\ EndsWith(list, <<"rr", CheckPercent(Percent(r, u))>>, {"rr"})
      /\ EndsWith(list, Send, FrameKeys)
  <2>1. "lf" \in Speakers /\ "rf" \in Speakers /\ "lr" \in Speakers /\ "rr" \in Speakers
    BY DEF Speakers
  <2> QED BY <1>2, <1>4, <1>5, <1>6, <2>1, EndsBefore
<1>8. /\ EndsWith(list, <<"x", x>>, {"x"})
      /\ EndsWith(list, <<"y", y>>, {"y"})
  BY <1>2, <1>3, EndsLater
<1>9. list \in Seq(Commits) /\ {"lf", "rf", "lr", "rr", "x", "y"} \subseteq Keys
  BY <1>2 DEF Keys, Speakers
<1> DEFINE p == Stored(list, pref)
<1> HIDE DEF list
<1> HIDE DEF x, y
<1>10. Sides(x, y, l, r, u, d)
  <2> SUFFICES ASSUME y <= 228
               PROVE  Sides(x, y, l, r, u, d)
    BY DEF Sides
  <2>1. l \in Nat /\ l <= 45144 /\ u \in Nat /\ u <= 45144 /\ y \in 0..228
    BY SMT, <1>0
  <2>2. r \in Nat /\ r <= 45000 /\ (x <= 81 => l <= r) /\ (x > 81 => r <= l)
    BY SMT, <1>0, Across
  <2>3. d \in Nat /\ d <= 45000 /\ (y <= 113 => u <= d) /\ (y > 113 => d <= u)
    BY SMT, <2>1, Down
  <2> HIDE DEF l, r, u, d
  <2> QED BY SMT, <2>1, <2>2, <2>3 DEF Sides
<1> HIDE DEF l, r, u, d, p
<1>11. \A k \in Keys : \A v : EndsWith(list, <<k, v>>, {k}) => Stored(list, pref)[k] = v
  BY <1>9, StoredEnds
<1>12. \A k \in {"lf", "rf", "lr", "rr", "x", "y"} : \A v :
         EndsWith(list, <<k, v>>, {k}) => p[k] = v
  BY <1>9, <1>11 DEF p
<1>13. /\ p["lf"] = CheckPercent(Percent(l, d)) /\ p["rf"] = CheckPercent(Percent(r, d))
       /\ p["lr"] = CheckPercent(Percent(l, u)) /\ p["rr"] = CheckPercent(Percent(r, u))
       /\ p["x"] = x /\ p["y"] = y
  BY <1>7, <1>8, <1>12
<1>14. NearIsLouder(p)
  BY <1>0, <1>10, <1>13, SpotIsNear
<1> QED BY <1>1, <1>7, <1>14 DEF p, SendsLast

-----------------------------------------------------------------------------
(* What the lists of loudness and gain come to, and what they leave alone. *)
LEMMA LoudStateEnds ==
  ASSUME NEW words, \A c \in Words : words[c] \in WordsOf(c), NEW state \in {0, 1}
  PROVE  LET list == LoudState(words, state)
         IN  /\ EndsWith(list, <<"loud", state>>, {"loud"})
             /\ \A c \in Words :
                  EndsWith(list, <<c, ModifyBit(words[c], 2, 1 - state)>>, {c})
             /\ \A keys : (Words \cup {"loud"}) \cap keys = {} => Skips(list, keys)
             /\ \A p \in {3, 4} :
                  (\A c \in Words : Bit(words[c], p) = Bit(pref[c], p)) => KeepsBit(list, p)
<1> DEFINE a == <<<<"loud", state>>>>
           m == Modified(words, 2, 1 - state)
           b == StoreWords(m)
<1>1. LoudState(words, state) = a \o b
  BY DEF LoudState
<1>2. <<"loud", state>> \in Commits /\ 1 - state \in {0, 1}
  BY DEF Commits
<1>3. a \in Seq(Commits) /\ b \in Seq(Commits)
  BY <1>2, ModifiedKeeps, StoreWordsOK
<1>4. \A c \in Words : m[c] = ModifyBit(words[c], 2, 1 - state)
  BY DEF Modified
<1>5. EndsWith(a \o b, <<"loud", state>>, {"loud"})
  <2>1. EndsWith(a, <<"loud", state>>, {"loud"})
    BY <1>2, OneEnds
  <2>2. Skips(b, {"loud"})
    <3>1. Words \cap {"loud"} = {}
      BY DEF Words
    <3> QED BY <3>1, WordsSkip
  <2> HIDE DEF a, b
  <2> QED BY <1>3, <2>1, <2>2, EndsBefore
<1>6. \A c \in Words : EndsWith(a \o b, <<c, m[c]>>, {c})
  <2> TAKE c \in Words
  <2>1. EndsWith(b, <<c, m[c]>>, {c})
    BY WordsEnd
  <2> HIDE DEF a, b
  <2> QED BY <1>3, <2>1, EndsLater
<1>7. \A keys : (Words \cup {"loud"}) \cap keys = {} => Skips(a \o b, keys)
  <2> TAKE keys
  <2> HAVE (Words \cup {"loud"}) \cap keys = {}
  <2>1. Skips(a, keys)
    BY <1>2, OneSkips
  <2>2. Skips(b, keys)
    BY WordsSkip
  <2> HIDE DEF a, b
  <2> QED BY <1>3, <2>1, <2>2, SkipsBoth
<1>8. ASSUME NEW p \in {3, 4}, \A c \in Words : Bit(words[c], p) = Bit(pref[c], p)
      PROVE  KeepsBit(a \o b, p)
  <2>1. \A c \in Words : Bit(m[c], p) = Bit(pref[c], p)
    <3> TAKE c \in Words
    <3>1. words[c] \in 64..95
      BY DEF WordsOf
    <3>2. Bit(ModifyBit(words[c], 2, 1 - state), p) = Bit(words[c], p)
      BY <1>2, <3>1, ModifyBits
    <3> QED BY <1>4, <1>8, <3>2
  <2>2. KeepsBit(b, p)
    <3> HIDE DEF m
    <3> QED BY <2>1, WordsKeepBit
  <2>3. KeepsBit(a, p)
    <3>1. <<"loud", state>>[1] \notin Words
      BY DEF Words
    <3> QED BY <1>2, <3>1, OneKeepsBit
  <2> HIDE DEF a, b
  <2> QED BY <1>3, <2>2, <2>3, KeepsBoth
<1> HIDE DEF a, b, m
<1> QED BY <1>1, <1>4, <1>5, <1>6, <1>7, <1>8

(* The same of the list of the gain, whose words are stored twice          *)
(* (setGainValue).                                                         *)
LEMMA SetGainValueEnds ==
  ASSUME NEW words, \A c \in Words : words[c] \in WordsOf(c), NEW value \in {0, 4, 8, 12}
  PROVE  LET list == SetGainValue(words, value)
         IN  /\ EndsWith(list, <<"gain", value>>, {"gain"})
             /\ \A c \in Words : \E w :
                  /\ EndsWith(list, <<c, w>>, {c})
                  /\ Bit(w, 2) = Bit(words[c], 2)
                  /\ Bit(w, 3) = 1 <=> value \in {0, 8}
                  /\ Bit(w, 4) = 1 <=> value \in {0, 4}
             /\ \A keys : (Words \cup {"gain"}) \cap keys = {} => Skips(list, keys)
             /\ (\A c \in Words : Bit(words[c], 2) = Bit(pref[c], 2)) => KeepsBit(list, 2)
<1> DEFINE low == IF value \in {0, 8} THEN 1 ELSE 0
           high == IF value \in {0, 4} THEN 1 ELSE 0
           m == Modified(words, 3, low)
           n == Modified(m, 4, high)
           a == <<<<"gain", value>>>>
           b == StoreWords(m)
           d == StoreWords(n)
<1>1. SetGainValue(words, value) = (a \o b) \o d
  BY DEF SetGainValue
<1>2. /\ low \in {0, 1} /\ high \in {0, 1}
      /\ low = 1 <=> value \in {0, 8}
      /\ high = 1 <=> value \in {0, 4}
      /\ <<"gain", value>> \in Commits
  BY DEF Commits
<1> HIDE DEF low, high
<1>3. \A c \in Words : m[c] = ModifyBit(words[c], 3, low) /\ n[c] = ModifyBit(m[c], 4, high)
  BY DEF Modified
<1>4. /\ \A c \in Words : m[c] \in WordsOf(c)
      /\ \A c \in Words : n[c] \in WordsOf(c)
  BY <1>2, ModifiedKeeps
<1>5. \A c \in Words :
        /\ Bit(m[c], 2) = Bit(words[c], 2)
        /\ Bit(n[c], 2) = Bit(words[c], 2)
        /\ Bit(n[c], 3) = low
        /\ Bit(n[c], 4) = high
  <2> TAKE c \in Words
  <2>1. words[c] \in 64..95 /\ m[c] \in 64..95
    BY <1>4 DEF WordsOf
  <2> HIDE DEF m, n
  <2>2. Bit(m[c], 2) = Bit(words[c], 2) /\ Bit(m[c], 3) = low
    BY <1>2, <1>3, <2>1, ModifyBits
  <2>3. Bit(n[c], 2) = Bit(m[c], 2) /\ Bit(n[c], 3) = Bit(m[c], 3) /\ Bit(n[c], 4) = high
    BY <1>2, <1>3, <2>1, ModifyBits
  <2> QED BY <2>2, <2>3
<1>6. a \in Seq(Commits) /\ b \in Seq(Commits) /\ d \in Seq(Commits)
  <2> HIDE DEF m, n
  <2> QED BY <1>2, <1>4, StoreWordsOK
<1> HIDE DEF m, n
<1>7. Skips(b, {"gain"}) /\ Skips(d, {"gain"}) /\ EndsWith(a, <<"gain", value>>, {"gain"})
  <2>1. Words \cap {"gain"} = {}
    BY DEF Words
  <2> QED BY <1>2, <2>1, WordsSkip, OneEnds
<1>8. \A c \in Words : EndsWith(d, <<c, n[c]>>, {c})
  BY WordsEnd
<1>9. \A keys : (Words \cup {"gain"}) \cap keys = {} =>
                  Skips(a, keys) /\ Skips(b, keys) /\ Skips(d, keys)
  <2> TAKE keys
  <2> HAVE (Words \cup {"gain"}) \cap keys = {}
  <2>1. Skips(a, keys)
    BY <1>2, OneSkips
  <2> QED BY <2>1, WordsSkip
<1>10. (\A c \in Words : Bit(words[c], 2) = Bit(pref[c], 2))
         => KeepsBit(a, 2) /\ KeepsBit(b, 2) /\ KeepsBit(d, 2)
  <2> HAVE \A c \in Words : Bit(words[c], 2) = Bit(pref[c], 2)
  <2>1. KeepsBit(a, 2)
    <3>1. <<"gain", value>>[1] \notin Words
      BY DEF Words
    <3> QED BY <1>2, <3>1, OneKeepsBit
  <2>2. \A c \in Words : Bit(m[c], 2) = Bit(pref[c], 2) /\ Bit(n[c], 2) = Bit(pref[c], 2)
    BY <1>5
  <2> QED BY <2>1, <2>2, WordsKeepBit
<1> HIDE DEF a, b, d
<1>11. a \o b \in Seq(Commits)
  BY <1>6
<1>12. EndsWith((a \o b) \o d, <<"gain", value>>, {"gain"})
  <2>1. EndsWith(a \o b, <<"gain", value>>, {"gain"})
    BY <1>6, <1>7, EndsBefore
  <2> QED BY <1>6, <1>7, <1>11, <2>1, EndsBefore
<1>13. \A c \in Words : EndsWith((a \o b) \o d, <<c, n[c]>>, {c})
  BY <1>6, <1>8, <1>11, EndsLater
<1>14. \A keys : (Words \cup {"gain"}) \cap keys = {} => Skips((a \o b) \o d, keys)
  BY <1>6, <1>9, <1>11, SkipsBoth
<1>15. (\A c \in Words : Bit(words[c], 2) = Bit(pref[c], 2)) => KeepsBit((a \o b) \o d, 2)
  BY <1>6, <1>10, <1>11, KeepsBoth
<1> QED BY <1>1, <1>2, <1>5, <1>12, <1>13, <1>14, <1>15

-----------------------------------------------------------------------------
(* What a handler owes at its start completes its setting and touches no   *)
(* other.                                                                  *)
Owes(handler, list) ==
  /\ LoudOwed(handler, list) /\ GainOwed(handler, list)
  /\ FrameOwed(handler, list) /\ PlaceOwed(handler, list)

(* The preferences hold every setting.                                     *)
LEMMA KeysOfSettings ==
  /\ Words \subseteq Keys /\ Speakers \subseteq Keys
  /\ {"loud", "gain", "bass", "treble", "x", "y"} \subseteq Keys
BY DEF Keys

(* No handler, nothing owed.                                               *)
LEMMA NothingOwed == Owes("none", <<>>)
BY DEF Owes, LoudOwed, GainOwed, FrameOwed, PlaceOwed, Covers, Skips, KeepsBit, Tellers

(* The handler of the loudness owes what completes the loudness            *)
(* (loudState).                                                            *)
LEMMA LoudOwes ==
  ASSUME IInv, NEW state \in {0, 1}
  PROVE  Owes("loud", LoudState(pref, state))
<1> DEFINE list == LoudState(pref, state)
<1>1. \A c \in Words : pref[c] \in WordsOf(c)
  BY DEF IInv, PrefOK
<1>2. list \in Seq(Commits)
  BY <1>1, LoudStateOK
<1>3. /\ EndsWith(list, <<"loud", state>>, {"loud"})
      /\ \A c \in Words : EndsWith(list, <<c, ModifyBit(pref[c], 2, 1 - state)>>, {c})
      /\ \A keys : (Words \cup {"loud"}) \cap keys = {} => Skips(list, keys)
      /\ KeepsBit(list, 3) /\ KeepsBit(list, 4)
  BY <1>1, LoudStateEnds
<1> HIDE DEF list
<1>4. LoudOwed("loud", list)
  <2> DEFINE p == Stored(list, pref)
  <2>1. p["loud"] = state
    BY <1>2, <1>3, KeysOfSettings, StoredEnds
  <2>2. \A c \in Words : p[c] = ModifyBit(pref[c], 2, 1 - state)
    <3> TAKE c \in Words
    <3>1. c \in Keys /\ EndsWith(list, <<c, ModifyBit(pref[c], 2, 1 - state)>>, {c})
      BY <1>3, KeysOfSettings
    <3> QED BY <1>2, <3>1, StoredEnds
  <2>3. \A c \in Words : Bit(ModifyBit(pref[c], 2, 1 - state), 2) = 1 - state
    <3> TAKE c \in Words
    <3>1. pref[c] \in 64..95 /\ 1 - state \in {0, 1}
      BY <1>1 DEF WordsOf
    <3> QED BY <3>1, ModifyBits
  <2> HIDE DEF p
  <2>4. LoudFollows(p)
    BY <2>1, <2>2, <2>3 DEF LoudFollows
  <2> QED BY <2>4 DEF LoudOwed, Covers, p
<1>5. GainOwed("loud", list)
  <2>1. (Words \cup {"loud"}) \cap {"gain"} = {}
    BY DEF Words
  <2> QED BY <1>3, <2>1 DEF GainOwed, Covers
<1>6. FrameOwed("loud", list)
  <2>1. (Words \cup {"loud"}) \cap (FrameKeys \cup {"frame"}) = {}
    BY DEF Words, FrameKeys, Speakers
  <2>2. Skips(list, FrameKeys \cup {"frame"})
    BY <1>3, <2>1
  <2> QED BY <2>2 DEF FrameOwed, Covers, Tellers
<1>7. PlaceOwed("loud", list)
  <2>1. (Words \cup {"loud"}) \cap (Speakers \cup {"x", "y"}) = {}
    BY DEF Words, Speakers
  <2>2. Skips(list, Speakers \cup {"x", "y"})
    BY <1>3, <2>1
  <2> QED BY <2>2 DEF PlaceOwed, Covers
<1> QED BY <1>4, <1>5, <1>6, <1>7 DEF Owes, list

(* The words of a list that ends like that of the gain follow the gain.    *)
LEMMA GainIsStored ==
  ASSUME NEW list \in Seq(Commits), NEW value,
         EndsWith(list, <<"gain", value>>, {"gain"}),
         \A c \in Words : \E w :
           /\ EndsWith(list, <<c, w>>, {c})
           /\ Bit(w, 3) = 1 <=> value \in {0, 8}
           /\ Bit(w, 4) = 1 <=> value \in {0, 4}
  PROVE  GainFollows(Stored(list, pref))
<1> DEFINE p == Stored(list, pref)
<1>1. p["gain"] = value
  <2>1. "gain" \in Keys /\ list \in Seq(Commits) /\ EndsWith(list, <<"gain", value>>, {"gain"})
    BY KeysOfSettings
  <2>2. Stored(list, pref)["gain"] = value
    BY ONLY <2>1, StoredEnds
  <2> QED BY <2>2
<1>2. \A c \in Words : /\ Bit(p[c], 3) = 1 <=> value \in {0, 8}
                       /\ Bit(p[c], 4) = 1 <=> value \in {0, 4}
  <2> TAKE c \in Words
  <2>1. PICK w : /\ EndsWith(list, <<c, w>>, {c})
                 /\ Bit(w, 3) = 1 <=> value \in {0, 8}
                 /\ Bit(w, 4) = 1 <=> value \in {0, 4}
    OBVIOUS
  <2>2. p[c] = w
    <3>1. c \in Keys /\ list \in Seq(Commits) /\ EndsWith(list, <<c, w>>, {c})
      BY <2>1, KeysOfSettings
    <3>2. Stored(list, pref)[c] = w
      BY ONLY <3>1, StoredEnds
    <3> QED BY <3>2
  <2> HIDE DEF p
  <2> QED BY <2>1, <2>2
<1> HIDE DEF p
<1>3. GainFollows(p)
  BY <1>1, <1>2 DEF GainFollows
<1> QED BY <1>3 DEF p

(* The handler of the gain, that of the bass or the treble, and that of a  *)
(* place of the picture.                                                   *)
LEMMA GainOwes ==
  ASSUME IInv, NEW value \in {0, 4, 8, 12}
  PROVE  Owes("gain", SetGainValue(pref, value))
<1> DEFINE list == SetGainValue(pref, value)
<1>1. \A c \in Words : pref[c] \in WordsOf(c)
  BY DEF IInv, PrefOK
<1>2. list \in Seq(Commits)
  BY <1>1, SetGainValueOK
<1>3. /\ EndsWith(list, <<"gain", value>>, {"gain"})
      /\ \A c \in Words : \E w :
           /\ EndsWith(list, <<c, w>>, {c})
           /\ Bit(w, 3) = 1 <=> value \in {0, 8}
           /\ Bit(w, 4) = 1 <=> value \in {0, 4}
      /\ \A keys : (Words \cup {"gain"}) \cap keys = {} => Skips(list, keys)
      /\ KeepsBit(list, 2)
  <2>1. LET l == SetGainValue(pref, value)
         IN  /\ EndsWith(l, <<"gain", value>>, {"gain"})
             /\ \A c \in Words : \E w :
                  /\ EndsWith(l, <<c, w>>, {c})
                  /\ Bit(w, 2) = Bit(pref[c], 2)
                  /\ Bit(w, 3) = 1 <=> value \in {0, 8}
                  /\ Bit(w, 4) = 1 <=> value \in {0, 4}
             /\ \A keys : (Words \cup {"gain"}) \cap keys = {} => Skips(l, keys)
             /\ (\A c \in Words : Bit(pref[c], 2) = Bit(pref[c], 2)) => KeepsBit(l, 2)
    BY <1>1, SetGainValueEnds
  <2> QED BY <2>1
<1> HIDE DEF list
<1>4. GainOwed("gain", list)
  BY <1>2, <1>3, GainIsStored DEF GainOwed, Covers
<1>5. LoudOwed("gain", list)
  <2>1. (Words \cup {"gain"}) \cap {"loud"} = {}
    BY DEF Words
  <2> QED BY <1>3, <2>1 DEF LoudOwed, Covers
<1>6. FrameOwed("gain", list)
  <2>1. (Words \cup {"gain"}) \cap (FrameKeys \cup {"frame"}) = {}
    BY DEF Words, FrameKeys, Speakers
  <2>2. Skips(list, FrameKeys \cup {"frame"})
    BY <1>3, <2>1
  <2> QED BY <2>2 DEF FrameOwed, Covers, Tellers
<1>7. PlaceOwed("gain", list)
  <2>1. (Words \cup {"gain"}) \cap (Speakers \cup {"x", "y"}) = {}
    BY DEF Words, Speakers
  <2>2. Skips(list, Speakers \cup {"x", "y"})
    BY <1>3, <2>1
  <2> QED BY <2>2 DEF PlaceOwed, Covers
<1> QED BY <1>4, <1>5, <1>6, <1>7 DEF Owes, list

LEMMA ToneOwes ==
  ASSUME NEW h \in {"bass", "treble"}, NEW value, <<h, value>> \in Commits
  PROVE  Owes(h, <<<<h, value>>, Send>>)
<1> DEFINE list == <<<<h, value>>, Send>>
<1>1. Len(list) = 2 /\ list[1] = <<h, value>> /\ list[2] = Send /\ Send[1] = "frame"
  BY DEF Send
<1> HIDE DEF list
<1>2. LoudOwed(h, list) /\ GainOwed(h, list)
  BY <1>1 DEF LoudOwed, GainOwed, Covers, Skips, KeepsBit, Words
<1>3. PlaceOwed(h, list)
  BY <1>1 DEF PlaceOwed, Covers, Skips, Speakers
<1>4. SendsLast(list)
  BY <1>1 DEF SendsLast, EndsWith
<1>5. FrameOwed(h, list)
  BY <1>4 DEF FrameOwed, Covers, Tellers
<1> QED BY <1>2, <1>3, <1>5 DEF Owes, list

LEMMA BalanceOwes ==
  ASSUME NEW spot \in Area
  PROVE  Owes("balance", CalculateBalanceData(spot) \o SetXYcordinates(spot))
<1> DEFINE speakers == CalculateBalanceData(spot)
           place == SetXYcordinates(spot)
           list == speakers \o place
<1>1. speakers \in Seq(Commits) /\ place \in Seq(Commits)
  BY SpeakersInitOK, SetXYcordinatesOK DEF CalculateBalanceData
<1>2. ASSUME NEW keys, (Speakers \cup {"frame", "x", "y"}) \cap keys = {}
      PROVE  Skips(list, keys)
  <2>1. (Speakers \cup {"frame"}) \cap keys = {} /\ {"x", "y"} \cap keys = {}
    BY <1>2
  <2>2. Skips(speakers, keys)
    BY <2>1, SpeakersSkip DEF CalculateBalanceData
  <2>3. Skips(place, keys)
    BY <2>1, PlaceSkips
  <2> HIDE DEF speakers, place
  <2> QED BY <1>1, <2>2, <2>3, SkipsBoth
<1>3. NearIsLouder(Stored(list, pref)) /\ SendsLast(list)
  BY BalanceCompletes
<1>4. list \in Seq(Commits)
  <2> HIDE DEF speakers, place
  <2> QED BY <1>1
<1> HIDE DEF list
<1>5. Skips(list, Words) /\ Skips(list, {"loud"}) /\ Skips(list, {"gain"})
  <2>1. /\ (Speakers \cup {"frame", "x", "y"}) \cap Words = {}
        /\ (Speakers \cup {"frame", "x", "y"}) \cap {"loud"} = {}
        /\ (Speakers \cup {"frame", "x", "y"}) \cap {"gain"} = {}
    BY DEF Words, Speakers
  <2> QED BY <1>2, <2>1
<1>6. \A p : KeepsBit(list, p)
  BY <1>5 DEF KeepsBit, Skips
<1> QED BY <1>3, <1>5, <1>6
        DEF Owes, LoudOwed, GainOwed, FrameOwed, PlaceOwed, Covers, Tellers, list

(* The speakers in the middle are as loud as one another.                  *)
LEMMA CentreEnds ==
  /\ ToCentre \in Seq(Commits)
  /\ \A k \in Speakers : EndsWith(ToCentre, <<k, 31>>, {k})
  /\ EndsWith(ToCentre, Send, FrameKeys)
  /\ \A keys : (Speakers \cup {"frame", "x", "y"}) \cap keys = {} => Skips(ToCentre, keys)
<1> DEFINE place == SetXYcordinates(Centre)
           speakers == SpeakersInit(100, 100, 100, 100)
<1>1. speakers \in Seq(Commits) /\ place \in Seq(Commits)
  BY SpeakersInitOK, SetXYcordinatesOK DEF Centre, Area
<1>2. CheckPercent(100) = 31
  BY DEF CheckPercent
<1>3. /\ \A k \in Speakers : EndsWith(speakers, <<k, 31>>, {k})
      /\ EndsWith(speakers, Send, FrameKeys)
  BY <1>2, SpeakersEnd DEF Speakers
<1>4. ASSUME NEW keys, (Speakers \cup {"frame", "x", "y"}) \cap keys = {}
      PROVE  Skips(speakers, keys) /\ Skips(place, keys)
  <2>1. (Speakers \cup {"frame"}) \cap keys = {} /\ {"x", "y"} \cap keys = {}
    BY <1>4
  <2> QED BY <2>1, SpeakersSkip, PlaceSkips
<1>5. ToCentre = place \o speakers
  BY DEF ToCentre
<1> HIDE DEF place, speakers
<1>6. place \o speakers \in Seq(Commits)
  BY <1>1
<1>7. \A k \in Speakers : EndsWith(place \o speakers, <<k, 31>>, {k})
  BY <1>1, <1>3, EndsLater
<1>8. EndsWith(place \o speakers, Send, FrameKeys)
  BY <1>1, <1>3, EndsLater
<1>9. \A keys : (Speakers \cup {"frame", "x", "y"}) \cap keys = {} => Skips(place \o speakers, keys)
  BY <1>1, <1>4, SkipsBoth
<1> QED BY <1>5, <1>6, <1>7, <1>8, <1>9

(* Speakers that are equally loud are right wherever the picture is.       *)
LEMMA MiddleIsLoud ==
  ASSUME NEW list \in Seq(Commits), \A k \in Speakers : EndsWith(list, <<k, 31>>, {k})
  PROVE  NearIsLouder(Stored(list, pref))
<1> DEFINE p == Stored(list, pref)
<1>1. \A k \in Speakers : p[k] = 31
  <2> TAKE k \in Speakers
  <2>1. k \in Keys /\ list \in Seq(Commits) /\ EndsWith(list, <<k, 31>>, {k})
    BY KeysOfSettings
  <2>2. Stored(list, pref)[k] = 31
    <3>1. \A v : EndsWith(list, <<k, v>>, {k}) => Stored(list, pref)[k] = v
      BY <2>1, StoredEnds
    <3> QED BY <2>1, <3>1, Zenon
  <2> QED BY <2>2
<1> HIDE DEF p
<1>2. NearIsLouder(p)
  BY <1>1 DEF NearIsLouder, Speakers
<1> QED BY <1>2 DEF p

(* The handler that moves the picture to the centre.                       *)
LEMMA CentreOwes == Owes("balance", ToCentre)
<1>1. /\ (Speakers \cup {"frame", "x", "y"}) \cap Words = {}
      /\ (Speakers \cup {"frame", "x", "y"}) \cap {"loud"} = {}
      /\ (Speakers \cup {"frame", "x", "y"}) \cap {"gain"} = {}
  BY DEF Words, Speakers
<1>2. Skips(ToCentre, Words) /\ Skips(ToCentre, {"loud"}) /\ Skips(ToCentre, {"gain"})
  BY <1>1, CentreEnds
<1>3. \A p : KeepsBit(ToCentre, p)
  BY <1>2 DEF KeepsBit, Skips
<1>4. NearIsLouder(Stored(ToCentre, pref)) /\ SendsLast(ToCentre)
  BY CentreEnds, MiddleIsLoud DEF SendsLast
<1> QED BY <1>2, <1>3, <1>4
        DEF Owes, LoudOwed, GainOwed, FrameOwed, PlaceOwed, Covers, Tellers

(* The reset button completes every setting.                               *)
LEMMA ResetOwes ==
  ASSUME IInv
  PROVE  Owes("reset",
           ToCentre \o LoudState(pref, 0)
             \o <<<<"bass", 0>>, Send, <<"treble", 0>>, Send>>
             \o SetGainValue(Modified(pref, 2, 1), 0))
<1> DEFINE centre == ToCentre
           loud == LoudState(pref, 0)
           tones == <<<<"bass", 0>>, Send, <<"treble", 0>>, Send>>
           m == Modified(pref, 2, 1)
           gain == SetGainValue(m, 0)
           first == centre \o loud
           second == first \o tones
           list == second \o gain
<1>1. \A c \in Words : pref[c] \in WordsOf(c) /\ m[c] \in WordsOf(c)
  BY ModifiedKeeps DEF IInv, PrefOK
<1>2. \A c \in Words : Bit(m[c], 2) = 1
  <2> TAKE c \in Words
  <2>1. pref[c] \in 64..95
    BY <1>1 DEF WordsOf
  <2>2. m[c] = ModifyBit(pref[c], 2, 1)
    BY DEF Modified
  <2> HIDE DEF m
  <2> QED BY <2>1, <2>2, ModifyBits
<1>3. centre \in Seq(Commits) /\ loud \in Seq(Commits)
  BY <1>1, CentreEnds, LoudStateOK
<1>4. tones \in Seq(Commits)
  <2>1. /\ <<"bass", 0>> \in Commits /\ <<"treble", 0>> \in Commits
        /\ Send \in Commits
    BY DEF Commits
  <2> QED BY <2>1
<1>5. gain \in Seq(Commits)
  <2> HIDE DEF m
  <2> QED BY <1>1, SetGainValueOK
<1>6. EndsWith(loud, <<"loud", 0>>, {"loud"})
  BY <1>1, LoudStateEnds
<1>7. \A keys : (Words \cup {"loud"}) \cap keys = {} => Skips(loud, keys)
  BY <1>1, LoudStateEnds
<1>8. EndsWith(tones, Send, FrameKeys)
  <2>1. Len(tones) = 4 /\ tones[4] = Send
    OBVIOUS
  <2> HIDE DEF tones
  <2> QED BY <2>1 DEF EndsWith
<1>9. \A keys : {"bass", "treble", "frame"} \cap keys = {} => Skips(tones, keys)
  <2>1. /\ Len(tones) = 4 /\ tones[1][1] = "bass" /\ tones[2][1] = "frame"
        /\ tones[3][1] = "treble" /\ tones[4][1] = "frame"
    BY DEF Send
  <2> HIDE DEF tones
  <2> QED BY <2>1 DEF Skips
<1>10. /\ EndsWith(gain, <<"gain", 0>>, {"gain"})
       /\ \A c \in Words : \E w :
            /\ EndsWith(gain, <<c, w>>, {c})
            /\ Bit(w, 2) = Bit(m[c], 2)
            /\ Bit(w, 3) = 1 <=> 0 \in {0, 8}
            /\ Bit(w, 4) = 1 <=> 0 \in {0, 4}
       /\ \A keys : (Words \cup {"gain"}) \cap keys = {} => Skips(gain, keys)
  <2> HIDE DEF m
  <2>1. LET l == SetGainValue(m, 0)
         IN  /\ EndsWith(l, <<"gain", 0>>, {"gain"})
             /\ \A c \in Words : \E w :
                  /\ EndsWith(l, <<c, w>>, {c})
                  /\ Bit(w, 2) = Bit(m[c], 2)
                  /\ Bit(w, 3) = 1 <=> 0 \in {0, 8}
                  /\ Bit(w, 4) = 1 <=> 0 \in {0, 4}
             /\ \A keys : (Words \cup {"gain"}) \cap keys = {} => Skips(l, keys)
             /\ (\A c \in Words : Bit(m[c], 2) = Bit(pref[c], 2)) => KeepsBit(l, 2)
    BY <1>1, SetGainValueEnds
  <2> QED BY <2>1
<1> HIDE DEF centre, loud, tones, m, gain
<1>11. first \in Seq(Commits) /\ second \in Seq(Commits) /\ list \in Seq(Commits)
  BY <1>3, <1>4, <1>5
<1>12. /\ (Words \cup {"loud"}) \cap FrameKeys = {}
       /\ (Words \cup {"gain"}) \cap FrameKeys = {}
       /\ (Words \cup {"gain"}) \cap {"loud"} = {}
       /\ {"bass", "treble", "frame"} \cap {"loud"} = {}
       /\ \A k \in Speakers : /\ (Words \cup {"loud"}) \cap {k} = {}
                              /\ (Words \cup {"gain"}) \cap {k} = {}
                              /\ {"bass", "treble", "frame"} \cap {k} = {}
  BY DEF Words, Speakers, FrameKeys
<1>13. /\ Skips(gain, FrameKeys) /\ Skips(gain, {"loud"}) /\ Skips(tones, {"loud"})
       /\ \A k \in Speakers : Skips(loud, {k}) /\ Skips(tones, {k}) /\ Skips(gain, {k})
  BY <1>7, <1>9, <1>10, <1>12
<1> HIDE DEF first, second, list
<1>14. NearIsLouder(Stored(list, pref))
  <2>1. \A k \in Speakers : EndsWith(first, <<k, 31>>, {k})
    BY <1>3, <1>13, CentreEnds, EndsBefore DEF first, centre
  <2>2. \A k \in Speakers : EndsWith(second, <<k, 31>>, {k})
    BY <1>4, <1>11, <1>13, <2>1, EndsBefore DEF second
  <2>3. \A k \in Speakers : EndsWith(list, <<k, 31>>, {k})
    BY <1>5, <1>11, <1>13, <2>2, EndsBefore DEF list
  <2> QED BY <1>11, <2>3, MiddleIsLoud
<1>15. SendsLast(list)
  <2>1. EndsWith(second, Send, FrameKeys)
    BY <1>4, <1>8, <1>11, EndsLater DEF second
  <2> QED BY <1>5, <1>11, <1>13, <2>1, EndsBefore DEF list, SendsLast
<1>16. LoudFollows(Stored(list, pref))
  <2>1. EndsWith(first, <<"loud", 0>>, {"loud"})
    BY <1>3, <1>6, EndsLater DEF first
  <2>2. EndsWith(second, <<"loud", 0>>, {"loud"})
    BY <1>4, <1>11, <1>13, <2>1, EndsBefore DEF second
  <2>3. EndsWith(list, <<"loud", 0>>, {"loud"})
    BY <1>5, <1>11, <1>13, <2>2, EndsBefore DEF list
  <2>4. Stored(list, pref)["loud"] = 0
    <3>1. "loud" \in Keys
      BY KeysOfSettings
    <3> QED BY ONLY <1>11, <2>3, <3>1, StoredEnds
  <2>5. \A c \in Words : Bit(Stored(list, pref)[c], 2) = 1
    <3> TAKE c \in Words
    <3>1. PICK w : EndsWith(gain, <<c, w>>, {c}) /\ Bit(w, 2) = 1
      BY <1>2, <1>10
    <3>2. EndsWith(list, <<c, w>>, {c}) /\ c \in Keys
      BY <1>5, <1>11, <3>1, EndsLater, KeysOfSettings DEF list
    <3>3. Stored(list, pref)[c] = w
      BY ONLY <1>11, <3>2, StoredEnds
    <3> QED BY <3>1, <3>3
  <2> QED BY <2>4, <2>5 DEF LoudFollows
<1>17. GainFollows(Stored(list, pref))
  <2>1. EndsWith(list, <<"gain", 0>>, {"gain"})
    BY <1>5, <1>10, <1>11, EndsLater DEF list
  <2>2. \A c \in Words : \E w :
          /\ EndsWith(list, <<c, w>>, {c})
          /\ Bit(w, 3) = 1 <=> 0 \in {0, 8}
          /\ Bit(w, 4) = 1 <=> 0 \in {0, 4}
    BY <1>5, <1>10, <1>11, EndsLater DEF list
  <2> QED BY <1>11, <2>1, <2>2, GainIsStored
<1>18. Owes("reset", list)
  BY <1>14, <1>15, <1>16, <1>17
     DEF Owes, LoudOwed, GainOwed, FrameOwed, PlaceOwed, Covers, Handlers, Tellers
<1> QED BY <1>18 DEF list, second, first, gain, m, tones, loud, centre

LEMMA OwedInvIs ==
  OwedInv <=>
    LET unsettled == torn \cup Covers(busy)
    IN  /\ "loud" \notin unsettled => LoudFollows(pref)
        /\ "gain" \notin unsettled => GainFollows(pref)
        /\ unsettled \cap Tellers = {} => Told
        /\ "balance" \notin unsettled => NearIsLouder(pref)
        /\ Owes(busy, todo)
BY DEF OwedInv, Owes

(* The defaults of PrefManager agree with one another.                     *)
LEMMA InitOwes == Init => OwedInv
<1> SUFFICES ASSUME Init
             PROVE  OwedInv
  OBVIOUS
<1>1. busy = "none" /\ todo = <<>> /\ frame = GetAudioValues(pref, Null)
  BY DEF Init
<1>2. /\ \A c \in Words : pref[c] = Default[c]
      /\ \A s \in Speakers : pref[s] = 30
      /\ pref["loud"] = 0 /\ pref["gain"] = 0
  <2>1. \A c \in Words : pref[c] = Default[c]
    BY DEF Init, Keys, Words, Speakers
  <2>2. \A s \in Speakers : pref[s] = 30
    BY DEF Init, Keys, Words, Speakers
  <2>3. pref["loud"] = 0 /\ pref["gain"] = 0
    BY DEF Init, Keys, Words, Speakers
  <2> QED BY <2>1, <2>2, <2>3
<1>3. LoudFollows(pref)
  BY <1>2 DEF LoudFollows, Words, Default, Bit, Weight
<1>4. GainFollows(pref)
  BY <1>2 DEF GainFollows, Words, Default, Bit, Weight
<1>5. Told
  BY <1>1 DEF Told, Tells
<1>6. NearIsLouder(pref)
  BY <1>2 DEF NearIsLouder, Speakers
<1> QED BY <1>1, <1>3, <1>4, <1>5, <1>6, NothingOwed, OwedInvIs

(* The commits owed are judged by the preferences they are carried out on. *)
LEMMA StartsOwes ==
  ASSUME OwedInv, NEW h \in Handlers, NEW list, Starts(h, list), Owes(h, list)
  PROVE  OwedInv'
<1> USE DEF Starts
<1>1. Owes(busy', todo')
  OBVIOUS
<1>2. /\ LoudFollows(pref)' <=> LoudFollows(pref)
      /\ GainFollows(pref)' <=> GainFollows(pref)
      /\ NearIsLouder(pref)' <=> NearIsLouder(pref)
      /\ Told' <=> Told
  BY DEF LoudFollows, GainFollows, NearIsLouder, Told, Tells, GetAudioValues, sending
<1>3. (LoudOwed(busy, todo))' <=> LoudOwed(h, list)
  BY DEF LoudOwed, LoudFollows, KeepsBit, Stored
<1>4. (GainOwed(busy, todo))' <=> GainOwed(h, list)
  BY DEF GainOwed, GainFollows, KeepsBit, Stored
<1>5. (FrameOwed(busy, todo))' <=> FrameOwed(h, list)
  BY <1>2 DEF FrameOwed
<1>6. (PlaceOwed(busy, todo))' <=> PlaceOwed(h, list)
  BY DEF PlaceOwed, NearIsLouder, Stored
<1>7. Covers("none") = {"none"}
  BY DEF Covers
<1>8. /\ "loud" \notin (torn \cup Covers(busy))' => LoudFollows(pref)'
      /\ "gain" \notin (torn \cup Covers(busy))' => GainFollows(pref)'
      /\ (torn \cup Covers(busy))' \cap Tellers = {} => Told'
      /\ "balance" \notin (torn \cup Covers(busy))' => NearIsLouder(pref)'
  BY <1>2, <1>7 DEF OwedInv, Tellers
<1> QED BY <1>3, <1>4, <1>5, <1>6, <1>8 DEF OwedInv, Owes

(* Between handlers, and when the process dies, nothing is owed.           *)
LEMMA NothingChanges ==
  ASSUME pref' = pref, todo' = <<>>, busy' = "none"
  PROVE  LoudOwed(busy, todo)' /\ GainOwed(busy, todo)' /\ FrameOwed(busy, todo)' /\ PlaceOwed(busy, todo)'
BY DEF LoudOwed, GainOwed, FrameOwed, PlaceOwed, Covers, Skips, KeepsBit, Tellers

(* A death leaves the settings of the handler torn, the others settled.    *)
LEMMA KilledOwes ==
  ASSUME OwedInv, busy \in Handlers, Killed
  PROVE  OwedInv'
<1>1. /\ LoudOwed(busy, todo)' /\ GainOwed(busy, todo)'
      /\ FrameOwed(busy, todo)' /\ PlaceOwed(busy, todo)'
  BY NothingChanges DEF Killed
<1>2. /\ LoudFollows(pref)' <=> LoudFollows(pref)
      /\ GainFollows(pref)' <=> GainFollows(pref)
      /\ NearIsLouder(pref)' <=> NearIsLouder(pref)
      /\ Told' <=> Told
  BY DEF Killed, LoudFollows, GainFollows, NearIsLouder, Told, Tells, GetAudioValues
<1>3. Covers(busy') = {"none"} /\ torn' = torn \cup (Covers(busy) \ {"none"})
  BY DEF Killed, Covers
<1> QED BY <1>1, <1>2, <1>3 DEF OwedInv, Tellers

(* A frame that is sent tells what is stored, whatever field there was.    *)
LEMMA SendingTells ==
  ASSUME NEW old, frame' = GetAudioValues(pref, old), pref' = pref, frame \in Frames, pref["bass"] \in -7..7
  PROVE  Told'
<1> SUFFICES ASSUME NEW f \in {"lf", "rf", "lr", "rr", "bass", "treble"},
                    f # "bass" \/ pref["bass"] \notin -3..-1
             PROVE  GetAudioValues(pref, old)[f] = GetAudioValues(pref, Null)[f]
  <2>1. DOMAIN GetAudioValues(pref, old) = {"lf", "rf", "lr", "rr", "bass", "treble"}
    BY DEF GetAudioValues
  <2> QED BY <2>1 DEF Told, Tells, GetAudioValues
<1>1. CASE f # "bass"
  BY <1>1 DEF GetAudioValues
<1>2. CASE f = "bass"
  <2>1. pref["bass"] < -3 \/ ~(pref["bass"] < 0)
    BY <1>2
  <2>2. GetBaseValue(pref["bass"], old) = GetBaseValue(pref["bass"], Null)
    BY <2>1 DEF GetBaseValue
  <2> QED BY <1>2, <2>2 DEF GetAudioValues
<1> QED BY <1>1, <1>2

(* The home screen sends what is stored.                                   *)
LEMMA HomeResumesOwes ==
  ASSUME IInv, OwedInv, HomeResumes
  PROVE  OwedInv'
<1>1. /\ pref' = pref /\ busy = "none" /\ busy' = "none" /\ todo' = todo /\ torn' = torn
  BY DEF HomeResumes
<1>2. todo = <<>>
  BY <1>1 DEF IInv, TodoOK
<1>3. /\ LoudOwed(busy, todo)' /\ GainOwed(busy, todo)'
      /\ FrameOwed(busy, todo)' /\ PlaceOwed(busy, todo)'
  BY <1>1, <1>2, NothingChanges
<1>4. /\ LoudFollows(pref)' <=> LoudFollows(pref)
      /\ GainFollows(pref)' <=> GainFollows(pref)
      /\ NearIsLouder(pref)' <=> NearIsLouder(pref)
  BY <1>1 DEF LoudFollows, GainFollows, NearIsLouder
<1>5. Told'
  <2>1. PICK old : frame' = GetAudioValues(pref, old)
    BY DEF HomeResumes, SendFrame
  <2> QED BY <1>1, <2>1, SendingTells DEF IInv, SentOK, PrefOK
<1> QED BY <1>1, <1>3, <1>4, <1>5 DEF OwedInv

-----------------------------------------------------------------------------
(* What a list skips, keeps or ends with when its first commit is done.    *)
LEMMA SkipsTail ==
  ASSUME NEW list \in Seq(Commits), list # <<>>, NEW keys, Skips(list, keys)
  PROVE  Head(list)[1] \notin keys /\ Skips(Tail(list), keys)
<1>1. /\ Len(list) \in Nat /\ Len(list) >= 1 /\ Head(list) = list[1]
      /\ Len(Tail(list)) = Len(list) - 1
      /\ \A i \in 1 .. Len(Tail(list)) : Tail(list)[i] = list[i + 1]
  OBVIOUS
<1> QED BY <1>1 DEF Skips

LEMMA KeepsTail ==
  ASSUME NEW list \in Seq(Commits), list # <<>>, NEW p, KeepsBit(list, p)
  PROVE  KeepsBit(Tail(list), p)
<1>1. /\ Len(list) \in Nat /\ Len(list) >= 1
      /\ Len(Tail(list)) = Len(list) - 1
      /\ \A i \in 1 .. Len(Tail(list)) : Tail(list)[i] = list[i + 1] /\ i + 1 \in 1 .. Len(list)
  OBVIOUS
<1> QED BY <1>1 DEF KeepsBit

LEMMA EndsTail ==
  ASSUME NEW list \in Seq(Commits), list # <<>>, NEW commit, NEW keys, EndsWith(list, commit, keys)
  PROVE  EndsWith(Tail(list), commit, keys) \/ (Head(list) = commit /\ Skips(Tail(list), keys))
<1> DEFINE t == Tail(list)
<1>1. /\ Len(list) \in Nat /\ Len(list) >= 1 /\ Head(list) = list[1]
      /\ Len(t) = Len(list) - 1
      /\ \A i \in 1 .. Len(t) : t[i] = list[i + 1]
  OBVIOUS
<1> HIDE DEF t
<1>2. PICK i \in 1 .. Len(list) :
        list[i] = commit /\ \A j \in i + 1 .. Len(list) : list[j][1] \notin keys
  BY DEF EndsWith
<1>3. CASE i = 1
  <2>1. \A j \in 1 .. Len(t) : t[j][1] \notin keys
    BY <1>1, <1>2, <1>3
  <2> QED BY <1>1, <1>2, <1>3, <2>1 DEF Skips, t
<1>4. CASE i > 1
  <2>1. i - 1 \in 1 .. Len(t) /\ t[i - 1] = commit
    BY <1>1, <1>2, <1>4
  <2>2. \A j \in (i - 1) + 1 .. Len(t) : t[j][1] \notin keys
    <3> TAKE j \in (i - 1) + 1 .. Len(t)
    <3>1. j + 1 \in i + 1 .. Len(list) /\ j \in 1 .. Len(t)
      BY <1>1, <1>2, <1>4
    <3> QED BY <1>1, <1>2, <3>1
  <2> QED BY <2>1, <2>2 DEF EndsWith, t
<1> QED BY <1>2, <1>3, <1>4

(* What a step that carries out a commit does.                             *)
LEMMA CommitDoes ==
  ASSUME IInv, Commit
  PROVE  /\ todo \in Seq(Commits) /\ todo # <<>> /\ Head(todo) \in Commits
         /\ todo' = Tail(todo) /\ todo' \in Seq(Commits)
         /\ DOMAIN pref = Keys /\ DOMAIN pref' = Keys
         /\ \A k \in Keys : k # Head(todo)[1] => pref'[k] = pref[k]
         /\ Head(todo) = Send => pref' = pref
         /\ Head(todo) # Send => pref' = [pref EXCEPT ![Head(todo)[1]] = Head(todo)[2]]
         /\ todo' = <<>> => busy' = "none"
         /\ \/ todo' = <<>> /\ busy' = "none" /\ torn' = torn \ Covers(busy)
            \/ busy' = busy /\ torn' = torn
<1>1. todo \in Seq(Commits) /\ todo # <<>> /\ DOMAIN pref = Keys
  BY DEF IInv, TodoOK, PrefOK, Commit
<1>2. Head(todo) \in Commits /\ Tail(todo) \in Seq(Commits)
  BY <1>1
<1> QED BY <1>1, <1>2 DEF Commit

(* What the handler comes to does not change on the way.                   *)
LEMMA CommitStores ==
  ASSUME IInv, Commit
  PROVE  /\ \A k \in Keys : Stored(todo', pref')[k] = Stored(todo, pref)[k]
         /\ todo' = <<>> => \A k \in Keys : Stored(todo', pref')[k] = pref'[k]
<1>1. ASSUME NEW k \in Keys
      PROVE  Stored(todo', pref')[k] = Stored(todo, pref)[k]
  <2>1. todo \in Seq(Commits) /\ todo # <<>> /\ DOMAIN pref = Keys
    BY CommitDoes
  <2>2. todo' = Tail(todo) /\ pref' = After(pref, Head(todo))
    BY CommitDoes DEF After
  <2>3. Stored(Tail(todo), After(pref, Head(todo)))[k] = Stored(todo, pref)[k]
    BY ONLY <2>1, StoredTail, k \in Keys
  <2> QED BY <2>2, <2>3
<1>2. ASSUME todo' = <<>>, NEW k \in Keys
      PROVE  Stored(todo', pref')[k] = pref'[k]
  <2>1. Skips(todo', {k})
    BY <1>2 DEF Skips
  <2> QED BY <2>1, StoredSkips
<1> QED BY <1>1, <1>2

(* What the handler that runs does not cover stays settled or torn.        *)
LEMMA CommitSettles ==
  ASSUME IInv, Commit
  PROVE  /\ \A s : s \notin (torn \cup Covers(busy))' /\ s \notin Covers(busy)
                     => s \notin torn \cup Covers(busy)
         /\ \A s : s \in Covers(busy) /\ s \notin (torn \cup Covers(busy))' => todo' = <<>>
         /\ \A s \in {"loud", "gain", "balance", "bass", "treble"} :
              s \in Covers(busy)' => s \in Covers(busy) /\ busy' = busy
<1>1. \A s \in {"loud", "gain", "balance", "bass", "treble"} : s \notin Covers("none")
  BY DEF Covers
<1> QED BY <1>1, CommitDoes

(* What the list skips is left alone, and so are the bits that it keeps.   *)
LEMMA CommitSkips ==
  ASSUME IInv, Commit, NEW keys, Skips(todo, keys)
  PROVE  Head(todo)[1] \notin keys /\ Skips(todo', keys)
<1>1. todo \in Seq(Commits) /\ todo # <<>> /\ todo' = Tail(todo)
  BY CommitDoes
<1>2. Head(todo)[1] \notin keys /\ Skips(Tail(todo), keys)
  BY <1>1, SkipsTail
<1> QED BY <1>1, <1>2

LEMMA CommitKeepsBits ==
  ASSUME IInv, Commit, NEW p, KeepsBit(todo, p)
  PROVE  /\ \A w \in Words : Bit(pref'[w], p) = Bit(pref[w], p)
         /\ KeepsBit(todo, p)'
<1> DEFINE c == Head(todo)
<1>1. Words \subseteq Keys
  BY KeysOfSettings
<1>2. todo \in Seq(Commits) /\ todo # <<>> /\ todo' = Tail(todo)
  BY CommitDoes
<1>3. \A w \in Words : Bit(pref'[w], p) = Bit(pref[w], p)
  <2> TAKE w \in Words
  <2>1. CASE c[1] = w
    <3>1. c # Send /\ w \in Keys
      BY <2>1, <1>1 DEF Send, Words
    <3>2. pref'[w] = c[2]
      BY <2>1, <3>1, CommitDoes
    <3>3. c = todo[1] /\ 1 \in 1 .. Len(todo)
      BY <1>2
    <3>4. Bit(c[2], p) = Bit(pref[w], p)
      BY <2>1, <3>3 DEF KeepsBit
    <3> QED BY <3>2, <3>4
  <2>2. CASE c[1] # w
    BY <1>1, <2>2, CommitDoes
  <2> QED BY <2>1, <2>2
<1>4. KeepsBit(Tail(todo), p)
  BY <1>2, KeepsTail
<1>5. KeepsBit(todo, p)'
  BY <1>2, <1>3, <1>4 DEF KeepsBit
<1> QED BY <1>3, <1>5

(* A commit keeps each part of the invariant: loudness, gain, balance,     *)
(* frame.                                                                  *)
LEMMA CommitLoud ==
  ASSUME IInv, OwedInv, Commit
  PROVE  /\ "loud" \notin (torn \cup Covers(busy))' => LoudFollows(pref)'
         /\ LoudOwed(busy, todo)'
<1>1. Words \subseteq Keys /\ "loud" \in Keys
  BY KeysOfSettings
<1>2. CASE "loud" \in Covers(busy)
  <2>1. LoudFollows(Stored(todo, pref))
    BY <1>2 DEF OwedInv, LoudOwed
  <2>2. LoudFollows(Stored(todo', pref'))
    BY <1>1, <2>1, CommitStores DEF LoudFollows
  <2>3. todo' = <<>> => LoudFollows(pref')
    BY <1>1, <2>2, CommitStores DEF LoudFollows
  <2>4. LoudFollows(pref)' <=> LoudFollows(pref')
    BY DEF LoudFollows
  <2>5. CASE todo' = <<>>
    BY <2>2, <2>3, <2>4, <2>5 DEF LoudOwed, Skips, KeepsBit
  <2>6. CASE todo' # <<>>
    <3>1. busy' = busy /\ torn' = torn
      BY <2>6, CommitDoes
    <3> QED BY <1>2, <2>2, <3>1 DEF LoudOwed
  <2> QED BY <2>5, <2>6
<1>3. CASE "loud" \notin Covers(busy)
  <2>1. Skips(todo, {"loud"}) /\ KeepsBit(todo, 2)
    BY <1>3 DEF OwedInv, LoudOwed
  <2>2. Head(todo)[1] # "loud" /\ Skips(todo', {"loud"})
    BY <2>1, CommitSkips
  <2>3. (\A w \in Words : Bit(pref'[w], 2) = Bit(pref[w], 2)) /\ KeepsBit(todo, 2)'
    BY <2>1, CommitKeepsBits
  <2>4. pref'["loud"] = pref["loud"]
    BY <1>1, <2>2, CommitDoes
  <2>5. LoudFollows(pref) => LoudFollows(pref)'
    BY <2>3, <2>4 DEF LoudFollows
  <2>6. "loud" \notin Covers(busy)'
    BY <1>3, CommitSettles
  <2>7. "loud" \notin (torn \cup Covers(busy))' => LoudFollows(pref)
    BY <1>3, CommitSettles DEF OwedInv
  <2> QED BY <2>2, <2>3, <2>5, <2>6, <2>7 DEF LoudOwed
<1> QED BY <1>2, <1>3

LEMMA CommitGain ==
  ASSUME IInv, OwedInv, Commit
  PROVE  /\ "gain" \notin (torn \cup Covers(busy))' => GainFollows(pref)'
         /\ GainOwed(busy, todo)'
<1>1. Words \subseteq Keys /\ "gain" \in Keys
  BY KeysOfSettings
<1>2. CASE "gain" \in Covers(busy)
  <2>1. GainFollows(Stored(todo, pref))
    BY <1>2 DEF OwedInv, GainOwed
  <2>2. GainFollows(Stored(todo', pref'))
    BY <1>1, <2>1, CommitStores DEF GainFollows
  <2>3. todo' = <<>> => GainFollows(pref')
    BY <1>1, <2>2, CommitStores DEF GainFollows
  <2>4. GainFollows(pref)' <=> GainFollows(pref')
    BY DEF GainFollows
  <2>5. CASE todo' = <<>>
    BY <2>2, <2>3, <2>4, <2>5 DEF GainOwed, Skips, KeepsBit
  <2>6. CASE todo' # <<>>
    <3>1. busy' = busy /\ torn' = torn
      BY <2>6, CommitDoes
    <3> QED BY <1>2, <2>2, <3>1 DEF GainOwed
  <2> QED BY <2>5, <2>6
<1>3. CASE "gain" \notin Covers(busy)
  <2>1. Skips(todo, {"gain"}) /\ KeepsBit(todo, 3) /\ KeepsBit(todo, 4)
    BY <1>3 DEF OwedInv, GainOwed
  <2>2. Head(todo)[1] # "gain" /\ Skips(todo', {"gain"})
    BY <2>1, CommitSkips
  <2>3. /\ \A w \in Words : Bit(pref'[w], 3) = Bit(pref[w], 3)
        /\ \A w \in Words : Bit(pref'[w], 4) = Bit(pref[w], 4)
        /\ KeepsBit(todo, 3)' /\ KeepsBit(todo, 4)'
    BY <2>1, CommitKeepsBits
  <2>4. pref'["gain"] = pref["gain"]
    BY <1>1, <2>2, CommitDoes
  <2>5. GainFollows(pref) => GainFollows(pref)'
    BY <2>3, <2>4 DEF GainFollows
  <2>6. "gain" \notin Covers(busy)'
    BY <1>3, CommitSettles
  <2>7. "gain" \notin (torn \cup Covers(busy))' => GainFollows(pref)
    BY <1>3, CommitSettles DEF OwedInv
  <2> QED BY <2>2, <2>3, <2>5, <2>6, <2>7 DEF GainOwed
<1> QED BY <1>2, <1>3

LEMMA CommitPlace ==
  ASSUME IInv, OwedInv, Commit
  PROVE  /\ "balance" \notin (torn \cup Covers(busy))' => NearIsLouder(pref)'
         /\ PlaceOwed(busy, todo)'
<1>1. /\ "x" \in Keys /\ "y" \in Keys /\ "lf" \in Keys /\ "rf" \in Keys
      /\ "lr" \in Keys /\ "rr" \in Keys
  BY DEF Keys, Speakers
<1>2. CASE "balance" \in Covers(busy)
  <2>1. NearIsLouder(Stored(todo, pref))
    BY <1>2 DEF OwedInv, PlaceOwed
  <2>2. NearIsLouder(Stored(todo', pref'))
    BY <1>1, <2>1, CommitStores DEF NearIsLouder
  <2>3. todo' = <<>> => NearIsLouder(pref')
    BY <1>1, <2>2, CommitStores DEF NearIsLouder
  <2>4. NearIsLouder(pref)' <=> NearIsLouder(pref')
    BY DEF NearIsLouder
  <2>5. CASE todo' = <<>>
    BY <2>2, <2>3, <2>4, <2>5 DEF PlaceOwed, Skips
  <2>6. CASE todo' # <<>>
    <3>1. busy' = busy /\ torn' = torn
      BY <2>6, CommitDoes
    <3> QED BY <1>2, <2>2, <3>1 DEF PlaceOwed
  <2> QED BY <2>5, <2>6
<1>3. CASE "balance" \notin Covers(busy)
  <2>1. Skips(todo, Speakers \cup {"x", "y"})
    BY <1>3 DEF OwedInv, PlaceOwed
  <2>2. Head(todo)[1] \notin Speakers \cup {"x", "y"} /\ Skips(todo', Speakers \cup {"x", "y"})
    BY <2>1, CommitSkips
  <2>3. \A k \in Speakers \cup {"x", "y"} : pref'[k] = pref[k]
    BY <2>2, CommitDoes, KeysOfSettings
  <2>4. NearIsLouder(pref) => NearIsLouder(pref)'
    BY <2>3 DEF NearIsLouder, Speakers
  <2>5. "balance" \notin Covers(busy)'
    BY <1>3, CommitSettles
  <2>6. "balance" \notin (torn \cup Covers(busy))' => NearIsLouder(pref)
    BY <1>3, CommitSettles DEF OwedInv
  <2> QED BY <2>2, <2>4, <2>5, <2>6 DEF PlaceOwed
<1> QED BY <1>2, <1>3

LEMMA CommitFrame ==
  ASSUME IInv, OwedInv, Commit
  PROVE  /\ (torn \cup Covers(busy))' \cap Tellers = {} => Told'
         /\ FrameOwed(busy, todo)'
<1>1. FrameKeys \subseteq Keys
  BY DEF FrameKeys, Keys
<1>2. ASSUME Head(todo)[1] \notin FrameKeys, Head(todo) # Send, Told
      PROVE  Told'
  <2>1. \A k \in FrameKeys : pref'[k] = pref[k]
    BY <1>1, <1>2, CommitDoes
  <2>2. frame' = frame
    BY <1>2 DEF Commit, sending
  <2>3. GetAudioValues(pref', Null) = GetAudioValues(pref, Null)
    BY <2>1 DEF GetAudioValues, FrameKeys, Speakers
  <2> QED BY <1>2, <2>1, <2>2, <2>3 DEF Told, Tells, FrameKeys
<1>3. ASSUME Head(todo) = Send
      PROVE  Told'
  <2>1. frame' = GetAudioValues(pref, base["settings"]) /\ pref' = pref
    BY <1>3 DEF Commit, SendFrame
  <2> QED BY <2>1, SendingTells DEF IInv, SentOK, PrefOK
<1>4. CASE Covers(busy) \cap Tellers = {}
  <2>1. Skips(todo, FrameKeys \cup {"frame"})
    BY <1>4 DEF OwedInv, FrameOwed
  <2>2. Head(todo)[1] \notin FrameKeys \cup {"frame"} /\ Skips(todo', FrameKeys \cup {"frame"})
    BY <2>1, CommitSkips
  <2>3. Covers(busy)' \cap Tellers = {}
    BY <1>4, CommitSettles DEF Tellers
  <2>4. (torn \cup Covers(busy))' \cap Tellers = {} => Told
    BY <1>4, CommitSettles DEF OwedInv, Tellers
  <2>5. Head(todo) # Send
    BY <2>2 DEF Send
  <2> QED BY <1>2, <2>2, <2>3, <2>4, <2>5 DEF FrameOwed
<1>5. CASE Covers(busy) \cap Tellers # {}
  <2>1. SendsLast(todo') \/ (Told' /\ Skips(todo', FrameKeys))
    <3>1. CASE SendsLast(todo)
      <4>1. EndsWith(Tail(todo), Send, FrameKeys) \/ (Head(todo) = Send /\ Skips(Tail(todo), FrameKeys))
        BY <3>1, CommitDoes, EndsTail DEF SendsLast
      <4> QED BY <1>3, <4>1, CommitDoes DEF SendsLast
    <3>2. CASE Told /\ Skips(todo, FrameKeys)
      BY <1>2, <1>3, <3>2, CommitSkips
    <3> QED BY <1>5, <3>1, <3>2 DEF OwedInv, FrameOwed
  <2>2. CASE todo' = <<>>
    <3>1. ~SendsLast(todo')
      BY <2>2 DEF SendsLast, EndsWith
    <3>2. Covers(busy)' \cap Tellers = {}
      BY <2>2, CommitDoes DEF Covers, Tellers
    <3> QED BY <2>1, <2>2, <3>1, <3>2 DEF FrameOwed, Skips
  <2>3. CASE todo' # <<>>
    <3>1. busy' = busy /\ torn' = torn
      BY <2>3, CommitDoes
    <3> QED BY <1>5, <2>1, <3>1 DEF FrameOwed, SendsLast, EndsWith
  <2> QED BY <2>2, <2>3
<1> QED BY <1>4, <1>5

-----------------------------------------------------------------------------
(* A new settings screen starts the handler of a loudness that is on.      *)
LEMMA SettingsOpensOwes ==
  ASSUME IInv, OwedInv, SettingsOpens
  PROVE  OwedInv'
<1>1. CASE pref["loud"] = 1
  <2>1. Starts("loud", LoudState(pref, 1))
    BY <1>1 DEF SettingsOpens
  <2> QED BY <2>1, LoudOwes, StartsOwes DEF Handlers
<1>2. CASE pref["loud"] # 1
  <2>1. Starts("none", <<>>)
    BY <1>2 DEF SettingsOpens
  <2> QED BY <2>1, NothingOwed, StartsOwes DEF Handlers
<1> QED BY <1>1, <1>2

(* A gesture starts a handler.                                             *)
LEMMA HandlesOwes ==
  ASSUME OwedInv, NEW g, NEW h \in Handlers, NEW list, Handles(g, h, list), Owes(h, list)
  PROVE  OwedInv'
BY StartsOwes DEF Handles

(* Every step keeps what is owed: one case for each action.                *)
LEMMA NextOwes == IInv /\ OwedInv /\ [Next]_vars => OwedInv'
<1> SUFFICES ASSUME IInv, OwedInv, [Next]_vars
             PROVE  OwedInv'
  OBVIOUS
<1>1. CASE SettingsOpens
  BY <1>1, SettingsOpensOwes
<1>2. CASE Loudness
  <2>1. PICK state \in {0, 1} : Handles("loudness", "loud", LoudState(pref, state))
    BY <1>2 DEF Loudness
  <2> QED BY <2>1, LoudOwes, HandlesOwes DEF Handlers
<1>3. CASE Gain
  <2>1. PICK value \in Gains : Handles("gain", "gain", SetGainValue(pref, value))
    BY <1>3 DEF Gain
  <2>2. Owes("gain", SetGainValue(pref, value))
    BY GainOwes, SoundModuleAssumption DEF SoundModuleAssumption
  <2> QED BY <2>1, <2>2, HandlesOwes DEF Handlers
<1>4. CASE Bass
  <2>1. PICK value \in Tones : Handles("bass", "bass", <<<<"bass", value>>, Send>>)
    BY <1>4 DEF Bass
  <2>2. <<"bass", value>> \in Commits
    BY SoundModuleAssumption DEF Commits, SoundModuleAssumption
  <2> QED BY <2>1, <2>2, ToneOwes, HandlesOwes DEF Handlers
<1>5. CASE Treble
  <2>1. PICK value \in Tones : Handles("treble", "treble", <<<<"treble", value>>, Send>>)
    BY <1>5 DEF Treble
  <2>2. <<"treble", value>> \in Commits
    BY SoundModuleAssumption DEF Commits, SoundModuleAssumption
  <2> QED BY <2>1, <2>2, ToneOwes, HandlesOwes DEF Handlers
<1>6. CASE Balance
  <2>1. PICK spot \in Spots :
          Handles("balance", "balance",
                  CalculateBalanceData(spot) \o SetXYcordinates(spot))
    BY <1>6 DEF Balance
  <2>2. spot \in Area
    BY SoundModuleAssumption DEF SoundModuleAssumption
  <2> QED BY <2>1, <2>2, BalanceOwes, HandlesOwes DEF Handlers
<1>7. CASE Arrow
  <2>1. PICK spot \in Area :
          Handles("arrow", "balance",
                  CalculateBalanceData(spot) \o SetXYcordinates(spot))
    BY <1>7 DEF Arrow
  <2> QED BY <2>1, BalanceOwes, HandlesOwes DEF Handlers
<1>8. CASE BalanceReset
  BY <1>8, CentreOwes, HandlesOwes DEF BalanceReset, Handlers
<1>9. CASE Reset
  BY <1>9, ResetOwes, HandlesOwes DEF Reset, Handlers
<1>10. CASE Commit
  BY <1>10, CommitLoud, CommitGain, CommitFrame, CommitPlace DEF OwedInv
<1>11. CASE HomeResumes
  BY <1>11, HomeResumesOwes
<1>12. CASE Killed
  BY <1>12, KilledOwes DEF IInv, TodoOK
<1>13. CASE FrameArrives \/ UNCHANGED vars
  <2> USE <1>13 DEF FrameArrives, vars
  <2>1. /\ LoudFollows(pref)' <=> LoudFollows(pref)
        /\ GainFollows(pref)' <=> GainFollows(pref)
        /\ NearIsLouder(pref)' <=> NearIsLouder(pref)
        /\ Told' <=> Told
    BY DEF LoudFollows, GainFollows, NearIsLouder, Told, Tells
  <2>2. LoudOwed(busy, todo)' <=> LoudOwed(busy, todo)
    BY DEF LoudOwed, KeepsBit
  <2>3. GainOwed(busy, todo)' <=> GainOwed(busy, todo)
    BY DEF GainOwed, KeepsBit
  <2>4. FrameOwed(busy, todo)' <=> FrameOwed(busy, todo)
    BY <2>1 DEF FrameOwed
  <2>5. PlaceOwed(busy, todo)' <=> PlaceOwed(busy, todo)
    BY DEF PlaceOwed
  <2> QED BY <2>1, <2>2, <2>3, <2>4, <2>5 DEF OwedInv
<1> QED BY <1>1, <1>2, <1>3, <1>4, <1>5, <1>6, <1>7, <1>8, <1>9, <1>10,
           <1>11, <1>12, <1>13 DEF Next

(* The last frame goes on being the last to come, unless it is overtaken   *)
(* or lost.                                                                *)
LEMMA NextComesLast == IInv /\ LastComesLast /\ [Next]_vars => LastComesLast'
<1> SUFFICES ASSUME IInv, LastComesLast, [Next]_vars
             PROVE  LastComesLast'
  OBVIOUS
<1>1. CASE HomeResumes
  <2>1. PICK old \in {base["home"], Null} : SendFrame("home", old)
    BY <1>1 DEF HomeResumes
  <2>2. old \in Fields /\ "home" \in Screens
    BY DEF IInv, SentOK, Null, Fields, Screens
  <2> QED BY <2>1, <2>2, SendFrameOK DEF IInv
<1>2. CASE Commit
  <2>1. CASE Head(todo) = Send
    <3>1. base["settings"] \in Fields /\ "settings" \in Screens
      BY DEF IInv, SentOK, Screens
    <3> QED BY <1>2, <2>1, <3>1, SendFrameOK DEF Commit, IInv
  <2>2. CASE Head(todo) # Send
    BY <1>2, <2>2 DEF Commit, sending, LastComesLast
  <2> QED BY <2>1, <2>2
<1>3. CASE FrameArrives
  <2>1. posts \in Seq(Posts) /\ posts # <<>> /\ posts' = Tail(posts)
    BY <1>3 DEF FrameArrives, IInv, SentOK
  <2>2. CASE Len(posts) = 1
    <3>1. posts' = <<>> /\ posts[Len(posts)] = Head(posts)
      BY <2>1, <2>2
    <3> QED BY <1>3, <2>1, <3>1 DEF FrameArrives, LastComesLast
  <2>3. CASE Len(posts) # 1
    <3>1. posts' # <<>> /\ posts'[Len(posts')] = posts[Len(posts)]
      <4> DEFINE n == Len(posts)
      <4>1. n \in Nat /\ n > 1
        <5>1. posts \in Seq(Posts) /\ posts # <<>> /\ Len(posts) # 1
          BY <2>1, <2>3
        <5> QED BY ONLY <5>1
      <4>2. Len(posts') = n - 1 /\ posts'[n - 1] = posts[n]
        BY <2>1, <4>1
      <4> HIDE DEF n
      <4>3. posts' # <<>> /\ posts'[Len(posts')] = posts[n]
        BY <4>1, <4>2
      <4> QED BY <4>3 DEF n
    <3> QED BY <1>3, <2>1, <3>1 DEF FrameArrives, LastComesLast
  <2> QED BY <2>2, <2>3
<1>4. CASE Killed
  BY <1>4 DEF Killed, LastComesLast
<1>5. CASE UNCHANGED sending
  BY <1>5 DEF sending, LastComesLast
<1>6. Starts("none", <<>>) => UNCHANGED sending
  BY DEF Starts
<1> QED BY <1>1, <1>2, <1>3, <1>4, <1>5
        DEF Next, SettingsOpens, Loudness, Gain, Bass, Treble, Balance, Arrow, BalanceReset, Reset,
            Handles, Starts, vars, sending

(* Whatever is set, and wherever a handler dies, each setting is right or  *)
(* torn, and a handler that runs owes what makes it right; the frame that  *)
(* was built last is the last one to reach the sound module, unless it is  *)
(* overtaken by an older one or lost with the process (AudioValues,        *)
(* SettingsActivity).                                                      *)
THEOREM OwedIsKept == Spec => [](OwedInv /\ LastComesLast)
<1>1. Init => OwedInv /\ LastComesLast
  BY InitOwes DEF Init, LastComesLast
<1> QED BY <1>1, NextOwes, NextComesLast, Invariance, PTL DEF Spec

LEMMA OwedSuffices == OwedInv /\ LastComesLast => SettingsReachModule
<1> SUFFICES ASSUME OwedInv, LastComesLast
             PROVE  SettingsReachModule
  OBVIOUS
<1>1. Covers("none") = {"none"}
  BY DEF Covers
<1>2. WordsFollowSettings
  BY <1>1 DEF OwedInv, WordsFollowSettings
<1>3. StoredIsSent
  <2>1. SUFFICES ASSUME busy = "none", posts = <<>>, ~behind, torn \cap Tellers = {}
                 PROVE  Tells(heard)
    BY DEF StoredIsSent
  <2>2. Told
    BY <1>1, <2>1 DEF OwedInv, Tellers
  <2>3. frame = heard
    BY <2>1 DEF LastComesLast
  <2> QED BY <2>2, <2>3 DEF Told
<1>4. NearSpeakersAreLouder
  BY <1>1 DEF OwedInv, NearSpeakersAreLouder
<1> QED BY <1>2, <1>3, <1>4 DEF SettingsReachModule

(* Between handlers the words agree with loudness and gain, the sound      *)
(* module has heard the audio values once all posted frames have arrived,  *)
(* unless the last was lost or overtaken, and the speakers near the        *)
(* picture are the louder ones, for all tones, gains, spots, delays and    *)
(* deaths (AudioValues, SettingsActivity).                                 *)
THEOREM SettingsReach == Spec => []SettingsReachModule
BY OwedSuffices, OwedIsKept, PTL

=============================================================================
