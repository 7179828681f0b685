----------------------------- MODULE AudioSource -----------------------------
(***************************************************************************)
(* Which channel of the sound module is heard: the head unit, the radio or *)
(* the AUX input.                                                          *)
(*                                                                         *)
(* Four screens choose it in their life-cycle callbacks and the service in *)
(* its periodic audio check; all share preferences that survive the        *)
(* process.  Everything runs on the main looper, a callback at a time, but *)
(* commands are posted with delays of up to 1.5 s, and the system stops    *)
(* and destroys a screen some time after it was left.                      *)
(*                                                                         *)
(* Screens without a say in the channel (home, settings, other programs)   *)
(* are one place, "elsewhere": no screen of this module is resumed there.  *)
(***************************************************************************)
EXTENDS Integers, Sequences

CONSTANTS
  Opened,       \* the screens the user opens
  Patient,      \* does he wait until all commands of the last move arrived?
  Unit,         \* milliseconds of one step of the clock
  MaxPending,   \* bound: posted commands beyond which nothing new is begun
  MaxRestarts   \* bound: how often the process is killed in a behaviour

Screens == {"radio", "aux", "tv", "media"}
Channels == {"android", "radio", "aux"}

VARIABLES
  (* preferences *)
  radioIsRun, auxAudioIsActive, headUnitAudioIsActive, bluetoothPlayerState,
  (* statics of the two activities: the screen is in front *)
  radioSoundChannel, auxSoundChannel,
  life,           \* of each screen
  finishing,      \* it was left for good: onDestroy is owed
  pending,        \* posted commands: the channel and the time left
  (* outside the process *)
  channel,        \* of the sound module
  music,          \* the player of the head unit plays
  (* history *)
  checked,        \* the audio check met this music, nothing moved since
  orphaned,       \* the process died with a channel taken
  crossed,        \* what was begun while an earlier screen had its last
                  \* callbacks or commands to come
  restarts

prefs == <<radioIsRun, auxAudioIsActive, headUnitAudioIsActive,
           bluetoothPlayerState>>
flags == <<radioSoundChannel, auxSoundChannel>>
stack == <<life, finishing>>
history == <<checked, orphaned, crossed, restarts>>
vars == <<prefs, flags, stack, pending, channel, music, history>>

(* A delay in steps of the clock, rounded up. *)
Steps(ms) == (ms + Unit - 1) \div Unit
Longest == Steps(1500)

(* What each variable holds.                                               *)
TypeOK ==
  /\ radioIsRun \in BOOLEAN /\ auxAudioIsActive \in BOOLEAN
  /\ headUnitAudioIsActive \in BOOLEAN /\ bluetoothPlayerState \in BOOLEAN
  /\ radioSoundChannel \in BOOLEAN /\ auxSoundChannel \in BOOLEAN
  /\ life \in [Screens -> {"none", "resumed", "paused", "stopped"}]
  /\ finishing \in [Screens -> BOOLEAN]
  /\ pending \in Seq([channel : Channels, wait : 0..Longest])
  /\ channel \in Channels
  /\ music \in BOOLEAN
  /\ checked \in BOOLEAN /\ orphaned \in BOOLEAN
  /\ crossed \subseteq {"front", "closing"}
  /\ restarts \in 0..MaxRestarts

(* After Receiver.onReceive has handled the boot of the board. *)
Init ==
  /\ radioIsRun = FALSE /\ auxAudioIsActive = FALSE
  /\ headUnitAudioIsActive = TRUE /\ bluetoothPlayerState \in BOOLEAN
  /\ radioSoundChannel = TRUE /\ auxSoundChannel = TRUE
  /\ life = [s \in Screens |-> "none"]
  /\ finishing = [s \in Screens |-> FALSE]
  /\ pending = <<>>
  /\ channel = "android"
  /\ music = FALSE
  /\ checked = FALSE /\ orphaned = FALSE /\ crossed = {}
  /\ restarts = 0

-----------------------------------------------------------------------------
(* The clock and the looper.                                               *)

Post(c, ms) == <<[channel |-> c, wait |-> Steps(ms)]>>

Due == {i \in DOMAIN pending : pending[i].wait = 0}

TimePasses ==
  /\ pending # <<>> /\ Due = {}
  /\ pending' = [i \in DOMAIN pending |->
                   [pending[i] EXCEPT !.wait = @ - 1]]
  /\ UNCHANGED <<prefs, flags, stack, channel, music, history>>

(* Of the commands that are due, the one posted first arrives. *)
CommandArrives ==
  \E i \in Due :
    /\ \A j \in Due : i <= j
    /\ channel' = pending[i].channel
    /\ pending' = SubSeq(pending, 1, i - 1)
                    \o SubSeq(pending, i + 1, Len(pending))
    /\ UNCHANGED <<prefs, flags, stack, music, history>>

-----------------------------------------------------------------------------
(* The life cycle of a screen, as the system drives it.                    *)

NobodyResumed == \A s \in Screens : life[s] # "resumed"
Quiet ==
  /\ pending = <<>>
  /\ \A s \in Screens : life[s] # "paused" /\ ~finishing[s]

(* A user who waits sees the commands arrive, not the callbacks of the     *)
(* screens he left.                                                        *)
UserMoves == Len(pending) <= MaxPending /\ (Patient => pending = <<>>)

(* The next screen is resumed before the last one is stopped and, if it    *)
(* was left for good, destroyed; its commands of onPause may still be on   *)
(* their way (those of the TV screen are).                                 *)
Takers == {"radio", "aux", "tv"}
Owes(s) == life[s] = "paused" \/ finishing[s]

Resumes(s) ==
  /\ UserMoves \/ (life["tv"] = "paused" /\ Len(pending) <= MaxPending)
  /\ s \in Opened
  /\ NobodyResumed
  /\ ~finishing[s]
  /\ life' = [life EXCEPT ![s] = "resumed"]
  /\ checked' = FALSE
  /\ crossed' = IF s \notin Takers THEN crossed
                ELSE IF \E other \in Takers \ {s} : Owes(other) THEN {"front"} ELSE {}
  /\ UNCHANGED <<finishing, restarts>>

(* The screen is covered by another one, or left for good. *)
Pauses(s, forGood) ==
  /\ UserMoves
  /\ life[s] = "resumed"
  /\ life' = [life EXCEPT ![s] = "paused"]
  /\ finishing' = [finishing EXCEPT ![s] = forGood]
  /\ checked' = FALSE
  /\ UNCHANGED <<crossed, restarts>>

Stops(s) ==
  /\ life[s] = "paused"
  /\ life' = [life EXCEPT ![s] = "stopped"]
  /\ UNCHANGED <<finishing, history>>

IsDestroyed(s) ==
  /\ life[s] = "stopped" /\ finishing[s]
  /\ life' = [life EXCEPT ![s] = "none"]
  /\ finishing' = [finishing EXCEPT ![s] = FALSE]
  /\ UNCHANGED <<checked, crossed, restarts>>

-----------------------------------------------------------------------------
(* RadioActivity.                                                          *)

RadioIsCreated == IF life["radio"] = "none" THEN Post("radio", 0) ELSE <<>>

RadioResumes ==
  /\ Resumes("radio")
  /\ radioIsRun' = TRUE /\ headUnitAudioIsActive' = FALSE
  /\ radioSoundChannel' = TRUE
  /\ music' = FALSE
  /\ channel' = IF life["radio"] = "paused" THEN channel ELSE "radio"
  /\ pending' = pending \o RadioIsCreated \o Post("radio", 1500)
  /\ UNCHANGED <<auxAudioIsActive, bluetoothPlayerState, auxSoundChannel,
                 orphaned>>

(* The back key clears the preference, the menu does not. *)
RadioPauses(how) ==
  /\ Pauses("radio", how # "covered")
  /\ radioSoundChannel' = FALSE
  /\ radioIsRun' = (radioIsRun /\ how # "back")
  /\ UNCHANGED <<auxAudioIsActive, headUnitAudioIsActive, bluetoothPlayerState,
                 auxSoundChannel, pending, channel, music, orphaned>>

RadioStops ==
  /\ Stops("radio")
  /\ radioIsRun' = TRUE
  /\ UNCHANGED <<auxAudioIsActive, headUnitAudioIsActive, bluetoothPlayerState,
                 flags, pending, channel, music>>

(* Mutant: the channel stays with a radio that is closed. *)
RadioIsDestroyedSilently ==
  /\ IsDestroyed("radio")
  /\ radioIsRun' = FALSE
  /\ UNCHANGED <<auxAudioIsActive, headUnitAudioIsActive, bluetoothPlayerState,
                 flags, pending, channel, music, orphaned>>

RadioIsDestroyed ==
  /\ IsDestroyed("radio")
  /\ radioIsRun' = FALSE
  /\ pending' = pending \o Post("android", 300)
  /\ UNCHANGED <<auxAudioIsActive, headUnitAudioIsActive, bluetoothPlayerState,
                 flags, channel, music, orphaned>>

(* checkVoiceChannel, whenever the seek bar of the frequency moves. *)
RadioTunes ==
  /\ UserMoves
  /\ life["radio"] = "resumed"
  /\ headUnitAudioIsActive \/ bluetoothPlayerState
  /\ music' = (music /\ ~headUnitAudioIsActive)
  /\ pending' = pending \o Post("radio", 10)
  /\ bluetoothPlayerState' = FALSE /\ headUnitAudioIsActive' = FALSE
  /\ checked' = FALSE
  /\ UNCHANGED <<radioIsRun, auxAudioIsActive, flags, stack, channel, orphaned,
                 crossed, restarts>>

-----------------------------------------------------------------------------
(* AUXActivity, with the button of the home screen that opens it.          *)

TakeAux ==
  /\ auxAudioIsActive' = TRUE /\ headUnitAudioIsActive' = FALSE
  /\ radioIsRun' = FALSE

GiveBack ==
  /\ auxAudioIsActive' = FALSE /\ headUnitAudioIsActive' = TRUE
  /\ radioIsRun' = FALSE
  /\ orphaned' = FALSE

AuxResumes ==
  /\ Resumes("aux")
  /\ TakeAux
  /\ auxSoundChannel' = TRUE
  /\ channel' = "aux"
  /\ music' = FALSE
  /\ UNCHANGED <<bluetoothPlayerState, radioSoundChannel, pending, orphaned>>

AuxPauses(forGood) ==
  /\ Pauses("aux", forGood)
  /\ auxSoundChannel' = FALSE
  /\ UNCHANGED <<prefs, radioSoundChannel, pending, channel, music, orphaned>>

AuxStops ==
  /\ Stops("aux")
  /\ UNCHANGED <<prefs, flags, pending, channel, music>>

AuxIsDestroyed ==
  /\ IsDestroyed("aux")
  /\ GiveBack
  /\ channel' = "android"
  /\ UNCHANGED <<bluetoothPlayerState, flags, pending, music>>

-----------------------------------------------------------------------------
(* TvChannelActivity, with the button of the home screen that opens it.    *)

SetToAV == Post("aux", 100) \o Post("aux", 500)

SetToHeadUnit ==
  /\ GiveBack
  /\ channel' = "android"
  /\ pending' = pending \o Post("android", 200) \o Post("android", 500)

TvResumes ==
  /\ Resumes("tv")
  /\ TakeAux
  /\ music' = FALSE
  /\ pending' = pending
       \o (IF life["tv"] = "none" THEN Post("aux", 100) ELSE <<>>)
       \o (IF life["tv"] = "paused" THEN <<>> ELSE SetToAV)
       \o SetToAV
  /\ UNCHANGED <<bluetoothPlayerState, flags, channel, orphaned>>

TvPauses(forGood) ==
  /\ Pauses("tv", forGood)
  /\ SetToHeadUnit
  /\ UNCHANGED <<bluetoothPlayerState, flags, music>>

TvStops ==
  /\ Stops("tv")
  /\ UNCHANGED <<prefs, flags, pending, channel, music>>

TvIsDestroyed ==
  /\ IsDestroyed("tv")
  /\ SetToHeadUnit
  /\ UNCHANGED <<bluetoothPlayerState, flags, music>>

-----------------------------------------------------------------------------
(* MediaFragment of the Bluetooth screen: it takes the channel only from a *)
(* radio that runs.                                                        *)

RidOfRadio ==
  /\ radioIsRun' = FALSE
  /\ channel' = IF radioIsRun THEN "android" ELSE channel

MediaIsCreated ==
  IF life["media"] = "none"
    THEN headUnitAudioIsActive' = FALSE /\ music' = FALSE
    ELSE UNCHANGED <<headUnitAudioIsActive, music>>

MediaResumes ==
  /\ Resumes("media")
  /\ bluetoothPlayerState' = TRUE
  /\ RidOfRadio
  /\ MediaIsCreated
  /\ UNCHANGED <<auxAudioIsActive, flags, pending, orphaned>>

MediaPauses(forGood) ==
  /\ Pauses("media", forGood)
  /\ UNCHANGED <<prefs, flags, pending, channel, music, orphaned>>

MediaStops ==
  /\ Stops("media")
  /\ UNCHANGED <<prefs, flags, pending, channel, music>>

MediaIsDestroyed ==
  /\ IsDestroyed("media")
  /\ bluetoothPlayerState' = FALSE
  /\ UNCHANGED <<radioIsRun, auxAudioIsActive, headUnitAudioIsActive, flags,
                 pending, channel, music, orphaned>>

-----------------------------------------------------------------------------
(* SettingsActivity.setSound, from elsewhere: the channel that the         *)
(* preferences name is sent with the new settings.                         *)
SettingsSound ==
  /\ UserMoves
  /\ NobodyResumed
  /\ pending' = pending \o
       Post(IF auxAudioIsActive THEN "aux"
            ELSE IF radioIsRun THEN "radio" ELSE "android", 100)
  /\ checked' = FALSE
  /\ crossed' = crossed \cup (IF auxAudioIsActive /\ finishing["aux"] THEN {"closing"} ELSE {})
  /\ UNCHANGED <<prefs, flags, stack, channel, music, orphaned,
                 restarts>>

(* The player is another program: music starts and stops by itself too. *)
MusicChanges ==
  /\ music' = ~music
  /\ checked' = FALSE
  /\ UNCHANGED <<prefs, flags, stack, pending, channel, orphaned, crossed, restarts>>

(* The rules of the check, in their order; the first excludes the second. *)
FromRadio == ~headUnitAudioIsActive /\ radioIsRun /\ ~radioSoundChannel

FromAux ==
  ~headUnitAudioIsActive /\ auxAudioIsActive /\ ~auxSoundChannel /\ ~FromRadio

(* UsbService.checkAudioManager (the amplifier aside). *)
AudioCheck ==
  /\ Len(pending) <= MaxPending
  /\ headUnitAudioIsActive' = music
  /\ radioIsRun' = (radioIsRun /\ ~(music /\ FromRadio))
  /\ auxAudioIsActive' = (auxAudioIsActive /\ ~(music /\ FromAux))
  /\ pending' = pending \o
       (IF music /\ FromRadio THEN Post("android", 250)
        ELSE IF music /\ FromAux THEN Post("android", 150) ELSE <<>>)
  /\ checked' = music
  /\ UNCHANGED <<bluetoothPlayerState, flags, stack, channel, music,
                 orphaned, crossed, restarts>>

(* The process dies; preferences, player and sound module do not. *)
Killed ==
  /\ restarts < MaxRestarts
  /\ restarts' = restarts + 1
  /\ radioSoundChannel' = TRUE /\ auxSoundChannel' = TRUE
  /\ life' = [s \in Screens |-> "none"]
  /\ finishing' = [s \in Screens |-> FALSE]
  /\ pending' = <<>>
  /\ orphaned' = (orphaned \/ channel # "android" \/ auxAudioIsActive
                    \/ radioIsRun)
  /\ checked' = FALSE /\ crossed' = {}
  /\ UNCHANGED <<prefs, channel, music>>

-----------------------------------------------------------------------------
Radio ==
  \/ RadioResumes \/ RadioStops \/ RadioIsDestroyed \/ RadioTunes
  \/ \E how \in {"covered", "menu", "back"} : RadioPauses(how)

Aux ==
  \/ AuxResumes \/ AuxStops \/ AuxIsDestroyed
  \/ \E forGood \in BOOLEAN : AuxPauses(forGood)

Tv ==
  \/ TvResumes \/ TvStops \/ TvIsDestroyed
  \/ \E forGood \in BOOLEAN : TvPauses(forGood)

Media ==
  \/ MediaResumes \/ MediaStops \/ MediaIsDestroyed
  \/ \E forGood \in BOOLEAN : MediaPauses(forGood)

Next ==
  \/ Radio \/ Aux \/ Tv \/ Media
  \/ SettingsSound \/ AudioCheck
  \/ MusicChanges
  \/ TimePasses \/ CommandArrives
  \/ Killed

Spec == Init /\ [][Next]_vars

-----------------------------------------------------------------------------
(* Once all commands and callbacks have come, a screen in front has the    *)
(* channel it asked for: neither the other screens' late callbacks and     *)
(* commands nor the checks have taken it away.  From the radio to the      *)
(* Bluetooth screen and back that holds though the next screen is resumed  *)
(* before the last one is stopped and destroyed.  What the code does not   *)
(* give is excluded: the radio, AUX and TV take the channel from one       *)
(* another when the late callbacks of one come after the other is in front *)
(* ("front"), until one of them is resumed without that; with an AUX       *)
(* screen left beneath (or lost with the process) its stale preference     *)
(* costs the radio its channel; the TV screen has no flag, so a check may  *)
(* take its channel, but not without the preference of AUX; the Bluetooth  *)
(* screen only rids itself of a radio.                                     *)
ScreenHasItsChannel ==
  Quiet =>
    /\ life["radio"] = "resumed" /\ life["aux"] = "none" /\ ~orphaned /\ "front" \notin crossed
         => channel = "radio"
    /\ life["aux"] = "resumed" /\ "front" \notin crossed => channel = "aux"
    /\ life["tv"] = "resumed" /\ auxAudioIsActive /\ "front" \notin crossed => channel = "aux"
    /\ life["media"] = "resumed" /\ ~orphaned /\ "front" \notin crossed => channel # "radio"

(* When every screen has been closed and all commands have arrived, the    *)
(* head unit is heard again, in whatever order closing callbacks, those of *)
(* the next screen, delayed commands and checks ran; unless the process    *)
(* died with a channel taken, or the settings sent the command of an AUX   *)
(* screen that was being closed ("closing").                               *)
ClosedMeansHeadUnit ==
  Quiet /\ ~orphaned /\ "closing" \notin crossed /\ (\A s \in Screens : life[s] = "none")
    => channel = "android"

(* What the comment of checkAudioManager says: when music plays on the     *)
(* head unit, the check changes the sound channel to the head unit.  Not   *)
(* claimed while a screen with a channel of its own is in front.           *)
MusicGetsTheChannel ==
  checked /\ Quiet /\ NobodyResumed => channel = "android"

=============================================================================
