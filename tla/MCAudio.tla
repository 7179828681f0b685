------------------------------ MODULE MCAudio -------------------------------
(***************************************************************************)
(* The settings of the sound module and the choice of its channel for TLC. *)
(* The settings are taken apart by what the user changes, for all of them  *)
(* together are too many. A behaviour belongs to one component: to the     *)
(* words of the settings, which are kept in the variables of SoundModule,  *)
(* or to the tones, to the balance, to the four screens that take the      *)
(* channel (three parts), or to the TV screen of a user in a hurry, which  *)
(* are kept in the registers.                                              *)
(***************************************************************************)
EXTENDS SoundModuleProofs, FiniteSets

CONSTANT Components  \* the parts of the run

VARIABLES
  component,  \* whose behaviour this is
  r1, r2, r3, r4, r5, r6, r7, r8, r9, r10, r11, r12, r13, r14, r15

registers == <<r1, r2, r3, r4, r5, r6, r7, r8, r9, r10, r11, r12, r13, r14, r15>>
allVars == <<component, registers, vars>>

(* A component that needs fewer registers leaves the last ones alone.      *)
Free15 == r15 = "free"
Free14 == r14 = "free" /\ Free15
Free13 == r13 = "free" /\ Free14
Free12 == r12 = "free" /\ Free13
Free11 == r11 = "free" /\ Free12
Free10 == r10 = "free" /\ Free11
Free9 == r9 = "free" /\ Free10
Free8 == r8 = "free" /\ Free9
Free7 == r7 = "free" /\ Free8
Free6 == r6 = "free" /\ Free7
Free5 == r5 = "free" /\ Free6
Free4 == r4 = "free" /\ Free5
Free3 == r3 = "free" /\ Free4
Free2 == r2 = "free" /\ Free3
Free1 == r1 = "free" /\ Free2

WordGestures == {"loudness", "gain", "reset"}
BassOnly == {"bass"}
(* Both sides of the gap, and an end.                                      *)
BassTones == {-4, -3, 7}

(* A grid, with both sides of every limit of the balance.                  *)
Grid == {0, 40, 81, 82, 160} \X {0, 113, 114, 180, 228, 229, 240}

-----------------------------------------------------------------------------
Tone == INSTANCE SoundModuleProofs WITH
  Gestures <- {"bass", "treble", "balance"}, Tones <- {-4, -3},
  Gains <- {}, Spots <- {<<160, 228>>}, MaxPosts <- 2, MaxKills <- 1,
  pref <- r1, base <- r2, home <- r3, open <- r4, busy <- r5, todo <- r6, frame <- r7,
  torn <- r8, kills <- r9, posts <- r10, heard <- r11, behind <- r12

Place == INSTANCE SoundModuleProofs WITH
  Gestures <- {"balance", "arrow", "centre"}, Tones <- {}, Gains <- {}, Spots <- Grid,
  MaxPosts <- 1, MaxKills <- 0,
  pref <- r1, base <- r2, home <- r3, open <- r4, busy <- r5, todo <- r6, frame <- r7,
  torn <- r8, kills <- r9, posts <- r10, heard <- r11, behind <- r12

Source == INSTANCE AudioSource WITH
  Opened <- {"radio", "aux", "tv"}, Patient <- TRUE, Unit <- 100, MaxPending <- 2, MaxRestarts <- 0,
  radioIsRun <- r1, auxAudioIsActive <- r2, headUnitAudioIsActive <- r3,
  bluetoothPlayerState <- r4, radioSoundChannel <- r5, auxSoundChannel <- r6,
  life <- r7, finishing <- r8, pending <- r9, channel <- r10, music <- r11,
  checked <- r12, orphaned <- r13, restarts <- r14, crossed <- r15

Menu == INSTANCE AudioSource WITH
  Opened <- {"radio", "media"}, Patient <- TRUE, Unit <- 50, MaxPending <- 6, MaxRestarts <- 1,
  radioIsRun <- r1, auxAudioIsActive <- r2, headUnitAudioIsActive <- r3,
  bluetoothPlayerState <- r4, radioSoundChannel <- r5, auxSoundChannel <- r6,
  life <- r7, finishing <- r8, pending <- r9, channel <- r10, music <- r11,
  checked <- r12, orphaned <- r13, restarts <- r14, crossed <- r15

Reborn == INSTANCE AudioSource WITH
  Opened <- {"radio", "aux"}, Patient <- TRUE, Unit <- 100, MaxPending <- 2, MaxRestarts <- 1,
  radioIsRun <- r1, auxAudioIsActive <- r2, headUnitAudioIsActive <- r3,
  bluetoothPlayerState <- r4, radioSoundChannel <- r5, auxSoundChannel <- r6,
  life <- r7, finishing <- r8, pending <- r9, channel <- r10, music <- r11,
  checked <- r12, orphaned <- r13, restarts <- r14, crossed <- r15

Hasty == INSTANCE AudioSource WITH
  Opened <- {"tv"}, Patient <- FALSE, Unit <- 100, MaxPending <- 4, MaxRestarts <- 0,
  radioIsRun <- r1, auxAudioIsActive <- r2, headUnitAudioIsActive <- r3,
  bluetoothPlayerState <- r4, radioSoundChannel <- r5, auxSoundChannel <- r6,
  life <- r7, finishing <- r8, pending <- r9, channel <- r10, music <- r11,
  checked <- r12, orphaned <- r13, restarts <- r14, crossed <- r15

-----------------------------------------------------------------------------
AnyInit ==
  /\ Init
  /\ component \in Components
  /\ \/ component = "words" /\ Free1
     \/ component = "frames" /\ Tone!Init /\ Free13
     \/ component = "balance" /\ Place!Init /\ Free13
     \/ component = "sources" /\ Source!Init
     \/ component = "menu" /\ Menu!Init
     \/ component = "reborn" /\ Reborn!Init
     \/ component = "hasty" /\ Hasty!Init

AnyNext ==
  \/ component = "words" /\ Next /\ UNCHANGED <<component, registers>>
  \/ component = "frames" /\ Tone!Next /\ UNCHANGED <<component, r13, r14, r15, vars>>
  \/ component = "balance" /\ Place!Next /\ UNCHANGED <<component, r13, r14, r15, vars>>
  \/ component = "sources" /\ Source!Next /\ UNCHANGED <<component, vars>>
  \/ component = "menu" /\ Menu!Next /\ UNCHANGED <<component, vars>>
  \/ component = "reborn" /\ Reborn!Next /\ UNCHANGED <<component, vars>>
  \/ component = "hasty" /\ Hasty!Next /\ UNCHANGED <<component, vars>>

AnySpec == AnyInit /\ [][AnyNext]_allVars

-----------------------------------------------------------------------------
(* SettingsReachModule is about the words in a behaviour of theirs. Of the *)
(* tones and of the balance the same: once all frames have arrived the one *)
(* heard last has all settings in force, bass values of -3..-1 apart,      *)
(* unless a death cost the last or an older one came after it; and the     *)
(* speakers on the side of the picture are never quieter than those on the *)
(* other side, across and down, up to the last twelve pixels at the        *)
(* bottom.                                                                 *)
TonesReachModule ==
  /\ component = "words" => TypeOK
  /\ component = "frames" => Tone!SettingsReachModule
  /\ component = "balance" => Place!SettingsReachModule

(* Once all commands and late callbacks have come, a screen in front has   *)
(* the channel it asked for: neither the other screens' late callbacks and *)
(* commands nor the checks have taken it away; for radio and Bluetooth     *)
(* even if it was resumed before the other was stopped and destroyed. And  *)
(* when every screen has been closed, the head unit is heard again, in     *)
(* whatever order the callbacks of the closing and of the next screen,     *)
(* delayed commands and checks ran. What the code does not give is         *)
(* excluded: among radio, AUX and TV the late callbacks of one take the    *)
(* channel from another that is in front already; with an AUX screen left  *)
(* beneath (or lost with the process) its stale preference costs the radio *)
(* its channel; the TV screen has no flag, so a check may take its         *)
(* channel, but not without the preference of AUX; the Bluetooth screen    *)
(* only rids itself of a radio; a death, or settings that send the command *)
(* of an AUX screen being closed, leave a channel taken.                   *)
SourcesAreGiven ==
  /\ component = "sources" => Source!TypeOK /\ Source!ScreenHasItsChannel /\ Source!ClosedMeansHeadUnit
  /\ component = "menu" => Menu!TypeOK /\ Menu!ScreenHasItsChannel /\ Menu!ClosedMeansHeadUnit
  /\ component = "reborn" => Reborn!TypeOK /\ Reborn!ScreenHasItsChannel /\ Reborn!ClosedMeansHeadUnit
  /\ component = "hasty" => Hasty!TypeOK /\ Hasty!ClosedMeansHeadUnit

-----------------------------------------------------------------------------
(* The settings of both instances are among those that theorems are about. *)
LEMMA ToneAssumption ==
  /\ {"bass", "treble", "balance"}
       \subseteq {"loudness", "gain", "bass", "treble", "balance", "arrow", "centre", "reset"}
  /\ {-4, -3} \subseteq -7..7
  /\ {} \subseteq {0, 4, 8, 12}
  /\ {<<160, 228>>} \subseteq Tone!Area
  /\ 2 \in Nat /\ 1 \in Nat
BY DEF Tone!Area

LEMMA PlaceAssumption ==
  /\ {"balance", "arrow", "centre"}
       \subseteq {"loudness", "gain", "bass", "treble", "balance", "arrow", "centre", "reset"}
  /\ {} \subseteq -7..7
  /\ {} \subseteq {0, 4, 8, 12}
  /\ Grid \subseteq Place!Area
  /\ 1 \in Nat /\ 0 \in Nat
BY DEF Grid, Place!Area

(* A step leaves the component as it is, and is one of that component.     *)
LEMMA AnyStep ==
  ASSUME [AnyNext]_allVars
  PROVE  /\ component' = component
         /\ [Next]_vars
         /\ component = "frames" => [Tone!Next]_(Tone!vars)
         /\ component = "balance" => [Place!Next]_(Place!vars)
BY DEF AnyNext, allVars, registers, Tone!vars, Place!vars

(* What the sound module has been told of tones and balance is what is     *)
(* stored, wherever the process is killed, unless a death has dropped the  *)
(* frame that was posted or a later one has arrived before it              *)
(* (AudioValues, SettingsActivity).                                        *)
THEOREM TonesReach == AnySpec => []TonesReachModule
<1> DEFINE Inv == /\ IInv
                  /\ component = "frames" => Tone!IInv /\ Tone!OwedInv /\ Tone!LastComesLast
                  /\ component = "balance" => Place!IInv /\ Place!OwedInv /\ Place!LastComesLast
<1>1. AnyInit => Inv
  <2>1. Tone!Init => Tone!IInv /\ Tone!OwedInv /\ Tone!LastComesLast
    BY ToneAssumption, Tone!InitOK, Tone!InitOwes DEF Tone!Init, Tone!LastComesLast
  <2>2. Place!Init => Place!IInv /\ Place!OwedInv /\ Place!LastComesLast
    BY PlaceAssumption, Place!InitOK, Place!InitOwes DEF Place!Init, Place!LastComesLast
  <2> QED BY <2>1, <2>2, InitOK DEF AnyInit
<1>2. Inv /\ [AnyNext]_allVars => Inv'
  <2>1. Tone!IInv /\ Tone!OwedInv /\ Tone!LastComesLast /\ [Tone!Next]_(Tone!vars)
        => Tone!IInv' /\ Tone!OwedInv' /\ Tone!LastComesLast'
    BY ToneAssumption, Tone!NextOK, Tone!NextOwes, Tone!NextComesLast
  <2>2. Place!IInv /\ Place!OwedInv /\ Place!LastComesLast /\ [Place!Next]_(Place!vars)
        => Place!IInv' /\ Place!OwedInv' /\ Place!LastComesLast'
    BY PlaceAssumption, Place!NextOK, Place!NextOwes, Place!NextComesLast
  <2> QED BY <2>1, <2>2, NextOK, AnyStep
<1>3. Inv => TonesReachModule
  <2>1. Tone!OwedInv /\ Tone!LastComesLast => Tone!SettingsReachModule
    BY ToneAssumption, Tone!OwedSuffices
  <2>2. Place!OwedInv /\ Place!LastComesLast => Place!SettingsReachModule
    BY PlaceAssumption, Place!OwedSuffices
  <2> QED BY <2>1, <2>2, InvSuffices DEF TonesReachModule
<1> QED BY <1>1, <1>2, <1>3, PTL DEF AnySpec
=============================================================================
