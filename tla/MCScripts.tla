----------------------------- MODULE MCScripts ------------------------------
(***************************************************************************)
(* Scripts that share files or a list of devices, composed: processes that *)
(* download to one local file (the module extended here), the recovery of  *)
(* devices, whose threads write one blacklist, and the provisioning of     *)
(* devices, which leaves out what is on it. A behaviour belongs to one of  *)
(* the components; the others stay as they were at the start, or free.     *)
(* Below the properties are their proofs, for all values of the constants: *)
(* for each component the inductive invariant and one lemma for every      *)
(* operation, and at the end what the run checks of them.                  *)
(***************************************************************************)
EXTENDS CloudStorage, Sequences, TLAPS

CONSTANTS
  Components,                  \* the components of the run
  Devices, Programs, UsbReset, \* of the recovery
  Fresh, Emulators, MaxFaults  \* of provisioning

VARIABLES
  component,  \* whose behaviour this is
  known, usb, adb, blacklistFile, main, mine, lock, thread, then, copy, seen, todo, noted, lines,
  options, kind, device, steps, ops, tries, faults, blacklist, chosen, result

ofRecovery == <<known, usb, adb, blacklistFile, main, mine, lock, thread, then, copy, seen, todo,
                noted, lines>>
ofProvision == <<options, kind, device, steps, ops, tries, faults, blacklist, chosen, result>>

allVars == <<component, ofRecovery, ofProvision, vars>>

NoDownloads == file = None /\ hashFile = None /\ bucket = {}
NoRecovery ==
  /\ known = "free" /\ usb = "free" /\ adb = "free" /\ blacklistFile = "free" /\ main = "free"
  /\ mine = "free" /\ lock = "free" /\ thread = "free" /\ then = "free" /\ copy = "free"
  /\ seen = "free" /\ todo = "free" /\ noted = "free" /\ lines = "free"
NoProvision ==
  /\ options = "free" /\ kind = "free" /\ device = "free" /\ steps = "free" /\ ops = "free"
  /\ tries = "free" /\ faults = "free" /\ blacklist = "free" /\ chosen = "free"
  /\ result = "free"

Rec == INSTANCE DeviceRecovery WITH file <- blacklistFile
Prov == INSTANCE Provision WITH Devices <- Fresh

-----------------------------------------------------------------------------
AnyInit ==
  /\ component \in Components
  /\ Init
  /\ \/ component = "downloads" /\ NoRecovery /\ NoProvision
     \/ component = "recovery" /\ Rec!Init /\ NoDownloads /\ NoProvision
     \/ component = "provision" /\ Prov!Init /\ NoDownloads /\ NoRecovery

(* The recovery and the provisioning come to their end.                    *)
Stops ==
  \/ component = "recovery" /\ Rec!Finished /\ UNCHANGED allVars
  \/ component = "provision" /\ Prov!Reported /\ UNCHANGED allVars

AnyNext ==
  \/ component = "downloads" /\ Next /\ UNCHANGED <<component, ofRecovery, ofProvision>>
  \/ component = "recovery" /\ Rec!Next /\ UNCHANGED <<component, ofProvision, vars>>
  \/ component = "provision" /\ Prov!Next /\ UNCHANGED <<component, ofRecovery, vars>>
  \/ Stops

AnySpec == AnyInit /\ [][AnyNext]_allVars

(* Of the fairness the modules state, that of the downloads is needed.     *)
AnyFairSpec == AnySpec /\ \A p \in Processes : WF_vars(Proceeds(p))

-----------------------------------------------------------------------------
(* A device that provisioning has not blacklisted answers, runs its        *)
(* framework and has what the options asked for, and properties that were  *)
(* written to it are in effect: a reboot and no wipe came after them; they *)
(* are written unless the build is a user's or the writing failed. Of      *)
(* the devices that several threads add to one blacklist none is lost,     *)
(* what a status says of the list is what the list says when all threads   *)
(* have ended, and a device whose USB could not be reset is not rebooted.  *)
ListedIsTrue ==
  /\ [](/\ component = "provision" =>
             Prov!IInv /\ Prov!GoodIsReady /\ Prov!PropertiesAreInEffect
        /\ component = "recovery" =>
             Rec!IInv /\ Rec!NotedAreListed /\ Rec!StatusIsTrue)
  /\ [][component = "recovery" => Rec!RebootedAreClean]_allVars

-----------------------------------------------------------------------------
(* Recovery: its inductive invariant, if one script runs at a time.        *)

(* Who may read while no thread writes finds a whole list, or none.        *)
LEMMA RecReadIsFile ==
  ASSUME Rec!OneProgram, Rec!IInv, NEW p \in Programs, ~lock[p]
  PROVE  Rec!Read = blacklistFile /\ Rec!Writing(p) = {}
<1>1. Rec!Writing(p) = {}
  BY DEF Rec!IInv, Rec!OneWrites
<1>2. blacklistFile.is # "torn"
  BY <1>1 DEF Rec!IInv, Rec!TornIsWritten, Rec!Writing, Rec!OneProgram
<1> QED BY <1>1, <1>2 DEF Rec!Read

(* A step that leaves file, copies, lock and the writing threads alone.    *)
LEMMA RecQuietKeeps ==
  ASSUME Rec!OneProgram, Rec!IInv, NEW p \in Programs,
         UNCHANGED <<blacklistFile, copy, lock>>,
         \A d \in Devices : /\ Rec!Writing(p)' = Rec!Writing(p)
                            /\ d \in Rec!Writing(p) => thread'[p][d] = thread[p][d]
  PROVE  Rec!OneWrites' /\ Rec!TornIsWritten' /\ Rec!Listed(p)' = Rec!Listed(p)
<1>1. \A d \in Devices : thread'[p][d] = "write" <=> thread[p][d] = "write"
  BY DEF Rec!Writing
<1>2. Rec!OneWrites'
  <2> SUFFICES ASSUME NEW d \in Rec!Writing(p)'
               PROVE  /\ lock'[p] /\ \A e \in Rec!Writing(p)' : e = d
                      /\ IF thread'[p][d] = "write" THEN blacklistFile' = Rec!Torn
                         ELSE blacklistFile'.is # "torn" /\ copy'[p][d] = blacklistFile'.set
    BY DEF Rec!OneWrites, Rec!OneProgram, Rec!Torn
  <2>1. d \in Rec!Writing(p) /\ d \in Devices
    BY DEF Rec!Writing
  <2> QED BY <2>1, <1>1 DEF Rec!IInv, Rec!OneWrites
<1>3. Rec!TornIsWritten'
  BY <1>1 DEF Rec!IInv, Rec!TornIsWritten, Rec!OneProgram
<1>4. Rec!Listed(p)' = Rec!Listed(p)
  BY <1>1 DEF Rec!Listed
<1> QED BY <1>2, <1>3, <1>4

LEMMA RecInitInv == ASSUME Rec!OneProgram PROVE Rec!Init => Rec!IInv
<1> SUFFICES ASSUME Rec!Init PROVE Rec!IInv
  OBVIOUS
<1>1. Rec!TypeOK
  BY DEF Rec!Init, Rec!TypeOK, Rec!Absent, Rec!Whole, Rec!Places
<1>2. Rec!ThreadsArePlaced
  BY DEF Rec!Init, Rec!ThreadsArePlaced, Rec!Placed, Rec!At, Rec!Extends
<1>3. \A p \in Programs : Rec!Writing(p) = {}
  BY DEF Rec!Init, Rec!Writing
<1>4. Rec!OneWrites
  BY <1>3 DEF Rec!OneWrites
<1>5. Rec!TornIsWritten
  BY DEF Rec!Init, Rec!TornIsWritten, Rec!Absent, Rec!Whole
<1>6. Rec!ListIsKept
  BY DEF Rec!Init, Rec!ListIsKept
<1> QED BY <1>1, <1>2, <1>4, <1>5, <1>6 DEF Rec!IInv

(* A thread that goes on without writing.                                  *)
LEMMA RecThreadMoves ==
  ASSUME Rec!OneProgram, Rec!IInv, NEW p \in Programs, NEW d \in Devices, NEW to \in Rec!Places,
         d \notin Rec!Writing(p), to \notin {"truncate", "write"}, Rec!Goes(p, d, to),
         UNCHANGED <<blacklistFile, copy, lock>>
  PROVE  Rec!OneWrites' /\ Rec!TornIsWritten' /\ Rec!Listed(p)' = Rec!Listed(p)
<1>1. thread' = [thread EXCEPT ![p] = [thread[p] EXCEPT ![d] = to]]
  BY DEF Rec!Goes, Rec!IInv, Rec!TypeOK
<1>2. thread'[p] = [thread[p] EXCEPT ![d] = to]
  BY <1>1 DEF Rec!IInv, Rec!TypeOK
<1>3. \A e \in Devices : thread'[p][e] = IF e = d THEN to ELSE thread[p][e]
  BY <1>2 DEF Rec!IInv, Rec!TypeOK
<1>4. Rec!Writing(p)' = Rec!Writing(p)
  BY <1>3 DEF Rec!Writing
<1>5. \A e \in Devices : e \in Rec!Writing(p) => thread'[p][e] = thread[p][e]
  BY <1>3
<1> QED BY <1>4, <1>5, RecQuietKeeps

(* The place of each thread when that of one changes.                      *)
LEMMA RecPlaceMoves ==
  ASSUME Rec!IInv, NEW p \in Programs, NEW d \in Devices, NEW to \in Rec!Places, Rec!Goes(p, d, to)
  PROVE  /\ thread' \in [Programs -> [Devices -> Rec!Places]]
         /\ thread'[p][d] = to
         /\ \A e \in Devices : e # d => thread'[p][e] = thread[p][e]
<1>1. thread' = [thread EXCEPT ![p] = [thread[p] EXCEPT ![d] = to]]
  BY DEF Rec!Goes, Rec!IInv, Rec!TypeOK
<1>2. thread'[p] = [thread[p] EXCEPT ![d] = to]
  BY <1>1 DEF Rec!IInv, Rec!TypeOK
<1> QED BY <1>1, <1>2 DEF Rec!IInv, Rec!TypeOK

(* Of a function on scripts and devices, what one value becomes.           *)
LEMMA RecOneChanges ==
  ASSUME NEW S, NEW f \in [Programs -> [Devices -> S]], NEW p \in Programs, NEW d \in Devices,
         NEW v \in S
  PROVE  /\ [f EXCEPT ![p][d] = v] \in [Programs -> [Devices -> S]]
         /\ [f EXCEPT ![p][d] = v][p][d] = v
         /\ \A e \in Devices : e # d => [f EXCEPT ![p][d] = v][p][e] = f[p][e]
<1>1. [f EXCEPT ![p][d] = v] = [f EXCEPT ![p] = [f[p] EXCEPT ![d] = v]]
  OBVIOUS
<1>2. [f EXCEPT ![p] = [f[p] EXCEPT ![d] = v]][p] = [f[p] EXCEPT ![d] = v]
  OBVIOUS
<1> QED BY <1>1, <1>2

(* A step that notes no device and ends no thread leaves the list as true. *)
LEMMA RecListStays ==
  ASSUME Rec!OneProgram, Rec!IInv, NEW p \in Programs, Rec!Listed(p)' = Rec!Listed(p),
         UNCHANGED <<main, mine, seen, noted>>,
         \A d \in Devices : thread'[p][d] = "ended" => thread[p][d] = "ended"
  PROVE  Rec!ListIsKept'
<1>1. mine[p] \subseteq Devices
  BY DEF Rec!IInv, Rec!TypeOK
<1>2. noted'[p] \subseteq Rec!Listed(p)' /\ seen'[p] \subseteq mine'[p]
  BY DEF Rec!IInv, Rec!ListIsKept
<1>3. \A d \in mine[p] : main[p] = "status" /\ thread'[p][d] = "ended" => (d \in seen[p] <=> d \in Rec!Listed(p)')
  BY <1>1 DEF Rec!IInv, Rec!ListIsKept
<1> QED BY <1>2, <1>3 DEF Rec!ListIsKept, Rec!OneProgram

LEMMA RecPlacedStays ==
  ASSUME Rec!IInv, NEW p \in Programs, NEW d \in Devices, Rec!At(p, d)' = Rec!At(p, d),
         Rec!Extends(p, d)' => Rec!Extends(p, d), UNCHANGED <<main, mine>>
  PROVE  Rec!Placed(p, d)'
<1>1. Rec!Placed(p, d)
  BY DEF Rec!IInv, Rec!ThreadsArePlaced
<1> QED BY <1>1 DEF Rec!Placed

(* What a place says of the script.                                        *)
LEMMA RecPlaceTells ==
  ASSUME Rec!IInv, NEW p \in Programs, NEW d \in Devices
  PROVE  /\ main[p] \in {"start", "status", "usb", "recover", "done"}
         /\ thread[p][d] # "none" => d \in mine[p] /\ main[p] # "start"
         /\ main[p] = "start" => thread[p][d] = "none"
         /\ thread[p][d] \in {"look", "status"} => main[p] = "status"
         /\ thread[p][d] \in {"check", "reboot", "boot"} => main[p] = "recover"
<1>1. Rec!Placed(p, d)
  BY DEF Rec!IInv, Rec!ThreadsArePlaced
<1>2. main[p] \in {"start", "status", "usb", "recover", "done"}
  BY DEF Rec!IInv, Rec!TypeOK
<1>3. thread[p][d] # "none" => Rec!At(p, d) # "none"
  BY <1>1 DEF Rec!Placed, Rec!At, Rec!Extends
<1> QED BY <1>1, <1>2, <1>3 DEF Rec!Placed, Rec!At, Rec!Extends

LEMMA RecExtendReadsInv ==
  ASSUME Rec!OneProgram, Rec!IInv, NEW p \in Programs, NEW d \in Devices, Rec!ExtendReads(p, d)
  PROVE  Rec!IInv'
<1>1. Rec!Read = blacklistFile /\ Rec!Writing(p) = {} /\ blacklistFile.is # "torn"
  BY RecReadIsFile DEF Rec!ExtendReads, Rec!IInv, Rec!TornIsWritten, Rec!OneProgram, Rec!Writing
<1>2. Rec!Goes(p, d, "truncate") /\ thread[p][d] = "extend" /\ "truncate" \in Rec!Places
  BY DEF Rec!ExtendReads, Rec!Places
<1>3. /\ thread' \in [Programs -> [Devices -> Rec!Places]] /\ thread'[p][d] = "truncate"
      /\ \A e \in Devices : e # d => thread'[p][e] = thread[p][e]
  BY <1>2, RecPlaceMoves
<1>4. blacklistFile.set \in SUBSET Devices /\ copy \in [Programs -> [Devices -> SUBSET Devices]]
  BY DEF Rec!IInv, Rec!TypeOK
<1>5. /\ copy' \in [Programs -> [Devices -> SUBSET Devices]] /\ copy'[p][d] = blacklistFile.set
      /\ \A e \in Devices : e # d => copy'[p][e] = copy[p][e]
  BY <1>1, <1>4, RecOneChanges DEF Rec!ExtendReads
<1>6. blacklistFile' = blacklistFile
  BY <1>1 DEF Rec!ExtendReads
<1>7. Rec!TypeOK'
  BY <1>3, <1>5, <1>6 DEF Rec!IInv, Rec!TypeOK, Rec!ExtendReads, Rec!outside
<1>8. Rec!ThreadsArePlaced'
  <2>1. \A e \in Devices : Rec!At(p, e)' = Rec!At(p, e) /\ (Rec!Extends(p, e)' <=> Rec!Extends(p, e))
    BY <1>2, <1>3 DEF Rec!At, Rec!Extends, Rec!ExtendReads
  <2>2. \A e \in Devices : Rec!Placed(p, e)'
    BY <2>1, RecPlacedStays DEF Rec!ExtendReads
  <2> QED BY <2>2 DEF Rec!IInv, Rec!ThreadsArePlaced, Rec!OneProgram, Rec!ExtendReads
<1>9. Rec!Writing(p)' = {d}
  BY <1>1, <1>3 DEF Rec!Writing
<1>10. lock'[p]
  BY DEF Rec!ExtendReads, Rec!IInv, Rec!TypeOK
<1>11. Rec!OneWrites' /\ Rec!TornIsWritten'
  BY <1>1, <1>3, <1>5, <1>6, <1>9, <1>10 DEF Rec!OneWrites, Rec!TornIsWritten, Rec!OneProgram
<1>12. Rec!Listed(p)' = Rec!Listed(p)
  BY <1>1, <1>3, <1>6 DEF Rec!Listed, Rec!Writing
<1>13. Rec!ListIsKept'
  <2>1. \A e \in Devices : thread'[p][e] = "ended" => thread[p][e] = "ended"
    BY <1>3
  <2> QED BY <2>1, <1>12, RecListStays DEF Rec!ExtendReads
<1> QED BY <1>7, <1>8, <1>11, <1>13 DEF Rec!IInv

LEMMA RecTruncatesInv ==
  ASSUME Rec!OneProgram, Rec!IInv, NEW p \in Programs, NEW d \in Devices, Rec!WriteTruncates(p, d)
  PROVE  Rec!IInv'
<1>1. Rec!Goes(p, d, "write") /\ thread[p][d] = "truncate" /\ "write" \in Rec!Places /\ blacklistFile' = Rec!Torn
  BY DEF Rec!WriteTruncates, Rec!Places
<1>2. /\ thread' \in [Programs -> [Devices -> Rec!Places]] /\ thread'[p][d] = "write"
      /\ \A e \in Devices : e # d => thread'[p][e] = thread[p][e]
  BY <1>1, RecPlaceMoves
<1>3. d \in Rec!Writing(p) /\ Rec!Writing(p)' = Rec!Writing(p)
  BY <1>1, <1>2 DEF Rec!Writing
<1>4. /\ lock[p] /\ copy[p][d] = blacklistFile.set /\ \A e \in Devices : e # d => e \notin Rec!Writing(p)
  BY <1>1, <1>3 DEF Rec!IInv, Rec!OneWrites
<1>5. Rec!TypeOK'
  BY <1>1, <1>2 DEF Rec!IInv, Rec!TypeOK, Rec!WriteTruncates, Rec!outside, Rec!Torn
<1>6. Rec!ThreadsArePlaced'
  <2>1. \A e \in Devices : Rec!At(p, e)' = Rec!At(p, e) /\ (Rec!Extends(p, e)' <=> Rec!Extends(p, e))
    BY <1>1, <1>2 DEF Rec!At, Rec!Extends, Rec!WriteTruncates
  <2>2. \A e \in Devices : Rec!Placed(p, e)'
    BY <2>1, RecPlacedStays DEF Rec!WriteTruncates
  <2> QED BY <2>2 DEF Rec!IInv, Rec!ThreadsArePlaced, Rec!OneProgram, Rec!WriteTruncates
<1>7. Rec!OneWrites' /\ Rec!TornIsWritten'
  BY <1>1, <1>2, <1>3, <1>4 DEF Rec!OneWrites, Rec!TornIsWritten, Rec!OneProgram,
        Rec!WriteTruncates, Rec!Torn, Rec!Writing
<1>8. Rec!Listed(p)' = Rec!Listed(p)
  <2>1. Rec!Listed(p)' = copy[p][d]
    BY <1>1, <1>2, <1>4 DEF Rec!Listed, Rec!WriteTruncates, Rec!Torn, Rec!Writing
  <2>2. Rec!Listed(p) = blacklistFile.set
    BY <1>1, <1>4 DEF Rec!Listed, Rec!Writing
  <2> QED BY <2>1, <2>2, <1>4
<1>9. Rec!ListIsKept'
  <2>1. \A e \in Devices : thread'[p][e] = "ended" => thread[p][e] = "ended"
    BY <1>2
  <2> QED BY <2>1, <1>8, RecListStays DEF Rec!WriteTruncates
<1> QED BY <1>5, <1>6, <1>7, <1>9 DEF Rec!IInv

LEMMA RecFillsInv ==
  ASSUME Rec!OneProgram, Rec!IInv, NEW p \in Programs, NEW d \in Devices, Rec!WriteFills(p, d)
  PROVE  Rec!IInv'
<1>1. Rec!Goes(p, d, Rec!At(p, d)) /\ thread[p][d] = "write" /\ Rec!At(p, d) = then[p][d] /\ Rec!At(p, d) \in Rec!Places
  BY DEF Rec!WriteFills, Rec!At, Rec!Extends, Rec!IInv, Rec!TypeOK
<1>2. /\ thread' \in [Programs -> [Devices -> Rec!Places]] /\ thread'[p][d] = Rec!At(p, d)
      /\ \A e \in Devices : e # d => thread'[p][e] = thread[p][e]
  BY <1>1, RecPlaceMoves
<1>3. Rec!At(p, d) \notin {"extend", "truncate", "write"}
  BY DEF Rec!IInv, Rec!ThreadsArePlaced, Rec!Placed
<1>4. d \in Rec!Writing(p) /\ blacklistFile = Rec!Torn /\ \A e \in Devices : e # d => e \notin Rec!Writing(p)
  BY <1>1 DEF Rec!Writing, Rec!IInv, Rec!OneWrites
<1>5. blacklistFile' = Rec!Whole(copy[p][d] \cup {d})
  BY <1>4 DEF Rec!WriteFills, Rec!Torn, Rec!Absent
<1>6. "none" \in Rec!Places /\ {} \in SUBSET Devices /\ copy[p][d] \in SUBSET Devices
  <2>1. copy \in [Programs -> [Devices -> SUBSET Devices]]
    BY DEF Rec!IInv, Rec!TypeOK
  <2>2. copy[p][d] \in SUBSET Devices
    BY <2>1
  <2> QED BY <2>2 DEF Rec!Places
<1>7. /\ then' \in [Programs -> [Devices -> Rec!Places]]
      /\ \A e \in Devices : e # d => then'[p][e] = then[p][e]
  BY <1>6, RecOneChanges DEF Rec!WriteFills, Rec!IInv, Rec!TypeOK
<1>8. copy' \in [Programs -> [Devices -> SUBSET Devices]]
  BY <1>6, RecOneChanges DEF Rec!WriteFills, Rec!IInv, Rec!TypeOK
<1>9. noted' \in [Programs -> SUBSET Devices] /\ noted'[p] = noted[p] \cup {d}
  BY DEF Rec!WriteFills, Rec!IInv, Rec!TypeOK
<1>10. lock' \in [Programs -> BOOLEAN]
  BY DEF Rec!WriteFills, Rec!Releases, Rec!IInv, Rec!TypeOK
<1>11. Rec!TypeOK'
  BY <1>2, <1>5, <1>6, <1>7, <1>8, <1>9, <1>10 DEF Rec!IInv, Rec!TypeOK, Rec!WriteFills,
        Rec!outside, Rec!Whole
<1>12. Rec!ThreadsArePlaced'
  <2>1. \A e \in Devices : Rec!At(p, e)' = Rec!At(p, e) /\ (Rec!Extends(p, e)' => Rec!Extends(p, e))
    BY <1>1, <1>2, <1>3, <1>7 DEF Rec!At, Rec!Extends
  <2>2. \A e \in Devices : Rec!Placed(p, e)'
    BY <2>1, RecPlacedStays DEF Rec!WriteFills
  <2>3. main[p] # "start"
    BY <1>1, RecPlaceTells
  <2> QED BY <2>2, <2>3 DEF Rec!IInv, Rec!ThreadsArePlaced, Rec!OneProgram, Rec!WriteFills
<1>13. Rec!Writing(p)' = {}
  BY <1>2, <1>3, <1>4 DEF Rec!Writing
<1>14. Rec!OneWrites' /\ Rec!TornIsWritten'
  BY <1>5, <1>13 DEF Rec!OneWrites, Rec!TornIsWritten, Rec!OneProgram, Rec!Whole
<1>15. Rec!Listed(p)' = Rec!Listed(p) \cup {d}
  <2>1. Rec!Listed(p)' = copy[p][d] \cup {d}
    BY <1>5, <1>13 DEF Rec!Listed, Rec!Writing, Rec!Whole
  <2>2. Rec!Listed(p) = copy[p][d]
    BY <1>1, <1>4 DEF Rec!Listed, Rec!Writing, Rec!Torn
  <2> QED BY <2>1, <2>2
<1>16. Rec!ListIsKept'
  <2>1. noted'[p] \subseteq Rec!Listed(p)'
    BY <1>9, <1>15 DEF Rec!IInv, Rec!ListIsKept
  <2>2. main[p] = "status" => thread'[p][d] # "ended"
    BY <1>1, <1>2 DEF Rec!IInv, Rec!ThreadsArePlaced, Rec!Placed, Rec!Extends
  <2>3. ASSUME NEW e \in mine[p], main[p] = "status", thread'[p][e] = "ended"
        PROVE  e \in seen[p] <=> e \in Rec!Listed(p)'
    <3>1. e \in Devices /\ e # d
      BY <2>2, <2>3 DEF Rec!IInv, Rec!TypeOK
    <3> QED BY <2>3, <3>1, <1>2, <1>15 DEF Rec!IInv, Rec!ListIsKept
  <2> QED BY <2>1, <2>3 DEF Rec!IInv, Rec!ListIsKept, Rec!OneProgram, Rec!WriteFills
<1> QED BY <1>11, <1>12, <1>14, <1>16 DEF Rec!IInv

LEMMA RecStartInv ==
  ASSUME Rec!OneProgram, Rec!IInv, NEW p \in Programs, Rec!Start(p) PROVE Rec!IInv'
<1>1. main[p] = "start" /\ main' = [main EXCEPT ![p] = "status"] /\ mine' = [mine EXCEPT ![p] = Rec!GetDevices]
      /\ Rec!GetDevices \in SUBSET Devices
  BY DEF Rec!Start, Rec!GetDevices, Rec!IInv, Rec!TypeOK
<1>2. /\ thread' \in [Programs -> [Devices -> Rec!Places]]
      /\ \A d \in Devices : thread'[p][d] = IF d \in Rec!GetDevices THEN "look" ELSE "none"
  BY DEF Rec!Start, Rec!IInv, Rec!TypeOK, Rec!Places
<1>3. \A d \in Devices : thread[p][d] = "none"
  BY <1>1, RecPlaceTells
<1>4. Rec!Writing(p) = {} /\ Rec!Writing(p)' = {}
  BY <1>2, <1>3 DEF Rec!Writing
<1>5. Rec!OneWrites' /\ Rec!TornIsWritten' /\ Rec!Listed(p)' = Rec!Listed(p)
  BY <1>4, RecQuietKeeps DEF Rec!Start
<1>6. Rec!TypeOK'
  BY <1>1, <1>2 DEF Rec!IInv, Rec!TypeOK, Rec!Start, Rec!outside
<1>7. main'[p] = "status" /\ mine'[p] = Rec!GetDevices
  BY <1>1 DEF Rec!IInv, Rec!TypeOK
<1>8. Rec!ThreadsArePlaced'
  <2>1. todo[p] = {}
    BY <1>1 DEF Rec!IInv, Rec!ThreadsArePlaced
  <2>2. \A d \in Devices : ~Rec!Extends(p, d)' /\ Rec!At(p, d)' = IF d \in Rec!GetDevices THEN "look" ELSE "none"
    BY <1>2 DEF Rec!At, Rec!Extends
  <2>3. \A d \in Devices : Rec!Placed(p, d)'
    BY <2>2, <1>7 DEF Rec!Placed
  <2> QED BY <2>1, <2>3, <1>7 DEF Rec!Start, Rec!ThreadsArePlaced, Rec!OneProgram
<1>9. Rec!ListIsKept'
  <2>1. noted[p] = {} /\ seen[p] = {}
    BY <1>1 DEF Rec!IInv, Rec!ThreadsArePlaced
  <2>2. \A d \in Rec!GetDevices : thread'[p][d] # "ended"
    BY <1>1, <1>2
  <2> QED BY <2>1, <2>2, <1>5, <1>7 DEF Rec!Start, Rec!ListIsKept, Rec!OneProgram
<1> QED BY <1>5, <1>6, <1>8, <1>9 DEF Rec!IInv

(* The steps of a thread that neither read into their copy nor write.      *)
LEMMA RecThreadInv ==
  ASSUME Rec!OneProgram, Rec!IInv, NEW p \in Programs, NEW d \in Devices, NEW to \in Rec!Places,
         d \notin Rec!Writing(p), to \notin {"truncate", "write"}, Rec!Goes(p, d, to),
         then' \in [Programs -> [Devices -> Rec!Places]],
         \A e \in Devices : e # d => then'[p][e] = then[p][e],
         todo' \in [Programs -> SUBSET Devices], todo'[p] \subseteq todo[p],
         UNCHANGED <<Rec!outside, blacklistFile, copy, lock, main, mine, noted>>,
         main[p] # "start", Rec!Placed(p, d)'
  PROVE  /\ Rec!ThreadsArePlaced' /\ Rec!OneWrites' /\ Rec!TornIsWritten'
         /\ Rec!Listed(p)' = Rec!Listed(p)
         /\ seen' \in [Programs -> SUBSET Devices] => Rec!TypeOK'
<1>1. /\ thread' \in [Programs -> [Devices -> Rec!Places]] /\ thread'[p][d] = to
      /\ \A e \in Devices : e # d => thread'[p][e] = thread[p][e]
  BY RecPlaceMoves
<1>2. seen' \in [Programs -> SUBSET Devices] => Rec!TypeOK'
  BY <1>1 DEF Rec!IInv, Rec!TypeOK, Rec!outside
<1>3. Rec!OneWrites' /\ Rec!TornIsWritten' /\ Rec!Listed(p)' = Rec!Listed(p)
  BY RecThreadMoves
<1>4. Rec!ThreadsArePlaced'
  <2>1. ASSUME NEW e \in Devices, e # d PROVE Rec!Placed(p, e)'
    <3>1. Rec!At(p, e)' = Rec!At(p, e) /\ (Rec!Extends(p, e)' <=> Rec!Extends(p, e))
      BY <2>1, <1>1 DEF Rec!At, Rec!Extends
    <3> QED BY <3>1, RecPlacedStays
  <2> QED BY <2>1 DEF Rec!IInv, Rec!ThreadsArePlaced, Rec!OneProgram
<1> QED BY <1>2, <1>3, <1>4

(* A thread that goes on, or notes its device first.                       *)
LEMMA RecStepOrExtend ==
  ASSUME Rec!IInv, NEW p \in Programs, NEW d \in Devices, NEW next \in Rec!Places,
         (Rec!Goes(p, d, next) /\ UNCHANGED then) \/ Rec!Extend(p, d, next)
  PROVE  \E to \in Rec!Places :
           /\ to \in {next, "extend"} /\ Rec!Goes(p, d, to) /\ thread'[p][d] = to
           /\ then' \in [Programs -> [Devices -> Rec!Places]]
           /\ \A e \in Devices : e # d => then'[p][e] = then[p][e]
           /\ to = "extend" => then'[p][d] = next \/ next = "extend"
<1>1. then \in [Programs -> [Devices -> Rec!Places]] /\ "extend" \in Rec!Places
  BY DEF Rec!IInv, Rec!TypeOK, Rec!Places
<1>2. CASE Rec!Goes(p, d, next) /\ UNCHANGED then
  <2>1. thread'[p][d] = next
    BY <1>2, RecPlaceMoves
  <2> QED BY <1>1, <1>2, <2>1
<1>3. CASE Rec!Extend(p, d, next)
  <2>1. Rec!Goes(p, d, "extend") /\ then' = [then EXCEPT ![p][d] = next]
    BY <1>3 DEF Rec!Extend
  <2>2. thread'[p][d] = "extend"
    BY <1>1, <2>1, RecPlaceMoves
  <2>3. /\ then' \in [Programs -> [Devices -> Rec!Places]] /\ then'[p][d] = next
        /\ \A e \in Devices : e # d => then'[p][e] = then[p][e]
    BY <1>1, <2>1, RecOneChanges
  <2> QED BY <1>1, <2>1, <2>2, <2>3
<1> QED BY <1>2, <1>3

LEMMA RecLooksInv ==
  ASSUME Rec!OneProgram, Rec!IInv, NEW p \in Programs, NEW d \in Devices,
         Rec!BlacklistingDeviceStatus(p, d)
  PROVE  Rec!IInv'
<1>1. Rec!Read = blacklistFile /\ Rec!Writing(p) = {} /\ blacklistFile' = blacklistFile /\ thread[p][d] = "look"
  BY RecReadIsFile DEF Rec!BlacklistingDeviceStatus
<1>2. main[p] = "status" /\ d \in mine[p] /\ then \in [Programs -> [Devices -> Rec!Places]]
      /\ main \in [Programs -> {"start", "status", "usb", "recover", "done"}]
  BY <1>1, RecPlaceTells DEF Rec!IInv, Rec!TypeOK
<1>3. PICK to \in Rec!Places :
        /\ to \in {"status", "extend"} /\ Rec!Goes(p, d, to) /\ thread'[p][d] = to
        /\ then' \in [Programs -> [Devices -> Rec!Places]]
        /\ \A e \in Devices : e # d => then'[p][e] = then[p][e]
        /\ to = "extend" => then'[p][d] = "status"
  <2>1. "status" \in Rec!Places /\ "status" # "extend"
    BY DEF Rec!Places
  <2>2. (Rec!Goes(p, d, "status") /\ UNCHANGED then) \/ Rec!Extend(p, d, "status")
    BY DEF Rec!BlacklistingDeviceStatus
  <2> QED BY <2>1, <2>2, RecStepOrExtend
<1>4. \A e \in Devices : e # d => thread'[p][e] = thread[p][e]
  BY <1>3, RecPlaceMoves
<1>5. Rec!Placed(p, d)'
  BY <1>2, <1>3, <1>4 DEF Rec!Placed, Rec!At, Rec!Extends, Rec!BlacklistingDeviceStatus
<1>6. /\ Rec!ThreadsArePlaced' /\ Rec!OneWrites' /\ Rec!TornIsWritten'
      /\ Rec!Listed(p)' = Rec!Listed(p)
      /\ seen' \in [Programs -> SUBSET Devices] => Rec!TypeOK'
  BY <1>1, <1>2, <1>3, <1>5, RecThreadInv DEF Rec!BlacklistingDeviceStatus, Rec!IInv, Rec!TypeOK
<1>7. Rec!ListIsKept'
  BY <1>3, <1>4, <1>6, RecListStays DEF Rec!BlacklistingDeviceStatus
<1> QED BY <1>6, <1>7 DEF Rec!IInv, Rec!TypeOK, Rec!BlacklistingDeviceStatus

LEMMA RecStatusInv ==
  ASSUME Rec!OneProgram, Rec!IInv, NEW p \in Programs, NEW d \in Devices, Rec!StatusOfDevice(p, d)
  PROVE  Rec!IInv'
<1>1. Rec!Read = blacklistFile /\ Rec!Writing(p) = {} /\ blacklistFile' = blacklistFile /\ thread[p][d] = "status"
      /\ Rec!Goes(p, d, "ended") /\ "ended" \in Rec!Places
  BY RecReadIsFile DEF Rec!StatusOfDevice, Rec!Places
<1>2. main[p] = "status" /\ d \in mine[p] /\ then \in [Programs -> [Devices -> Rec!Places]]
  BY <1>1, RecPlaceTells DEF Rec!IInv, Rec!TypeOK
<1>3. /\ thread'[p][d] = "ended"
      /\ \A e \in Devices : e # d => thread'[p][e] = thread[p][e]
  BY <1>1, RecPlaceMoves
<1>4. Rec!Placed(p, d)'
  BY <1>2, <1>3 DEF Rec!Placed, Rec!At, Rec!Extends, Rec!StatusOfDevice
<1>5. seen' \in [Programs -> SUBSET Devices]
      /\ seen'[p] = IF d \in blacklistFile.set THEN seen[p] \cup {d} ELSE seen[p] \ {d}
  BY <1>1 DEF Rec!StatusOfDevice, Rec!IsBlacklisted, Rec!IInv, Rec!TypeOK
<1>6. /\ Rec!ThreadsArePlaced' /\ Rec!OneWrites' /\ Rec!TornIsWritten'
      /\ Rec!Listed(p)' = Rec!Listed(p)
      /\ Rec!TypeOK'
  BY <1>1, <1>2, <1>4, <1>5, RecThreadInv DEF Rec!StatusOfDevice, Rec!IInv, Rec!TypeOK
<1>7. Rec!Listed(p) = blacklistFile.set
  BY <1>1 DEF Rec!Listed, Rec!Writing
<1>8. Rec!ListIsKept'
  <2>1. noted'[p] \subseteq Rec!Listed(p)' /\ seen'[p] \subseteq mine'[p]
    BY <1>2, <1>5, <1>6 DEF Rec!IInv, Rec!ListIsKept, Rec!StatusOfDevice
  <2>2. ASSUME NEW e \in mine[p], thread'[p][e] = "ended" PROVE e \in seen'[p] <=> e \in Rec!Listed(p)'
    <3>1. CASE e = d
      BY <3>1, <1>5, <1>6, <1>7
    <3>2. CASE e # d
      <4>1. e \in Devices
        BY DEF Rec!IInv, Rec!TypeOK
      <4> QED BY <4>1, <2>2, <3>2, <1>2, <1>3, <1>5, <1>6 DEF Rec!IInv, Rec!ListIsKept
    <3> QED BY <3>1, <3>2
  <2> QED BY <2>1, <2>2 DEF Rec!ListIsKept, Rec!OneProgram, Rec!StatusOfDevice
<1> QED BY <1>6, <1>8 DEF Rec!IInv

(* Nothing but the place of the script changes.                            *)
LEMMA RecReportInv == ASSUME Rec!OneProgram, Rec!IInv, Rec!Report PROVE Rec!IInv'
<1> DEFINE p == "status"
<1>1. p \in Programs /\ main[p] = "status" /\ Rec!Joined(p) /\ main' = [main EXCEPT ![p] = "done"]
      /\ known' = mine[p]
  BY DEF Rec!Report
<1>2. UNCHANGED <<usb, adb, blacklistFile, lock, mine, thread, then, copy, seen, todo, noted>>
  BY DEF Rec!Report
<1>3. main'[p] = "done"
  BY <1>1 DEF Rec!IInv, Rec!TypeOK
<1>4. Rec!TypeOK'
  BY <1>1, <1>2 DEF Rec!IInv, Rec!TypeOK
<1>5. \A d \in Devices : thread[p][d] = IF d \in mine[p] THEN "ended" ELSE "none"
  <2> SUFFICES ASSUME NEW d \in Devices, d \notin mine[p] PROVE thread[p][d] = "none"
    BY <1>1 DEF Rec!Joined
  <2>1. Rec!Placed(p, d)
    BY <1>1 DEF Rec!IInv, Rec!ThreadsArePlaced
  <2> QED BY <2>1, <1>1 DEF Rec!Placed, Rec!At, Rec!Extends
<1>6. Rec!ThreadsArePlaced'
  <2>1. \A d \in Devices : ~Rec!Extends(p, d)' /\ Rec!At(p, d)' = IF d \in mine[p] THEN "ended" ELSE "none"
    BY <1>2, <1>5 DEF Rec!At, Rec!Extends
  <2>2. \A d \in Devices : Rec!Placed(p, d)'
    BY <2>1, <1>2, <1>3 DEF Rec!Placed
  <2> QED BY <2>2, <1>1, <1>2, <1>3 DEF Rec!IInv, Rec!ThreadsArePlaced, Rec!OneProgram
<1>7. Rec!OneWrites' /\ Rec!TornIsWritten' /\ Rec!Listed(p)' = Rec!Listed(p)
  BY <1>1, <1>2, RecQuietKeeps DEF Rec!Writing
<1>8. Rec!ListIsKept'
  BY <1>1, <1>2, <1>3, <1>7 DEF Rec!IInv, Rec!ListIsKept, Rec!OneProgram
<1> QED BY <1>4, <1>6, <1>7, <1>8 DEF Rec!IInv

-----------------------------------------------------------------------------

(* Of recovery.                                                            *)
LEMMA RecResetInv == ASSUME Rec!OneProgram, Rec!IInv, Rec!Reset PROVE Rec!IInv'
<1>1. /\ Rec!R \in Programs /\ main[Rec!R] = "status" /\ Rec!Joined(Rec!R)
      /\ main' = [main EXCEPT ![Rec!R] = "usb"] /\ blacklistFile' = Rec!Absent
      /\ noted' = [p \in Programs |-> {}] /\ todo' = [todo EXCEPT ![Rec!R] = {d \in mine[Rec!R] : Rec!NeedsUsb(d)}]
      /\ UNCHANGED <<Rec!outside, lock, mine, thread, then, copy, seen, lines>>
  BY DEF Rec!Reset
<1>2. mine[Rec!R] \subseteq Devices /\ {d \in mine[Rec!R] : Rec!NeedsUsb(d)} \in SUBSET Devices
  BY <1>1 DEF Rec!IInv, Rec!TypeOK
<1>3. main'[Rec!R] = "usb" /\ todo'[Rec!R] \subseteq mine[Rec!R]
  BY <1>1 DEF Rec!IInv, Rec!TypeOK
<1>4. Rec!TypeOK'
  BY <1>1, <1>2 DEF Rec!IInv, Rec!TypeOK, Rec!Absent, Rec!outside
<1>5. \A d \in Devices : thread[Rec!R][d] = IF d \in mine[Rec!R] THEN "ended" ELSE "none"
  <2> SUFFICES ASSUME NEW d \in Devices, d \notin mine[Rec!R] PROVE thread[Rec!R][d] = "none"
    BY <1>1 DEF Rec!Joined
  <2> QED BY <1>1, RecPlaceTells
<1>6. Rec!ThreadsArePlaced'
  <2>1. \A d \in Devices : ~Rec!Extends(Rec!R, d)' /\ Rec!At(Rec!R, d)' = IF d \in mine[Rec!R] THEN "ended" ELSE "none"
    BY <1>1, <1>5 DEF Rec!At, Rec!Extends
  <2>2. \A d \in Devices : Rec!Placed(Rec!R, d)'
    BY <2>1, <1>1, <1>3 DEF Rec!Placed
  <2> QED BY <2>2, <1>1, <1>3 DEF Rec!ThreadsArePlaced, Rec!OneProgram
<1>7. Rec!Writing(Rec!R)' = {}
  BY <1>1, <1>5 DEF Rec!Writing
<1>8. Rec!OneWrites' /\ Rec!TornIsWritten'
  BY <1>1, <1>7 DEF Rec!OneWrites, Rec!TornIsWritten, Rec!OneProgram, Rec!Absent
<1>9. Rec!ListIsKept'
  BY <1>1, <1>3 DEF Rec!IInv, Rec!ListIsKept, Rec!OneProgram
<1> QED BY <1>4, <1>6, <1>8, <1>9 DEF Rec!IInv

(* A step of a thread after the list was reset: what is noted stays so.    *)
LEMMA RecAfterStatus ==
  ASSUME Rec!OneProgram, Rec!IInv, NEW p \in Programs, main'[p] # "status",
         Rec!Listed(p)' = Rec!Listed(p), UNCHANGED <<mine, seen, noted>>
  PROVE  Rec!ListIsKept'
BY DEF Rec!IInv, Rec!ListIsKept, Rec!OneProgram

(* A thread that may note its device before it goes on.                    *)
LEMMA RecAfterStep ==
  ASSUME Rec!OneProgram, Rec!IInv, NEW p \in Programs, NEW d \in Devices,
         NEW next \in Rec!Places,
         NEW to \in Rec!Places, to \in {next, "extend"}, Rec!Goes(p, d, to), thread'[p][d] = to,
         then' \in [Programs -> [Devices -> Rec!Places]],
         \A e \in Devices : e # d => then'[p][e] = then[p][e],
         to = "extend" => then'[p][d] = next,
         next \notin {"none", "look", "extend", "truncate", "write"},
         d \in mine[p], d \notin Rec!Writing(p), main[p] \in {"usb", "recover"},
         main[p] = "usb" => next \in {"ended", "usb failed"},
         main[p] = "recover" => next \in {"reboot", "boot", "ended"},
         todo' \in [Programs -> SUBSET Devices], todo'[p] \subseteq todo[p],
         UNCHANGED <<Rec!outside, blacklistFile, lock, main, mine, copy, seen, noted>>
  PROVE  Rec!IInv'
<1>1. Rec!At(p, d)' = next /\ (Rec!Extends(p, d)' <=> to = "extend")
  BY DEF Rec!At, Rec!Extends
<1>2. Rec!Placed(p, d)'
  BY <1>1 DEF Rec!Placed
<1>3. /\ Rec!ThreadsArePlaced' /\ Rec!OneWrites' /\ Rec!TornIsWritten'
      /\ Rec!Listed(p)' = Rec!Listed(p)
      /\ seen' \in [Programs -> SUBSET Devices] => Rec!TypeOK'
  BY <1>2, RecThreadInv
<1>4. Rec!ListIsKept'
  BY <1>3, RecAfterStatus
<1> QED BY <1>3, <1>4 DEF Rec!IInv, Rec!TypeOK

LEMMA RecResetUsbInv ==
  ASSUME Rec!OneProgram, Rec!IInv, NEW d \in Devices, Rec!ResetUsb(d)
  PROVE  Rec!IInv'
<1>1. /\ Rec!R \in Programs /\ main[Rec!R] = "usb" /\ d \in todo[Rec!R] /\ d \in mine[Rec!R]
      /\ thread[Rec!R][d] \in {"ended", "usb failed"}
      /\ todo' = [todo EXCEPT ![Rec!R] = @ \ {d}]
      /\ UNCHANGED <<Rec!outside, blacklistFile, lock, main, mine, copy, seen, noted, lines>>
  BY DEF Rec!ResetUsb, Rec!IInv, Rec!ThreadsArePlaced
<1>2. todo' \in [Programs -> SUBSET Devices] /\ todo'[Rec!R] \subseteq todo[Rec!R]
  BY <1>1 DEF Rec!IInv, Rec!TypeOK
<1>3. d \notin Rec!Writing(Rec!R) /\ "usb failed" \in Rec!Places /\ thread[Rec!R][d] \in Rec!Places
  BY <1>1 DEF Rec!Writing, Rec!Places
<1>4. CASE UNCHANGED <<thread, then>>
  <2>1. Rec!Goes(Rec!R, d, thread[Rec!R][d])
    BY <1>1, <1>4 DEF Rec!Goes, Rec!IInv, Rec!TypeOK
  <2>2. thread'[Rec!R][d] = thread[Rec!R][d] /\ then' \in [Programs -> [Devices -> Rec!Places]]
    BY <1>4 DEF Rec!IInv, Rec!TypeOK
  <2> QED BY <2>1, <2>2, <1>1, <1>2, <1>3, <1>4, RecAfterStep
<1>5. CASE Rec!Extend(Rec!R, d, "usb failed")
  <2>1. PICK to \in Rec!Places :
        /\ to \in {"usb failed", "extend"} /\ Rec!Goes(Rec!R, d, to) /\ thread'[Rec!R][d] = to
        /\ then' \in [Programs -> [Devices -> Rec!Places]]
        /\ \A e \in Devices : e # d => then'[Rec!R][e] = then[Rec!R][e]
        /\ to = "extend" => then'[Rec!R][d] = "usb failed"
    <3>1. /\ Rec!R \in Programs /\ "usb failed" \in Rec!Places /\ "usb failed" # "extend"
          /\ (Rec!Goes(Rec!R, d, "usb failed") /\ UNCHANGED then) \/ Rec!Extend(Rec!R, d, "usb failed")
      BY <1>1, <1>3, <1>5
    <3> QED BY <3>1, RecStepOrExtend
  <2> QED BY <2>1, <1>1, <1>2, <1>3, RecAfterStep
<1> QED BY <1>4, <1>5 DEF Rec!ResetUsb

LEMMA RecRecoverDeviceInv ==
  ASSUME Rec!OneProgram, Rec!IInv, NEW d \in Devices, Rec!RecoverDevice(d)
  PROVE  Rec!IInv'
<1>1. /\ Rec!R \in Programs /\ main[Rec!R] = "recover" /\ thread[Rec!R][d] = "check"
      /\ ~lock[Rec!R]
      /\ UNCHANGED <<Rec!outside, lock, main, mine, then, copy, seen, todo, noted, lines>>
  BY DEF Rec!RecoverDevice
<1>2. blacklistFile' = blacklistFile
  BY <1>1, RecReadIsFile DEF Rec!RecoverDevice
<1>3. PICK next \in {"ended", "reboot"} : Rec!Goes(Rec!R, d, next)
  BY DEF Rec!RecoverDevice
<1>4. d \in mine[Rec!R] /\ d \notin Rec!Writing(Rec!R) /\ next \in Rec!Places
  BY <1>1, RecPlaceTells DEF Rec!Writing, Rec!Places
<1>5. todo' \in [Programs -> SUBSET Devices] /\ todo'[Rec!R] \subseteq todo[Rec!R]
  BY <1>1 DEF Rec!IInv, Rec!TypeOK
<1>6. thread'[Rec!R][d] = next /\ then' \in [Programs -> [Devices -> Rec!Places]]
  BY <1>1, <1>3, <1>4, RecPlaceMoves DEF Rec!IInv, Rec!TypeOK
<1> QED BY <1>1, <1>2, <1>3, <1>4, <1>5, <1>6, RecAfterStep

LEMMA RecRebootInv ==
  ASSUME Rec!OneProgram, Rec!IInv, NEW d \in Devices,
         Rec!Reboot(d) \/ Rec!WaitUntilFullyBooted(d) PROVE Rec!IInv'
<1>1. /\ Rec!R \in Programs /\ thread[Rec!R][d] \in {"reboot", "boot"}
      /\ UNCHANGED <<Rec!outside, blacklistFile, lock, main, mine, copy, seen, todo, noted, lines>>
  BY DEF Rec!Reboot, Rec!WaitUntilFullyBooted
<1>2. PICK next \in {"boot", "ended"} : (Rec!Goes(Rec!R, d, next) /\ UNCHANGED then) \/ Rec!Extend(Rec!R, d, next)
  BY DEF Rec!Reboot, Rec!WaitUntilFullyBooted
<1>3. d \in mine[Rec!R] /\ d \notin Rec!Writing(Rec!R) /\ main[Rec!R] = "recover" /\ next \in Rec!Places
  BY <1>1, RecPlaceTells DEF Rec!Writing, Rec!Places
<1>4. todo' \in [Programs -> SUBSET Devices] /\ todo'[Rec!R] \subseteq todo[Rec!R]
  BY <1>1 DEF Rec!IInv, Rec!TypeOK
<1>5. PICK to \in Rec!Places :
        /\ to \in {next, "extend"} /\ Rec!Goes(Rec!R, d, to) /\ thread'[Rec!R][d] = to
        /\ then' \in [Programs -> [Devices -> Rec!Places]]
        /\ \A e \in Devices : e # d => then'[Rec!R][e] = then[Rec!R][e]
        /\ to = "extend" => then'[Rec!R][d] = next
  BY <1>1, <1>2, <1>3, RecStepOrExtend
<1> QED BY <1>1, <1>2, <1>3, <1>4, <1>5, RecAfterStep

LEMMA RecStartRecoveryInv == ASSUME Rec!OneProgram, Rec!IInv, Rec!StartRecovery PROVE Rec!IInv'
<1>1. /\ Rec!R \in Programs /\ main[Rec!R] = "usb" /\ \A e \in mine[Rec!R] : thread[Rec!R][e] \in {"ended", "usb failed"}
      /\ main' = [main EXCEPT ![Rec!R] = "recover"]
      /\ thread' = [thread EXCEPT ![Rec!R] = [d \in Devices |-> IF d \in mine[Rec!R] THEN "check" ELSE "none"]]
      /\ UNCHANGED <<Rec!outside, blacklistFile, lock, mine, then, copy, seen, todo, noted, lines>>
  BY DEF Rec!StartRecovery
<1>2. main'[Rec!R] = "recover" /\ thread' \in [Programs -> [Devices -> Rec!Places]]
      /\ \A d \in Devices : thread'[Rec!R][d] = IF d \in mine[Rec!R] THEN "check" ELSE "none"
  BY <1>1 DEF Rec!IInv, Rec!TypeOK, Rec!Places
<1>3. Rec!TypeOK'
  BY <1>1, <1>2 DEF Rec!IInv, Rec!TypeOK, Rec!outside
<1>4. Rec!ThreadsArePlaced'
  <2>1. \A d \in Devices : ~Rec!Extends(Rec!R, d)' /\ Rec!At(Rec!R, d)' = IF d \in mine[Rec!R] THEN "check" ELSE "none"
    BY <1>2 DEF Rec!At, Rec!Extends
  <2>2. \A d \in Devices : Rec!Placed(Rec!R, d)'
    BY <2>1, <1>1, <1>2 DEF Rec!Placed
  <2> QED BY <2>2, <1>1, <1>2 DEF Rec!IInv, Rec!ThreadsArePlaced, Rec!OneProgram
<1>5. Rec!Writing(Rec!R) = {} /\ Rec!Writing(Rec!R)' = {}
  <2>1. \A d \in Devices : thread[Rec!R][d] \in {"none", "ended", "usb failed"}
    BY <1>1, RecPlaceTells
  <2> QED BY <2>1, <1>2 DEF Rec!Writing
<1>6. Rec!OneWrites' /\ Rec!TornIsWritten' /\ Rec!Listed(Rec!R)' = Rec!Listed(Rec!R)
  BY <1>1, <1>5, RecQuietKeeps
<1>7. Rec!ListIsKept'
  BY <1>1, <1>2, <1>6, RecAfterStatus
<1> QED BY <1>3, <1>4, <1>6, <1>7 DEF Rec!IInv

LEMMA RecRecoveryEndsInv == ASSUME Rec!OneProgram, Rec!IInv, Rec!RecoveryEnds PROVE Rec!IInv'
<1>1. /\ Rec!R \in Programs /\ main[Rec!R] = "recover" /\ Rec!Joined(Rec!R)
      /\ main' = [main EXCEPT ![Rec!R] = "done"]
      /\ UNCHANGED <<Rec!outside, blacklistFile, lock, mine, thread, then, copy, seen, todo, noted, lines>>
  BY DEF Rec!RecoveryEnds
<1>2. main'[Rec!R] = "done"
  BY <1>1 DEF Rec!IInv, Rec!TypeOK
<1>3. Rec!TypeOK'
  BY <1>1 DEF Rec!IInv, Rec!TypeOK, Rec!outside
<1>4. \A d \in Devices : thread[Rec!R][d] = IF d \in mine[Rec!R] THEN "ended" ELSE "none"
  <2> SUFFICES ASSUME NEW d \in Devices, d \notin mine[Rec!R] PROVE thread[Rec!R][d] = "none"
    BY <1>1 DEF Rec!Joined
  <2> QED BY <1>1, RecPlaceTells
<1>5. Rec!ThreadsArePlaced'
  <2>1. \A d \in Devices : ~Rec!Extends(Rec!R, d)' /\ Rec!At(Rec!R, d)' = IF d \in mine[Rec!R] THEN "ended" ELSE "none"
    BY <1>1, <1>4 DEF Rec!At, Rec!Extends
  <2>2. \A d \in Devices : Rec!Placed(Rec!R, d)'
    BY <2>1, <1>1, <1>2 DEF Rec!Placed
  <2> QED BY <2>2, <1>1, <1>2 DEF Rec!IInv, Rec!ThreadsArePlaced, Rec!OneProgram
<1>6. Rec!OneWrites' /\ Rec!TornIsWritten' /\ Rec!Listed(Rec!R)' = Rec!Listed(Rec!R)
  BY <1>1, RecQuietKeeps DEF Rec!Writing
<1>7. Rec!ListIsKept'
  BY <1>1, <1>2, <1>6, RecAfterStatus
<1> QED BY <1>3, <1>5, <1>6, <1>7 DEF Rec!IInv

LEMMA RecNextInv == ASSUME Rec!OneProgram PROVE Rec!IInv /\ [Rec!Next]_(Rec!vars) => Rec!IInv'
<1> SUFFICES ASSUME Rec!IInv, [Rec!Next]_(Rec!vars) PROVE Rec!IInv'
  OBVIOUS
<1>1. CASE \E p \in Programs, d \in Devices :
             Rec!BlacklistSteps(p, d) \/ Rec!BlacklistingDeviceStatus(p, d) \/ Rec!StatusOfDevice(p, d)
  BY <1>1, RecExtendReadsInv, RecTruncatesInv, RecFillsInv, RecLooksInv,
        RecStatusInv DEF Rec!BlacklistSteps
<1>2. CASE \E p \in Programs : Rec!Start(p)
  BY <1>2, RecStartInv
<1>3. CASE Rec!Report \/ Rec!Reset \/ Rec!StartRecovery \/ Rec!RecoveryEnds
  BY <1>3, RecReportInv, RecResetInv, RecStartRecoveryInv, RecRecoveryEndsInv
<1>4. CASE \E d \in Devices : Rec!ResetUsb(d) \/ Rec!RecoverDevice(d) \/ Rec!Reboot(d) \/ Rec!WaitUntilFullyBooted(d)
  BY <1>4, RecResetUsbInv, RecRecoverDeviceInv, RecRebootInv
<1>5. CASE UNCHANGED Rec!vars
  <2>1. Rec!TypeOK'
    BY <1>5 DEF Rec!vars, Rec!outside, Rec!IInv, Rec!TypeOK
  <2>2. Rec!ThreadsArePlaced'
    <3>1. \A p \in Programs, d \in Devices : Rec!Placed(p, d)'
      BY <1>5, RecPlacedStays DEF Rec!vars, Rec!At, Rec!Extends
    <3> QED BY <3>1, <1>5 DEF Rec!vars, Rec!IInv, Rec!ThreadsArePlaced
  <2>3. Rec!OneWrites' /\ Rec!TornIsWritten'
    BY <1>5 DEF Rec!vars, Rec!IInv, Rec!OneWrites, Rec!Writing, Rec!TornIsWritten
  <2>4. Rec!ListIsKept'
    BY <1>5 DEF Rec!vars, Rec!IInv, Rec!ListIsKept, Rec!Listed
  <2> QED BY <2>1, <2>2, <2>3, <2>4 DEF Rec!IInv
<1> QED BY <1>1, <1>2, <1>3, <1>4, <1>5 DEF Rec!Next

LEMMA RecInvSuffices ==
  ASSUME Rec!OneProgram, Rec!IInv
  PROVE  Rec!NotedAreListed /\ Rec!StatusIsTrue
<1> SUFFICES ASSUME NEW p \in Programs
             PROVE  /\ main[p] = "done" => noted[p] \subseteq blacklistFile.set
                    /\ main[p] = "status" /\ Rec!Joined(p) => seen[p] = blacklistFile.set \cap mine[p]
  BY DEF Rec!NotedAreListed, Rec!StatusIsTrue
<1>1. (\A d \in Devices : thread[p][d] # "write") => Rec!Listed(p) = blacklistFile.set
  BY DEF Rec!Listed
<1>2. ASSUME main[p] = "done" PROVE noted[p] \subseteq blacklistFile.set
  <2>1. \A d \in Devices : Rec!Placed(p, d)
    BY DEF Rec!IInv, Rec!ThreadsArePlaced
  <2>2. \A d \in Devices : thread[p][d] # "write"
    BY <1>2, <2>1 DEF Rec!Placed, Rec!Extends
  <2> QED BY <1>1, <2>2 DEF Rec!IInv, Rec!ListIsKept
<1>3. ASSUME main[p] = "status", Rec!Joined(p) PROVE seen[p] = blacklistFile.set \cap mine[p]
  <2>1. \A d \in Devices : thread[p][d] # "write"
    BY <1>3, RecPlaceTells DEF Rec!Joined
  <2>2. \A d \in mine[p] : d \in seen[p] <=> d \in blacklistFile.set
    BY <1>1, <1>3, <2>1 DEF Rec!IInv, Rec!ListIsKept, Rec!Joined
  <2> QED BY <2>2 DEF Rec!IInv, Rec!ListIsKept
<1> QED BY <1>2, <1>3

(* Only RecoverDevice decides to reboot, and it reads the list before.     *)
LEMMA RecGoesOne ==
  ASSUME Rec!IInv, NEW p \in Programs, NEW e \in Devices, NEW to, Rec!Goes(p, e, to),
         Rec!R \in Programs, NEW d \in Devices, p # Rec!R \/ e # d
  PROVE  thread'[Rec!R][d] = thread[Rec!R][d]
<1>1. thread \in [Programs -> [Devices -> Rec!Places]] /\ thread' = [thread EXCEPT ![p][e] = to]
  BY DEF Rec!IInv, Rec!TypeOK, Rec!Goes
<1> QED BY <1>1

LEMMA RecRebootsAreClean ==
  ASSUME Rec!OneProgram, Rec!IInv, [Rec!Next]_(Rec!vars)
  PROVE  Rec!RebootedAreClean
<1> SUFFICES ASSUME NEW d \in Devices, Rec!R \in Programs, thread[Rec!R][d] = "check", thread'[Rec!R][d] = "reboot"
             PROVE  d \notin noted[Rec!R]
  BY DEF Rec!RebootedAreClean
<1>1. ASSUME NEW p \in Programs, NEW e \in Devices,
             Rec!BlacklistSteps(p, e) \/ Rec!BlacklistingDeviceStatus(p, e) \/ Rec!StatusOfDevice(p, e)
      PROVE  FALSE
  <2>1. thread[p][e] \in {"extend", "truncate", "write", "look", "status"} /\ \E to : Rec!Goes(p, e, to)
    BY <1>1 DEF Rec!BlacklistSteps, Rec!ExtendReads, Rec!WriteTruncates, Rec!WriteFills,
          Rec!BlacklistingDeviceStatus,
                Rec!StatusOfDevice, Rec!Extend
  <2>2. p # Rec!R \/ e # d
    BY <2>1
  <2> QED BY <2>1, <2>2, RecGoesOne
<1>2. ASSUME NEW p \in Programs, Rec!Start(p) PROVE FALSE
  <2>1. thread' = [thread EXCEPT ![p] = [e \in Devices |-> IF e \in Rec!GetDevices THEN "look" ELSE "none"]]
    BY <1>2 DEF Rec!Start
  <2> QED BY <2>1 DEF Rec!IInv, Rec!TypeOK
<1>3. CASE Rec!Report \/ Rec!Reset \/ Rec!RecoveryEnds \/ UNCHANGED Rec!vars
  <2>1. thread' = thread
    BY <1>3 DEF Rec!Report, Rec!Reset, Rec!RecoveryEnds, Rec!vars
  <2> QED BY <2>1
<1>4. CASE Rec!StartRecovery
  <2>1. thread' = [thread EXCEPT ![Rec!R] = [e \in Devices |-> IF e \in mine[Rec!R] THEN "check" ELSE "none"]]
    BY <1>4 DEF Rec!StartRecovery
  <2> QED BY <2>1 DEF Rec!IInv, Rec!TypeOK
<1>5. ASSUME NEW e \in Devices, Rec!ResetUsb(e) PROVE FALSE
  <2>1. thread' = thread \/ Rec!Goes(Rec!R, e, "extend")
    BY <1>5 DEF Rec!ResetUsb, Rec!Extend
  <2>2. CASE Rec!Goes(Rec!R, e, "extend")
    <3>1. CASE e = d
      <4>1. thread' = [thread EXCEPT ![Rec!R][e] = "extend"] /\ thread \in [Programs -> [Devices -> Rec!Places]]
        BY <2>2 DEF Rec!Goes, Rec!IInv, Rec!TypeOK
      <4>2. thread'[Rec!R][d] = "extend"
        BY <3>1, <4>1
      <4> QED BY <4>2
    <3>2. CASE e # d
      BY <2>2, <3>2, RecGoesOne
    <3> QED BY <3>1, <3>2
  <2> QED BY <2>1, <2>2
<1>6. ASSUME NEW e \in Devices, Rec!Reboot(e) \/ Rec!WaitUntilFullyBooted(e) PROVE FALSE
  <2>1. thread[Rec!R][e] \in {"reboot", "boot"} /\ \E to : Rec!Goes(Rec!R, e, to)
    BY <1>6 DEF Rec!Reboot, Rec!WaitUntilFullyBooted, Rec!Extend
  <2>2. e # d
    BY <2>1
  <2> QED BY <2>1, <2>2, RecGoesOne
<1>7. ASSUME NEW e \in Devices, Rec!RecoverDevice(e) PROVE d \notin noted[Rec!R]
  <2>1. /\ ~lock[Rec!R]
        /\ Rec!Goes(Rec!R, e, IF Rec!SkipsRecovery(e) \/ ~Rec!ShouldReboot(Rec!R, e) THEN "ended" ELSE "reboot")
    BY <1>7 DEF Rec!RecoverDevice
  <2>2. e = d
    BY <2>1, RecGoesOne
  <2>3. ~Rec!SkipsRecovery(d)
    <3>1. SUFFICES ASSUME Rec!SkipsRecovery(d) PROVE FALSE
      OBVIOUS
    <3>2. thread' = [thread EXCEPT ![Rec!R][d] = "ended"] /\ thread \in [Programs -> [Devices -> Rec!Places]]
      BY <2>1, <2>2, <3>1 DEF Rec!Goes, Rec!IInv, Rec!TypeOK
    <3>3. thread'[Rec!R][d] = "ended"
      BY <3>2
    <3> QED BY <3>3
  <2>4. Rec!Listed(Rec!R) = blacklistFile.set
    BY <2>1, RecReadIsFile DEF Rec!Listed, Rec!Writing
  <2> QED BY <2>3, <2>4 DEF Rec!SkipsRecovery, Rec!IsBlacklisted, Rec!IInv, Rec!ListIsKept
<1> QED BY <1>1, <1>2, <1>3, <1>4, <1>5, <1>6, <1>7 DEF Rec!Next

-----------------------------------------------------------------------------
(* Provisioning: its steps, and the inductive invariant.                   *)

(* Sequences of commands.                                                  *)
LEMMA ProvTripleIs ==
  ASSUME NEW S, NEW a \in S, NEW b \in S, NEW c \in S
  PROVE  Len(<<a, b, c>>) = 3 /\ <<a, b, c>>[1] = a
OBVIOUS

LEMMA ProvElementsAre ==
  ASSUME NEW S, NEW s \in Seq(S) PROVE \A i \in 1..Len(s) : s[i] \in S
OBVIOUS

LEMMA ProvSeqGrows ==
  ASSUME NEW S, NEW T, S \subseteq T, NEW s \in Seq(S) PROVE s \in Seq(T)
OBVIOUS

LEMMA ProvTailIs ==
  ASSUME NEW S, NEW s \in Seq(S), s # <<>>
  PROVE  /\ Tail(s) \in Seq(S) /\ Len(s) \in Nat \ {0} /\ Len(Tail(s)) = Len(s) - 1
         /\ \A i \in 1..Len(Tail(s)) : Tail(s)[i] = s[i + 1]
         /\ Head(s) = s[1] /\ Head(s) \in S
OBVIOUS

LEMMA ProvTailKeeps ==
  ASSUME NEW s \in Seq(Prov!Commands), s # <<>>
  PROVE  /\ \A do : Prov!Has(s, do) <=> Head(s).do = do \/ Prov!Has(Tail(s), do)
         /\ Prov!EndsInReboot(s) /\ Head(s).do # "reboot" => Prov!EndsInReboot(Tail(s))
         /\ Prov!WellFormed(s, options) => Prov!WellFormed(Tail(s), options)
<1> DEFINE t == Tail(s)
<1>1. /\ t \in Seq(Prov!Commands) /\ Len(s) \in Nat \ {0} /\ Len(t) = Len(s) - 1
      /\ \A i \in 1..Len(t) : t[i] = s[i + 1]
      /\ Head(s) = s[1]
  BY ProvTailIs
<1> HIDE DEF t
<1>2. \A do : Prov!Has(s, do) <=> Head(s).do = do \/ Prov!Has(t, do)
  <2> SUFFICES ASSUME NEW do PROVE Prov!Has(s, do) <=> s[1].do = do \/ Prov!Has(t, do)
    BY <1>1
  <2>1. ASSUME NEW i \in 1..Len(s), s[i].do = do PROVE s[1].do = do \/ Prov!Has(t, do)
    <3>1. CASE i = 1
      BY <2>1, <3>1
    <3>2. CASE i # 1
      <4>1. (i - 1) \in 1..Len(t) /\ t[i - 1] = s[i]
        BY <1>1, <3>2
      <4> QED BY <2>1, <4>1 DEF Prov!Has
    <3> QED BY <3>1, <3>2
  <2>2. ASSUME NEW i \in 1..Len(t), t[i].do = do PROVE Prov!Has(s, do)
    <3>1. (i + 1) \in 1..Len(s) /\ s[i + 1] = t[i]
      BY <1>1
    <3> QED BY <2>2, <3>1 DEF Prov!Has
  <2>3. 1 \in 1..Len(s)
    BY <1>1
  <2> QED BY <2>1, <2>2, <2>3 DEF Prov!Has
<1>3. Prov!EndsInReboot(s) /\ s[1].do # "reboot" => Prov!EndsInReboot(t)
  <2> SUFFICES ASSUME Prov!EndsInReboot(s), s[1].do # "reboot" PROVE Prov!EndsInReboot(t)
    OBVIOUS
  <2>1. Len(s) # 1
    BY DEF Prov!EndsInReboot
  <2>2. Len(t) \in 1..Len(t) /\ t[Len(t)] = s[Len(s)] /\ t # <<>>
    BY <1>1, <2>1
  <2> QED BY <2>2 DEF Prov!EndsInReboot
<1>4. ASSUME Prov!WellFormed(s, options) PROVE Prov!WellFormed(t, options)
  <2>1. ASSUME NEW i \in 1..Len(t), t[i].do = "stop" PROVE \E j \in (i + 1)..Len(t) : t[j].do = "start"
    <3>1. (i + 1) \in 1..Len(s) /\ s[i + 1].do = "stop"
      BY <1>1, <2>1
    <3>2. PICK j \in ((i + 1) + 1)..Len(s) : s[j].do = "start"
      BY <1>4, <3>1 DEF Prov!WellFormed
    <3>3. (j - 1) \in (i + 1)..Len(t) /\ t[j - 1] = s[j]
      BY <1>1, <3>2
    <3> QED BY <3>2, <3>3
  <2>2. ASSUME NEW do, do # "reboot", Prov!Has(s, do) => Prov!EndsInReboot(s) PROVE Prov!Has(t, do) => Prov!EndsInReboot(t)
    <3> SUFFICES ASSUME Prov!Has(t, do) PROVE Prov!EndsInReboot(t)
      OBVIOUS
    <3>1. PICK i \in 1..Len(t) : t[i].do = do
      BY DEF Prov!Has
    <3>2. s[Len(s)].do = "reboot"
      BY <1>2, <2>2 DEF Prov!EndsInReboot
    <3>3. t # <<>> /\ t[Len(t)] = s[Len(s)]
      BY <1>1, <3>1
    <3> QED BY <3>2, <3>3 DEF Prov!EndsInReboot
  <2>3. ASSUME NEW i \in 1..Len(t), t[i].fails = "step"
        PROVE  \A do \in {"local properties", "settings", "date", "remove", "start"} : ~Prov!Has(t, do)
    <3>1. (i + 1) \in 1..Len(s) /\ s[i + 1].fails = "step"
      BY <1>1, <2>3
    <3>2. \A do \in {"local properties", "settings", "date", "remove", "start"} : ~Prov!Has(s, do)
      BY <1>4, <3>1 DEF Prov!WellFormed
    <3> QED BY <1>2, <3>2
  <2> QED BY <1>4, <2>1, <2>2, <2>3 DEF Prov!WellFormed
<1> QED BY <1>1, <1>2, <1>3, <1>4 DEF t

LEMMA ProvConcatIs ==
  ASSUME NEW S, NEW s \in Seq(S), NEW t \in Seq(S)
  PROVE  /\ s \o t \in Seq(S) /\ Len(s \o t) = Len(s) + Len(t)
         /\ Len(s) \in Nat /\ Len(t) \in Nat
         /\ \A i \in 1..Len(s) : (s \o t)[i] = s[i]
         /\ \A j \in 1..Len(t) : (s \o t)[Len(s) + j] = t[j]
OBVIOUS

LEMMA ProvConcatHas ==
  ASSUME NEW s \in Seq(Prov!Commands), NEW t \in Seq(Prov!Commands)
  PROVE  /\ \A do : Prov!Has(s, do) \/ Prov!Has(t, do) => Prov!Has(s \o t, do)
         /\ Prov!EndsInReboot(t) => Prov!EndsInReboot(s \o t)
<1>1. /\ s \o t \in Seq(Prov!Commands) /\ Len(s \o t) = Len(s) + Len(t)
      /\ Len(s) \in Nat /\ Len(t) \in Nat
      /\ \A i \in 1..Len(s) : (s \o t)[i] = s[i]
      /\ \A j \in 1..Len(t) : (s \o t)[Len(s) + j] = t[j]
  BY ProvConcatIs
<1> DEFINE u == s \o t
<1> HIDE DEF u
<1>2. /\ u \in Seq(Prov!Commands) /\ Len(u) = Len(s) + Len(t)
      /\ \A i \in 1..Len(s) : u[i] = s[i] /\ i \in 1..Len(u)
      /\ \A j \in 1..Len(t) : u[Len(s) + j] = t[j] /\ (Len(s) + j) \in 1..Len(u)
  BY <1>1 DEF u
<1>3. \A do : Prov!Has(s, do) \/ Prov!Has(t, do) => Prov!Has(u, do)
  BY <1>2 DEF Prov!Has
<1>4. Prov!EndsInReboot(t) => Prov!EndsInReboot(u)
  <2> SUFFICES ASSUME Prov!EndsInReboot(t) PROVE Prov!EndsInReboot(u)
    OBVIOUS
  <2>1. Len(t) \in 1..Len(t)
    BY <1>1 DEF Prov!EndsInReboot
  <2>2. u[Len(u)] = t[Len(t)] /\ Len(u) # 0
    BY <1>1, <1>2, <2>1
  <2> QED BY <1>2, <2>2 DEF Prov!EndsInReboot
<1> QED BY <1>3, <1>4 DEF u

(* What is stopped is started.                                             *)
ProvStopsStart(cmds) ==
  \A i \in 1..Len(cmds) : cmds[i].do = "stop" => \E j \in (i + 1)..Len(cmds) : cmds[j].do = "start"

LEMMA ProvConcatStops ==
  ASSUME NEW s \in Seq(Prov!Commands), NEW t \in Seq(Prov!Commands), ProvStopsStart(s),
         ProvStopsStart(t)
  PROVE  ProvStopsStart(s \o t)
<1> DEFINE u == s \o t
<1>1. /\ Len(u) = Len(s) + Len(t) /\ Len(s) \in Nat /\ Len(t) \in Nat
      /\ \A i \in 1..Len(s) : u[i] = s[i]
      /\ \A j \in 1..Len(t) : u[Len(s) + j] = t[j]
  BY ProvConcatIs
<1> HIDE DEF u
<1>2. ASSUME NEW i \in 1..Len(u), u[i].do = "stop" PROVE \E j \in (i + 1)..Len(u) : u[j].do = "start"
  <2>1. CASE i <= Len(s)
    <3>1. i \in 1..Len(s)
      BY <1>1, <2>1
    <3>2. PICK j \in (i + 1)..Len(s) : s[j].do = "start"
      BY <1>1, <1>2, <3>1 DEF ProvStopsStart
    <3>3. j \in 1..Len(s) /\ j \in (i + 1)..Len(u)
      BY <1>1, <3>1
    <3> QED BY <1>1, <3>2, <3>3
  <2>2. CASE i > Len(s)
    <3>1. (i - Len(s)) \in 1..Len(t) /\ Len(s) + (i - Len(s)) = i
      BY <1>1, <2>2
    <3>2. t[i - Len(s)].do = "stop"
      BY <1>1, <1>2, <3>1
    <3>3. PICK j \in ((i - Len(s)) + 1)..Len(t) : t[j].do = "start"
      BY <3>1, <3>2 DEF ProvStopsStart
    <3>4. j \in 1..Len(t) /\ (Len(s) + j) \in (i + 1)..Len(u)
      BY <1>1, <3>1, <3>3
    <3> QED BY <1>1, <3>3, <3>4
  <2> QED BY <1>1, <2>1, <2>2
<1> QED BY <1>2 DEF ProvStopsStart, u

LEMMA ProvOpIsCommand ==
  ASSUME NEW do \in Prov!Names
  PROVE  /\ Prov!Op(do) \in Prov!Commands /\ Prov!Op(do).do = do /\ Prov!Op(do).fails = "thread"
         /\ do \notin Prov!Needed => Prov!OpOfStep(do) \in Prov!Commands /\ Prov!OpIgnored(do) \in Prov!Commands
         /\ Prov!OpOfStep(do).do = do /\ Prov!OpIgnored(do).do = do
         /\ Prov!OpIgnored(do).fails = "nothing"
BY DEF Prov!Op, Prov!OpOfStep, Prov!OpIgnored, Prov!Commands

LEMMA ProvShortSeqs ==
  ASSUME NEW S
  PROVE  /\ <<>> \in Seq(S)
         /\ \A c \in S : <<c>> \in Seq(S) /\ Len(<<c>>) = 1
         /\ \A c, d \in S : <<c, d>> \in Seq(S)
         /\ \A c, d, e \in S : <<c, d, e>> \in Seq(S)
         /\ \A c, d, e, f \in S : <<c, d, e, f>> \in Seq(S)
OBVIOUS

LEMMA ProvConcatStays ==
  ASSUME NEW S, NEW s \in Seq(S), NEW t \in Seq(S), NEW u \in Seq(S)
  PROVE  /\ s \o t \in Seq(S) /\ (s \o t) \o u \in Seq(S)
         /\ Len(s) >= 1 => (s \o t) \o u # <<>>
<1>1. s \o t \in Seq(S) /\ Len(s \o t) = Len(s) + Len(t) /\ Len(s) \in Nat /\ Len(t) \in Nat
  BY ProvConcatIs
<1>2. (s \o t) \o u \in Seq(S) /\ Len((s \o t) \o u) = Len(s \o t) + Len(u) /\ Len(u) \in Nat
  BY <1>1, ProvConcatIs
<1>3. Len(s) >= 1 => Len((s \o t) \o u) # 0
  BY <1>1, <1>2
<1> QED BY <1>1, <1>2, <1>3

(* A step of commands of one kind.                                         *)
LEMMA ProvStepIs ==
  ASSUME NEW S, S \subseteq Prov!Commands, Prov!Op("boot") \in S, Prov!Op("reboot") \in S,
         NEW cmds \in Seq(S), NEW reboot \in BOOLEAN
  PROVE  \E s \in Seq(S) \ {<<>>} :
           /\ Prov!ProvisionStep(cmds, reboot) = <<s>>
           /\ \A do : Prov!Has(cmds, do) => Prov!Has(s, do)
           /\ reboot => Prov!EndsInReboot(s)
           /\ ProvStopsStart(cmds) => ProvStopsStart(s)
<1> DEFINE b == <<Prov!Op("boot")>>
           r == IF reboot THEN <<Prov!Op("reboot")>> ELSE <<>>
           s == (b \o cmds) \o r
<1>1. b \in Seq(S) /\ Len(b) = 1 /\ r \in Seq(S)
  BY ProvShortSeqs
<1>2. ProvStopsStart(b) /\ ProvStopsStart(r) /\ (reboot => Prov!EndsInReboot(r))
  BY DEF ProvStopsStart, Prov!EndsInReboot, Prov!Op
<1>3. Prov!ProvisionStep(cmds, reboot) = <<s>>
  BY DEF Prov!ProvisionStep
<1> HIDE DEF b, r
<1>4. s \in Seq(S) /\ s # <<>>
  <2>1. Len(b) >= 1
    BY <1>1
  <2> HIDE DEF s
  <2>2. (b \o cmds) \o r \in Seq(S) /\ (b \o cmds) \o r # <<>>
    BY <1>1, <2>1, ProvConcatStays
  <2> QED BY <2>2 DEF s
<1>5. cmds \in Seq(Prov!Commands) /\ b \in Seq(Prov!Commands) /\ r \in Seq(Prov!Commands)
  BY <1>1, ProvSeqGrows
<1>6. b \o cmds \in Seq(Prov!Commands)
  BY <1>5, ProvConcatStays
<1>7. \A do : Prov!Has(cmds, do) => Prov!Has(s, do)
  <2>1. \A do : Prov!Has(cmds, do) => Prov!Has(b \o cmds, do)
    BY <1>5, ProvConcatHas
  <2>2. \A do : Prov!Has(b \o cmds, do) => Prov!Has(s, do)
    BY <1>5, <1>6, ProvConcatHas
  <2> QED BY <2>1, <2>2
<1>8. reboot => Prov!EndsInReboot(s)
  BY <1>2, <1>5, <1>6, ProvConcatHas
<1>9. ProvStopsStart(cmds) => ProvStopsStart(s)
  BY <1>2, <1>5, <1>6, ProvConcatStops
<1> QED BY <1>3, <1>4, <1>7, <1>8, <1>9

(* The steps with which a device begins.                                   *)
ProvPlain == {c \in Prov!Commands : c.fails # "step" /\ c.do \notin {"stop", "wipe", "local properties"}}

ProvCalm == {c \in Prov!Commands : c.fails # "step" /\ c.do \notin {"wipe", "local properties"}}

ProvSetting == {c \in Prov!Commands : c.fails # "step" /\ c.do \notin {"stop", "wipe"}}

ProvWiping == {c \in Prov!Commands : c.do \notin {"stop", "local properties", "settings", "date", "remove", "start"}}

LEMMA ProvCalmIsWellFormed ==
  ASSUME NEW s \in Seq(ProvCalm), ProvStopsStart(s)
  PROVE  s \in Seq(Prov!Commands) /\ Prov!WellFormed(s, options) /\ ~Prov!Has(s, "wipe")
<1>1. \A i \in 1..Len(s) : s[i] \in ProvCalm
  BY ProvElementsAre
<1>2. ProvCalm \subseteq Prov!Commands /\ \A c \in ProvCalm : c.fails # "step" /\ c.do \notin {"wipe", "local properties"}
  BY DEF ProvCalm
<1>3. s \in Seq(Prov!Commands)
  BY <1>2, ProvSeqGrows
<1> QED BY <1>1, <1>2, <1>3 DEF Prov!WellFormed, Prov!Has, ProvStopsStart

LEMMA ProvPlainIsCalm ==
  ASSUME NEW s \in Seq(ProvPlain)
  PROVE  s \in Seq(ProvCalm) /\ ProvStopsStart(s)
<1>1. \A i \in 1..Len(s) : s[i] \in ProvPlain
  BY ProvElementsAre
<1>2. ProvPlain \subseteq ProvCalm /\ \A c \in ProvPlain : c.do # "stop"
  BY DEF ProvPlain, ProvCalm
<1>3. s \in Seq(ProvCalm)
  BY <1>2, ProvSeqGrows
<1> QED BY <1>1, <1>2, <1>3 DEF ProvStopsStart

LEMMA ProvSettingIsWellFormed ==
  ASSUME NEW s \in Seq(ProvSetting), options.emulators \/ Prov!EndsInReboot(s)
  PROVE  s \in Seq(Prov!Commands) /\ Prov!WellFormed(s, options) /\ ~Prov!Has(s, "wipe")
<1>1. \A i \in 1..Len(s) : s[i] \in ProvSetting
  BY ProvElementsAre
<1>2. ProvSetting \subseteq Prov!Commands /\ \A c \in ProvSetting : c.fails # "step" /\ c.do \notin {"stop", "wipe"}
  BY DEF ProvSetting
<1>3. s \in Seq(Prov!Commands)
  BY <1>2, ProvSeqGrows
<1> QED BY <1>1, <1>2, <1>3 DEF Prov!WellFormed, Prov!Has

LEMMA ProvWipingIsWellFormed ==
  ASSUME NEW s \in Seq(ProvWiping),
         Prov!EndsInReboot(s) PROVE s \in Seq(Prov!Commands) /\ Prov!WellFormed(s, options)
<1>1. \A i \in 1..Len(s) : s[i] \in ProvWiping
  BY ProvElementsAre
<1>2. ProvWiping \subseteq Prov!Commands
      /\ \A c \in ProvWiping : c.do \notin {"stop", "local properties", "settings", "date", "remove", "start"}
  BY DEF ProvWiping
<1>3. s \in Seq(Prov!Commands)
  BY <1>2, ProvSeqGrows
<1> QED BY <1>1, <1>2, <1>3 DEF Prov!WellFormed, Prov!Has

(* A step that comes later: nothing is wiped in it.                        *)
ProvLater == {s \in Seq(Prov!Commands) : s # <<>> /\ Prov!WellFormed(s, options) /\ ~Prov!Has(s, "wipe")}

LEMMA ProvOpsOfKinds ==
  /\ \A do \in Prov!Names \ {"stop", "wipe", "local properties"} : Prov!Op(do) \in ProvPlain
  /\ \A do \in Prov!Names \ {"wipe", "local properties"} : Prov!Op(do) \in ProvCalm
  /\ \A do \in Prov!Names \ {"stop", "wipe"} : Prov!Op(do) \in ProvSetting
  /\ Prov!OpIgnored("root") \in ProvSetting
  /\ Prov!OpIgnored("local properties") \in ProvSetting
  /\ \A do \in Prov!Names \ (Prov!Needed \cup {"local properties"}) : Prov!OpOfStep(do) \in ProvWiping
  /\ Prov!OpIgnored("find keys") \in ProvWiping
  /\ Prov!OpIgnored("cool") \in ProvPlain /\ Prov!Op("boot") \in ProvWiping
  /\ Prov!Op("reboot") \in ProvWiping
<1>1. \A do \in Prov!Names : Prov!Op(do) \in Prov!Commands /\ Prov!Op(do).do = do /\ Prov!Op(do).fails = "thread"
  BY ProvOpIsCommand
<1>2. \A do \in Prov!Names \ Prov!Needed :
        /\ Prov!OpOfStep(do) \in Prov!Commands /\ Prov!OpOfStep(do).do = do
        /\ Prov!OpIgnored(do) \in Prov!Commands /\ Prov!OpIgnored(do).do = do
        /\ Prov!OpIgnored(do).fails = "nothing"
  BY ProvOpIsCommand
<1>3. /\ "root" \in Prov!Names \ Prov!Needed /\ "local properties" \in Prov!Names \ Prov!Needed
      /\ "cool" \in Prov!Names \ Prov!Needed /\ "find keys" \in Prov!Names \ Prov!Needed
      /\ "boot" \in Prov!Names /\ "reboot" \in Prov!Names
  BY DEF Prov!Names, Prov!Needed
<1>4. /\ \A do \in Prov!Names \ {"stop", "wipe", "local properties"} : Prov!Op(do) \in ProvPlain
      /\ \A do \in Prov!Names \ {"wipe", "local properties"} : Prov!Op(do) \in ProvCalm
      /\ \A do \in Prov!Names \ {"stop", "wipe"} : Prov!Op(do) \in ProvSetting
  BY <1>1 DEF ProvPlain, ProvCalm, ProvSetting
<1>5. Prov!OpIgnored("root") \in ProvSetting /\ Prov!OpIgnored("local properties") \in ProvSetting
  BY <1>2, <1>3 DEF ProvSetting
<1>6. \A do \in Prov!Names \ (Prov!Needed \cup {"local properties"}) : Prov!OpOfStep(do) \in ProvWiping
  <2> HIDE DEF Prov!Names
  <2>1. ASSUME NEW do \in Prov!Names, do \notin Prov!Needed, do # "local properties"
        PROVE  Prov!OpOfStep(do) \in ProvWiping
    <3>1. do \notin {"stop", "local properties", "settings", "date", "remove", "start"}
      BY <2>1 DEF Prov!Needed
    <3> QED BY <1>2, <2>1, <3>1 DEF ProvWiping
  <2> QED BY <2>1
<1>7. Prov!OpIgnored("cool") \in ProvPlain
  BY <1>2, <1>3 DEF ProvPlain
<1>8. Prov!Op("boot") \in ProvWiping /\ Prov!Op("reboot") \in ProvWiping
  BY <1>1, <1>3 DEF ProvWiping
<1>9. Prov!OpIgnored("find keys") \in ProvWiping
  BY <1>2, <1>3 DEF ProvWiping
<1> QED BY <1>4, <1>5, <1>6, <1>7, <1>8, <1>9

LEMMA ProvPlainStep ==
  ASSUME NEW cmds \in Seq(ProvPlain)
  PROVE  \E s \in ProvLater : Prov!ProvisionStep(cmds, FALSE) = <<s>> /\ \A do : Prov!Has(cmds, do) => Prov!Has(s, do)
<1>1. ProvPlain \subseteq Prov!Commands /\ Prov!Op("boot") \in ProvPlain /\ Prov!Op("reboot") \in ProvPlain
  BY ProvOpsOfKinds DEF ProvPlain, Prov!Names
<1>2. PICK s \in Seq(ProvPlain) \ {<<>>} :
        Prov!ProvisionStep(cmds, FALSE) = <<s>> /\ \A do : Prov!Has(cmds, do) => Prov!Has(s, do)
  BY <1>1, ProvStepIs
<1>3. s \in ProvLater
  BY <1>2, ProvPlainIsCalm, ProvCalmIsWellFormed DEF ProvLater
<1> QED BY <1>2, <1>3

LEMMA ProvRemoveStep ==
  ASSUME NEW k
  PROVE  \E s \in ProvLater : Prov!ProvisionStep(Prov!RemoveSystemApps(k), FALSE) = <<s>> /\ Prov!Has(s, "remove")
<1> DEFINE v == IF k.marshmallow THEN <<Prov!Op("verity"), Prov!Op("reboot"), Prov!Op("root")>> ELSE <<>>
           w == <<Prov!Op("remount"), Prov!Op("stop"), Prov!Op("remove"), Prov!Op("start")>>
           a == <<Prov!Op("root")>> \o v
<1>1. /\ Prov!Op("verity") \in ProvPlain /\ Prov!Op("reboot") \in ProvPlain
      /\ Prov!Op("root") \in ProvPlain
      /\ Prov!Op("remount") \in ProvCalm /\ Prov!Op("stop") \in ProvCalm
      /\ Prov!Op("remove") \in ProvCalm /\ Prov!Op("start") \in ProvCalm
      /\ Prov!Op("boot") \in ProvCalm /\ Prov!Op("reboot") \in ProvCalm
  BY ProvOpsOfKinds DEF Prov!Names
<1>2. <<Prov!Op("root")>> \in Seq(ProvPlain) /\ v \in Seq(ProvPlain)
  BY <1>1, ProvShortSeqs
<1>3. a \in Seq(ProvPlain)
  BY <1>2, ProvConcatIs
<1>4. a \in Seq(ProvCalm) /\ ProvStopsStart(a)
  BY <1>3, ProvPlainIsCalm
<1>5. w \in Seq(ProvCalm) /\ Len(w) = 4 /\ w[1] = Prov!Op("remount") /\ w[2] = Prov!Op("stop")
      /\ w[3] = Prov!Op("remove") /\ w[4] = Prov!Op("start")
  BY <1>1
<1> HIDE DEF a, w
<1>6. ProvStopsStart(w) /\ Prov!Has(w, "remove")
  <2>1. Prov!Op("remount").do # "stop" /\ Prov!Op("remove").do = "remove" /\ Prov!Op("start").do = "start"
    BY DEF Prov!Op
  <2>2. \A i \in 1..4 : w[i].do = "stop" => 4 \in (i + 1)..4
    BY <1>5, <2>1
  <2>3. 3 \in 1..4
    OBVIOUS
  <2> QED BY <1>5, <2>1, <2>2, <2>3 DEF ProvStopsStart, Prov!Has
<1>7. ProvCalm \subseteq Prov!Commands
  BY DEF ProvCalm
<1>8. a \in Seq(Prov!Commands) /\ w \in Seq(Prov!Commands)
  BY <1>4, <1>5, <1>7, ProvSeqGrows
<1>9. a \o w \in Seq(ProvCalm) /\ ProvStopsStart(a \o w) /\ Prov!Has(a \o w, "remove")
  <2>1. a \o w \in Seq(ProvCalm)
    BY <1>4, <1>5, ProvConcatIs
  <2>2. ProvStopsStart(a \o w)
    BY <1>4, <1>6, <1>8, ProvConcatStops
  <2>3. Prov!Has(a \o w, "remove")
    BY <1>6, <1>8, ProvConcatHas
  <2> QED BY <2>1, <2>2, <2>3
<1>10. Prov!RemoveSystemApps(k) = a \o w
  BY DEF Prov!RemoveSystemApps, a, w
<1>11. PICK s \in Seq(ProvCalm) \ {<<>>} :
         /\ Prov!ProvisionStep(a \o w, FALSE) = <<s>> /\ ProvStopsStart(s)
         /\ Prov!Has(s, "remove")
  BY <1>1, <1>7, <1>9, ProvStepIs
<1>12. s \in ProvLater
  BY <1>11, ProvCalmIsWellFormed DEF ProvLater
<1> QED BY <1>10, <1>11, <1>12

LEMMA ProvSettingStep ==
  ASSUME NEW k, options.emulators \in BOOLEAN
  PROVE  \E s \in ProvLater :
           Prov!ProvisionStep(Prov!SetProperties(k), ~options.emulators) = <<s>> /\ Prov!SetsAll(s, k)
<1> DEFINE l == IF k.user THEN <<>> ELSE <<Prov!OpIgnored("local properties")>>
           w == <<Prov!Op("settings"), Prov!Op("lock screen")>>
           a == <<Prov!OpIgnored("root")>> \o l
<1>1. /\ Prov!OpIgnored("root") \in ProvSetting
      /\ Prov!OpIgnored("local properties") \in ProvSetting
      /\ Prov!Op("settings") \in ProvSetting /\ Prov!Op("lock screen") \in ProvSetting
      /\ Prov!Op("boot") \in ProvSetting /\ Prov!Op("reboot") \in ProvSetting
  BY ProvOpsOfKinds DEF Prov!Names, Prov!Needed
<1>2. <<Prov!OpIgnored("root")>> \in Seq(ProvSetting) /\ l \in Seq(ProvSetting) /\ w \in Seq(ProvSetting)
  BY <1>1, ProvShortSeqs
<1>3. Prov!Has(w, "settings")
  <2>1. w[1].do = "settings" /\ 1 \in 1..Len(w)
    BY DEF Prov!Op
  <2> QED BY <2>1 DEF Prov!Has
<1>4. Prov!SetProperties(k) = a \o w
  BY DEF Prov!SetProperties
<1>10. k.user \/ Prov!Has(l, "local properties")
  <2> SUFFICES ASSUME ~k.user PROVE Prov!Has(l, "local properties")
    OBVIOUS
  <2>1. PICK p \in ProvSetting : p = Prov!OpIgnored("local properties") /\ p.do = "local properties"
    BY <1>1 DEF Prov!OpIgnored
  <2>2. l = <<p>>
    BY <2>1
  <2>3. Len(<<p>>) = 1 /\ <<p>>[1] = p /\ 1 \in 1..1
    OBVIOUS
  <2> QED BY <2>1, <2>2, <2>3 DEF Prov!Has
<1> HIDE DEF l, w
<1>5. a \in Seq(ProvSetting) /\ a \o w \in Seq(ProvSetting)
  BY <1>2, ProvConcatStays
<1>6. ProvSetting \subseteq Prov!Commands
  BY DEF ProvSetting
<1>11. k.user \/ Prov!Has(a, "local properties")
  <2>1. <<Prov!OpIgnored("root")>> \in Seq(Prov!Commands) /\ l \in Seq(Prov!Commands)
    BY <1>2, <1>6, ProvSeqGrows
  <2> QED BY <1>10, <2>1, ProvConcatHas
<1> HIDE DEF a
<1>7. Prov!Has(a \o w, "settings") /\ (k.user \/ Prov!Has(a \o w, "local properties"))
  <2>1. a \in Seq(Prov!Commands) /\ w \in Seq(Prov!Commands)
    BY <1>2, <1>5, <1>6, ProvSeqGrows
  <2> QED BY <1>3, <1>11, <2>1, ProvConcatHas
<1>8. PICK s \in Seq(ProvSetting) \ {<<>>} :
        /\ Prov!ProvisionStep(a \o w, ~options.emulators) = <<s>>
        /\ Prov!Has(s, "settings") /\ (k.user \/ Prov!Has(s, "local properties"))
        /\ ~options.emulators => Prov!EndsInReboot(s)
  BY <1>1, <1>5, <1>6, <1>7, ProvStepIs
<1>9. s \in ProvLater
  BY <1>8, ProvSettingIsWellFormed DEF ProvLater
<1> QED BY <1>4, <1>8, <1>9 DEF Prov!SetsAll

LEMMA ProvWipeStep ==
  ASSUME NEW k
  PROVE  \E s \in Seq(Prov!Commands) \ {<<>>} : Prov!ProvisionStep(Prov!Wipe(k), TRUE) = <<s>> /\ Prov!WellFormed(s, options)
<1>1. /\ Prov!OpOfStep("uninstall") \in ProvWiping /\ Prov!OpOfStep("rm") \in ProvWiping
      /\ Prov!OpOfStep("root") \in ProvWiping /\ Prov!OpIgnored("find keys") \in ProvWiping
      /\ Prov!OpOfStep("read keys") \in ProvWiping /\ Prov!OpOfStep("wipe") \in ProvWiping
      /\ Prov!OpOfStep("keys") \in ProvWiping
      /\ Prov!Op("boot") \in ProvWiping /\ Prov!Op("reboot") \in ProvWiping
  BY ProvOpsOfKinds DEF Prov!Names, Prov!Needed
<1>2. Prov!WipeChromeData \in Seq(ProvWiping)
  BY <1>1, ProvShortSeqs DEF Prov!WipeChromeData
<1>3. Prov!WipeDevice(k) \in Seq(ProvWiping)
  <2> DEFINE a == <<Prov!OpOfStep("root"), Prov!OpIgnored("find keys"), Prov!OpOfStep("read keys"),
                    Prov!OpOfStep("wipe")>>
             b == IF k.secure THEN <<Prov!OpOfStep("keys")>> ELSE <<>>
  <2>1. a \in Seq(ProvWiping) /\ b \in Seq(ProvWiping)
    BY <1>1, ProvShortSeqs
  <2>2. Prov!WipeDevice(k) = a \o b
    BY DEF Prov!WipeDevice
  <2> HIDE DEF a, b
  <2> QED BY <2>1, <2>2, ProvConcatIs
<1>4. Prov!Wipe(k) \in Seq(ProvWiping)
  BY <1>2, <1>3 DEF Prov!Wipe
<1>5. ProvWiping \subseteq Prov!Commands
  BY DEF ProvWiping
<1>6. PICK s \in Seq(ProvWiping) \ {<<>>} : Prov!ProvisionStep(Prov!Wipe(k), TRUE) = <<s>> /\ Prov!EndsInReboot(s)
  BY <1>1, <1>4, <1>5, ProvStepIs
<1>7. s \in Seq(Prov!Commands) /\ Prov!WellFormed(s, options)
  BY <1>6, ProvWipingIsWellFormed
<1> QED BY <1>6, <1>7

LEMMA ProvDateStep ==
  ASSUME NEW k
  PROVE  \E s \in ProvLater : Prov!ProvisionStep(Prov!SetDate(k), FALSE) = <<s>> /\ (k.user \/ Prov!Has(s, "date"))
<1>1. Prov!Op("date") \in ProvPlain /\ Prov!Op("root") \in ProvPlain /\ Prov!Op("time set") \in ProvPlain /\ Prov!Op("date").do = "date"
  <2>1. /\ "date" \in Prov!Names \ {"stop", "wipe", "local properties"}
        /\ "root" \in Prov!Names \ {"stop", "wipe", "local properties"}
        /\ "time set" \in Prov!Names \ {"stop", "wipe", "local properties"}
    BY DEF Prov!Names
  <2> QED BY <2>1, ProvOpsOfKinds DEF Prov!Op
<1>2. Prov!SetDate(k) \in Seq(ProvPlain)
  BY <1>1, ProvShortSeqs DEF Prov!SetDate
<1>3. k.user \/ Prov!Has(Prov!SetDate(k), "date")
  <2>1. CASE k.user
    BY <2>1
  <2>2. CASE ~k.user
    <3>1. PICK a, b, c \in ProvPlain : a = Prov!Op("date") /\ Prov!SetDate(k) = <<a, b, c>>
      BY <1>1, <2>2 DEF Prov!SetDate
    <3>2. Len(Prov!SetDate(k)) = 3 /\ Prov!SetDate(k)[1] = Prov!Op("date")
      BY <3>1, ProvTripleIs
    <3>3. 1 \in 1..3
      OBVIOUS
    <3> QED BY <1>1, <3>2, <3>3 DEF Prov!Has
  <2> QED BY <2>1, <2>2
<1> QED BY <1>2, <1>3, ProvPlainStep

LEMMA ProvOneCommandStep ==
  ASSUME NEW c \in ProvPlain
  PROVE  \E s \in ProvLater : Prov!ProvisionStep(<<c>>, FALSE) = <<s>>
<1>1. <<c>> \in Seq(ProvPlain)
  BY ProvShortSeqs
<1> QED BY <1>1, ProvPlainStep

ProvHasIn(ss, do) == \E i \in 1..Len(ss) : Prov!Has(ss[i], do)

LEMMA ProvConcatHasIn ==
  ASSUME NEW s \in Seq(ProvLater), NEW t \in Seq(ProvLater)
  PROVE  /\ s \o t \in Seq(ProvLater)
         /\ \A do : ProvHasIn(s, do) \/ ProvHasIn(t, do) => ProvHasIn(s \o t, do)
<1>1. /\ s \o t \in Seq(ProvLater) /\ Len(s \o t) = Len(s) + Len(t)
      /\ Len(s) \in Nat /\ Len(t) \in Nat
      /\ \A i \in 1..Len(s) : (s \o t)[i] = s[i]
      /\ \A j \in 1..Len(t) : (s \o t)[Len(s) + j] = t[j]
  BY ProvConcatIs
<1> DEFINE u == s \o t
<1> HIDE DEF u
<1>2. /\ \A i \in 1..Len(s) : u[i] = s[i] /\ i \in 1..Len(u)
      /\ \A j \in 1..Len(t) : u[Len(s) + j] = t[j] /\ (Len(s) + j) \in 1..Len(u)
  BY <1>1 DEF u
<1>3. \A do : ProvHasIn(s, do) \/ ProvHasIn(t, do) => ProvHasIn(u, do)
  BY <1>2 DEF ProvHasIn
<1> QED BY <1>1, <1>3 DEF u

LEMMA ProvLaterStepsAre ==
  ASSUME NEW o, NEW k
  PROVE  /\ Prov!LaterSteps(o, k) \in Seq(ProvLater)
         /\ k.user \/ ProvHasIn(Prov!LaterSteps(o, k), "date")
         /\ o.remove => ProvHasIn(Prov!LaterSteps(o, k), "remove")
<1>1. PICK n \in ProvLater : Prov!ProvisionStep(Prov!DisableNetwork, FALSE) = <<n>>
  <2>1. "network" \in Prov!Names \ {"stop", "wipe", "local properties"}
    BY DEF Prov!Names
  <2> QED BY <2>1, ProvOpsOfKinds, ProvOneCommandStep DEF Prov!DisableNetwork
<1>2. PICK t \in ProvLater : Prov!ProvisionStep(Prov!WaitForBatteryTemperature, FALSE) = <<t>>
  BY ProvOpsOfKinds, ProvOneCommandStep DEF Prov!WaitForBatteryTemperature
<1>3. PICK c \in ProvLater : Prov!ProvisionStep(Prov!WaitForCharge, FALSE) = <<c>>
  <2>1. "charge" \in Prov!Names \ {"stop", "wipe", "local properties"}
    BY DEF Prov!Names
  <2> QED BY <2>1, ProvOpsOfKinds, ProvOneCommandStep DEF Prov!WaitForCharge
<1>4. PICK r \in ProvLater : Prov!ProvisionStep(Prov!RemoveSystemApps(k), FALSE) = <<r>> /\ Prov!Has(r, "remove")
  BY ProvRemoveStep
<1>5. PICK d \in ProvLater : Prov!ProvisionStep(Prov!SetDate(k), FALSE) = <<d>> /\ (k.user \/ Prov!Has(d, "date"))
  BY ProvDateStep
<1>6. PICK e \in ProvLater : Prov!ProvisionStep(Prov!CheckExternalStorage, FALSE) = <<e>>
  <2>1. "storage" \in Prov!Names \ {"stop", "wipe", "local properties"}
    BY DEF Prov!Names
  <2> QED BY <2>1, ProvOpsOfKinds, ProvOneCommandStep DEF Prov!CheckExternalStorage
<1> DEFINE A == IF o.network THEN <<n>> ELSE <<>>
           B == IF o.battery THEN <<t>> \o <<c>> ELSE <<>>
           C == IF o.remove THEN <<r>> ELSE <<>>
           D == <<d>>
           E == <<e>>
<1>7. A \in Seq(ProvLater) /\ C \in Seq(ProvLater) /\ D \in Seq(ProvLater) /\ E \in Seq(ProvLater)
  BY ProvShortSeqs
<1>8. B \in Seq(ProvLater)
  <2>1. <<t>> \in Seq(ProvLater) /\ <<c>> \in Seq(ProvLater) /\ <<>> \in Seq(ProvLater)
    BY ProvShortSeqs
  <2>2. <<t>> \o <<c>> \in Seq(ProvLater)
    BY <2>1, ProvConcatIs
  <2> QED BY <2>1, <2>2
<1>9. Prov!LaterSteps(o, k) = (((A \o B) \o C) \o D) \o E
  BY <1>1, <1>2, <1>3, <1>4, <1>5, <1>6 DEF Prov!LaterSteps
<1>10. o.remove => ProvHasIn(C, "remove")
  <2> SUFFICES ASSUME o.remove PROVE ProvHasIn(C, "remove")
    OBVIOUS
  <2>1. 1 \in 1..Len(C) /\ C[1] = r
    OBVIOUS
  <2> QED BY <1>4, <2>1 DEF ProvHasIn
<1>11. k.user \/ ProvHasIn(D, "date")
  <2>1. 1 \in 1..Len(D) /\ D[1] = d
    OBVIOUS
  <2> QED BY <1>5, <2>1 DEF ProvHasIn
<1> HIDE DEF A, B, C, D, E
<1>12. A \o B \in Seq(ProvLater)
  BY <1>7, <1>8, ProvConcatHasIn
<1>13. (A \o B) \o C \in Seq(ProvLater) /\ (o.remove => ProvHasIn((A \o B) \o C, "remove"))
  BY <1>7, <1>10, <1>12, ProvConcatHasIn
<1> DEFINE F == (A \o B) \o C
<1>14. F \in Seq(ProvLater) /\ (o.remove => ProvHasIn(F, "remove"))
  BY <1>13
<1> HIDE DEF F
<1>15. /\ F \o D \in Seq(ProvLater) /\ (k.user \/ ProvHasIn(F \o D, "date"))
       /\ o.remove => ProvHasIn(F \o D, "remove")
  BY <1>7, <1>11, <1>14, ProvConcatHasIn
<1> DEFINE G == F \o D
<1>16. /\ G \in Seq(ProvLater) /\ (k.user \/ ProvHasIn(G, "date"))
       /\ o.remove => ProvHasIn(G, "remove")
  BY <1>15
<1> HIDE DEF G
<1>17. /\ G \o E \in Seq(ProvLater) /\ (k.user \/ ProvHasIn(G \o E, "date"))
       /\ o.remove => ProvHasIn(G \o E, "remove")
  BY <1>7, <1>16, ProvConcatHasIn
<1> QED BY <1>9, <1>17 DEF F, G

(* What a device begins with.                                              *)
LEMMA ProvStepsAre ==
  ASSUME NEW k, options \in Prov!Options
  PROVE  \E ss \in Seq(Seq(Prov!Commands)) :
           /\ Prov!StepsOf(options, k) = ss /\ ss # <<>>
           /\ \A i \in 1..Len(ss) : ss[i] # <<>> /\ Prov!WellFormed(ss[i], options)
           /\ \A i \in 1..Len(ss) : Prov!Has(ss[i], "wipe") =>
                \E j \in (i + 1)..Len(ss) : Prov!SetsAll(ss[j], k)
           /\ ProvHasIn(ss, "settings") /\ (k.user \/ ProvHasIn(ss, "local properties"))
           /\ k.user \/ ProvHasIn(ss, "date")
           /\ options.remove => ProvHasIn(ss, "remove")
<1> DEFINE l == Prov!LaterSteps(options, k)
<1>1. /\ l \in Seq(ProvLater) /\ (k.user \/ ProvHasIn(l, "date"))
      /\ options.remove => ProvHasIn(l, "remove")
  BY ProvLaterStepsAre
<1>2. PICK s \in ProvLater :
        Prov!ProvisionStep(Prov!SetProperties(k), ~options.emulators) = <<s>> /\ Prov!SetsAll(s, k)
  <2>1. options.emulators \in BOOLEAN
    BY DEF Prov!Options
  <2> QED BY <2>1, ProvSettingStep
<1>3. PICK w \in Seq(Prov!Commands) \ {<<>>} : Prov!ProvisionStep(Prov!Wipe(k), TRUE) = <<w>> /\ Prov!WellFormed(w, options)
  BY ProvWipeStep
<1> DEFINE q == (IF options.wipe THEN <<w>> ELSE <<>>) \o <<s>>
           n == IF options.wipe THEN 2 ELSE 1
           ss == q \o l
<1>4. Prov!StepsOf(options, k) = ss
  BY <1>2, <1>3 DEF Prov!StepsOf
<1>5. ProvLater \subseteq Seq(Prov!Commands)
  BY DEF ProvLater
<1>6. /\ q \in Seq(Seq(Prov!Commands)) /\ Len(q) = n /\ n \in {1, 2} /\ q[n] = s
      /\ \A i \in 1..n : i # n => q[i] = w
  <2> DEFINE v == IF options.wipe THEN <<w>> ELSE <<>>
  <2>1. /\ <<w>> \in Seq(Seq(Prov!Commands)) /\ Len(<<w>>) = 1 /\ <<w>>[1] = w
        /\ <<>> \in Seq(Seq(Prov!Commands)) /\ Len(<<>>) = 0
        /\ <<s>> \in Seq(Seq(Prov!Commands)) /\ Len(<<s>>) = 1 /\ <<s>>[1] = s
    BY <1>5
  <2>2. v \in Seq(Seq(Prov!Commands)) /\ Len(v) = n - 1 /\ n \in {1, 2} /\ (n = 2 => v[1] = w)
    BY <2>1
  <2> DEFINE z == <<s>>
  <2>3. z \in Seq(Seq(Prov!Commands)) /\ Len(z) = 1 /\ z[1] = s
    BY <2>1
  <2>4. q = v \o z
    OBVIOUS
  <2> HIDE DEF v, z, q, n
  <2>5. /\ v \o z \in Seq(Seq(Prov!Commands)) /\ Len(v \o z) = Len(v) + Len(z)
        /\ \A i \in 1..Len(v) : (v \o z)[i] = v[i]
        /\ \A j \in 1..Len(z) : (v \o z)[Len(v) + j] = z[j]
    <3>1. v \in Seq(Seq(Prov!Commands)) /\ z \in Seq(Seq(Prov!Commands))
      BY <2>2, <2>3
    <3> QED BY <3>1, ProvConcatIs
  <2>6. q \in Seq(Seq(Prov!Commands)) /\ Len(q) = n
    BY <2>2, <2>3, <2>4, <2>5
  <2>7. q[n] = s
    <3>1. 1 \in 1..Len(z) /\ Len(v) + 1 = n
      BY <2>2, <2>3
    <3> QED BY <2>3, <2>4, <2>5, <3>1
  <2>8. \A i \in 1..n : i # n => q[i] = w
    <3>1. \A i \in 1..n : i # n => n = 2 /\ i = 1 /\ 1 \in 1..Len(v)
      BY <2>2
    <3> QED BY <2>2, <2>4, <2>5, <3>1
  <2> QED BY <2>2, <2>6, <2>7, <2>8
<1>7. l \in Seq(Seq(Prov!Commands)) /\ \A j \in 1..Len(l) : l[j] \in ProvLater
  BY <1>1, <1>5, ProvSeqGrows, ProvElementsAre
<1> HIDE DEF l, q, n
<1>8. /\ ss \in Seq(Seq(Prov!Commands)) /\ Len(ss) = n + Len(l) /\ Len(l) \in Nat
      /\ \A i \in 1..n : ss[i] = q[i]
      /\ \A j \in 1..Len(l) : ss[n + j] = l[j]
  BY <1>6, <1>7, ProvConcatIs
<1> HIDE DEF ss
<1>9. n \in 1..Len(ss) /\ ss[n] = s /\ ss # <<>>
  <2>1. n \in 1..n /\ n <= Len(ss) /\ Len(ss) # 0
    BY <1>6, <1>8
  <2> QED BY <1>6, <1>8, <2>1
<1>10. ASSUME NEW i \in 1..Len(ss) PROVE ss[i] \in ProvLater \/ (i < n /\ ss[i] = w)
  <2>1. CASE i <= n
    <3>1. i \in 1..n
      BY <1>6, <2>1
    <3> QED BY <1>2, <1>6, <1>8, <3>1
  <2>2. CASE i > n
    <3>1. (i - n) \in 1..Len(l) /\ n + (i - n) = i
      <4>1. n \in Nat /\ i \in Nat /\ i <= n + Len(l) /\ Len(l) \in Nat
        BY <1>6, <1>8
      <4> QED BY <2>2, <4>1
    <3> QED BY <1>7, <1>8, <3>1
  <2> QED BY <1>6, <2>1, <2>2
<1>11. \A i \in 1..Len(ss) : ss[i] # <<>> /\ Prov!WellFormed(ss[i], options)
  BY <1>3, <1>10 DEF ProvLater
<1>12. ASSUME NEW i \in 1..Len(ss), Prov!Has(ss[i], "wipe")
       PROVE  \E j \in (i + 1)..Len(ss) : Prov!SetsAll(ss[j], k)
  <2>1. i < n
    BY <1>10, <1>12 DEF ProvLater
  <2>2. n \in (i + 1)..Len(ss)
    BY <1>6, <1>9, <2>1
  <2> QED BY <1>2, <1>9, <2>2
<1>13. \A do : ProvHasIn(l, do) => ProvHasIn(ss, do)
  <2>1. \A j \in 1..Len(l) : (n + j) \in 1..Len(ss)
    BY <1>6, <1>8
  <2> QED BY <1>8, <2>1 DEF ProvHasIn
<1>14. ProvHasIn(ss, "settings") /\ (k.user \/ ProvHasIn(ss, "local properties"))
  BY <1>2, <1>9 DEF ProvHasIn, Prov!SetsAll
<1> QED BY <1>1, <1>4, <1>8, <1>9, <1>11, <1>12, <1>13, <1>14

LEMMA ProvInitInv == Prov!Init => Prov!IInv
<1> SUFFICES ASSUME Prov!Init PROVE Prov!IInv
  OBVIOUS
<1>1. /\ options \in Prov!Options /\ options.emulators \in BOOLEAN /\ options.wipe \in BOOLEAN
      /\ kind \in [Fresh -> Prov!Kinds]
  BY DEF Prov!Init, Prov!Options
<1>2. ASSUME NEW d \in Fresh
      PROVE  /\ steps[d] \in Seq(Seq(Prov!Commands)) /\ steps[d] # <<>>
             /\ \A i \in 1..Len(steps[d]) : steps[d][i] # <<>> /\ Prov!WellFormed(steps[d][i], options)
             /\ \A i \in 1..Len(steps[d]) : Prov!Has(steps[d][i], "wipe") =>
                  \E j \in (i + 1)..Len(steps[d]) : Prov!SetsAll(steps[d][j], kind[d])
             /\ kind[d].user \/ Prov!LaterHas(d, "local properties")
             /\ Prov!LaterHas(d, "settings") /\ (kind[d].user \/ Prov!LaterHas(d, "date"))
             /\ options.remove => Prov!LaterHas(d, "remove")
  <2>1. steps[d] = Prov!StepsOf(options, kind[d])
    BY DEF Prov!Init
  <2> DEFINE k == kind[d]
  <2> HIDE DEF k
  <2>2. PICK ss \in Seq(Seq(Prov!Commands)) :
          /\ Prov!StepsOf(options, k) = ss /\ ss # <<>>
          /\ \A i \in 1..Len(ss) : ss[i] # <<>> /\ Prov!WellFormed(ss[i], options)
          /\ \A i \in 1..Len(ss) : Prov!Has(ss[i], "wipe") =>
               \E j \in (i + 1)..Len(ss) : Prov!SetsAll(ss[j], k)
          /\ k.user \/ ProvHasIn(ss, "local properties")
          /\ ProvHasIn(ss, "settings") /\ (k.user \/ ProvHasIn(ss, "date"))
          /\ options.remove => ProvHasIn(ss, "remove")
    BY <1>1, ProvStepsAre
  <2>3. ss = steps[d] /\ k = kind[d]
    BY <2>1, <2>2 DEF k
  <2> HIDE DEF ProvHasIn
  <2>4. /\ steps[d] \in Seq(Seq(Prov!Commands)) /\ steps[d] # <<>>
        /\ \A i \in 1..Len(steps[d]) : steps[d][i] # <<>> /\ Prov!WellFormed(steps[d][i], options)
        /\ \A i \in 1..Len(steps[d]) : Prov!Has(steps[d][i], "wipe") =>
             \E j \in (i + 1)..Len(steps[d]) : Prov!SetsAll(steps[d][j], kind[d])
        /\ kind[d].user \/ ProvHasIn(steps[d], "local properties")
        /\ ProvHasIn(steps[d], "settings") /\ (kind[d].user \/ ProvHasIn(steps[d], "date"))
        /\ options.remove => ProvHasIn(steps[d], "remove")
    BY <2>2, <2>3
  <2> HIDE DEF Prov!SetsAll, Prov!WellFormed
  <2> QED BY <2>4 DEF Prov!LaterHas, ProvHasIn
<1>3. \A d \in Fresh : ops[d] = <<>> /\ ~Prov!Has(ops[d], "wipe") /\ Prov!WellFormed(ops[d], options)
  <2>1. Prov!WellFormed(<<>>, options) /\ ~Prov!Has(<<>>, "wipe")
    BY DEF Prov!WellFormed, Prov!Has
  <2> QED BY <2>1 DEF Prov!Init
<1>4. \A d \in Fresh :
        /\ device[d] \in Prov!States /\ device[d].reachable /\ device[d].keys = kind[d].secure
        /\ device[d].running /\ device[d].props = device[d].effective
  BY <1>1 DEF Prov!Init, Prov!States, Prov!Kinds
<1>5. Prov!TypeOK
  <2>1. device \in [Fresh -> Prov!States]
    BY <1>4 DEF Prov!Init
  <2>2. steps \in [Fresh -> Seq(Seq(Prov!Commands))]
    BY <1>2 DEF Prov!Init
  <2>3. ops \in [Fresh -> Seq(Prov!Commands)]
    BY DEF Prov!Init
  <2>4. blacklist \subseteq Fresh /\ chosen \subseteq Fresh
    BY DEF Prov!Init
  <2> QED BY <1>1, <2>1, <2>2, <2>3, <2>4 DEF Prov!TypeOK
<1>6. Prov!StepsAreWellFormed
  BY <1>2, <1>3 DEF Prov!StepsAreWellFormed, Prov!StepsFit
<1>7. Prov!GoodAreOnTheWay
  BY <1>2, <1>4 DEF Prov!GoodAreOnTheWay, Prov!OnTheWay, Prov!Left
<1>8. Prov!WorkIsOfRun
  <2>1. result = "starting" /\ blacklist = {}
    BY DEF Prov!Init
  <2> QED BY <1>2, <1>3, <1>4, <2>1 DEF Prov!WorkIsOfRun, Prov!Reported
<1> QED BY <1>5, <1>6, <1>7, <1>8 DEF Prov!IInv

(* A step of one device.                                                   *)
LEMMA ProvDeviceStep ==
  ASSUME Prov!IInv, NEW d \in Fresh, UNCHANGED <<Prov!given, chosen, result>>,
         result # "starting", ~Prov!Reported, d \in chosen, Prov!TypeOK', blacklist \subseteq blacklist',
         \A e \in Fresh \ {d} : device'[e] = device[e] /\ steps'[e] = steps[e] /\ ops'[e] = ops[e],
         Prov!StepsFit(d)', d \notin blacklist' => Prov!OnTheWay(d)'
  PROVE  Prov!IInv'
<1>1. ASSUME NEW e \in Fresh PROVE Prov!StepsFit(e)'
  <2>1. CASE e = d
    BY <2>1
  <2>2. CASE e # d
    <3>1. Prov!StepsFit(e) /\ steps'[e] = steps[e] /\ ops'[e] = ops[e] /\ options' = options
          /\ kind' = kind
      BY <2>2 DEF Prov!IInv, Prov!StepsAreWellFormed, Prov!given
    <3> QED BY <3>1 DEF Prov!StepsFit, Prov!LaterHas
  <2> QED BY <2>1, <2>2
<1>2. ASSUME NEW e \in Fresh, e \notin blacklist' PROVE Prov!OnTheWay(e)'
  <2>1. CASE e = d
    BY <1>2, <2>1
  <2>2. CASE e # d
    <3>1. Prov!OnTheWay(e) /\ steps'[e] = steps[e] /\ ops'[e] = ops[e] /\ device'[e] = device[e]
          /\ options' = options /\ kind' = kind
      BY <1>2, <2>2 DEF Prov!IInv, Prov!GoodAreOnTheWay, Prov!given
    <3>2. \A x : (Prov!Left(e, x)' <=> Prov!Left(e, x)) /\ (Prov!LaterHas(e, x)' <=> Prov!LaterHas(e, x))
      BY <3>1 DEF Prov!Left, Prov!LaterHas
    <3> QED BY <3>1, <3>2 DEF Prov!OnTheWay
  <2> QED BY <2>1, <2>2
<1>3. Prov!WorkIsOfRun'
  <2>1. \A e \in Fresh : ops'[e] # <<>> => e \in chosen'
    BY DEF Prov!IInv, Prov!WorkIsOfRun
  <2> QED BY <2>1 DEF Prov!WorkIsOfRun, Prov!Reported
<1> QED BY <1>1, <1>2, <1>3 DEF Prov!IInv, Prov!StepsAreWellFormed, Prov!GoodAreOnTheWay

LEMMA ProvStepsTail ==
  ASSUME NEW ss \in Seq(Seq(Prov!Commands)), ss # <<>>
  PROVE  /\ \A do : ProvHasIn(ss, do) <=> Prov!Has(Head(ss), do) \/ ProvHasIn(Tail(ss), do)
         /\ Head(ss) \in Seq(Prov!Commands) /\ Tail(ss) \in Seq(Seq(Prov!Commands))
<1>1. /\ Tail(ss) \in Seq(Seq(Prov!Commands)) /\ Len(ss) \in Nat \ {0}
      /\ Len(Tail(ss)) = Len(ss) - 1
      /\ \A i \in 1..Len(Tail(ss)) : Tail(ss)[i] = ss[i + 1]
      /\ Head(ss) = ss[1] /\ Head(ss) \in Seq(Prov!Commands)
  BY ProvTailIs
<1> DEFINE t == Tail(ss)
<1> HIDE DEF t
<1>2. ASSUME NEW do PROVE ProvHasIn(ss, do) <=> Prov!Has(ss[1], do) \/ ProvHasIn(t, do)
  <2>1. ASSUME NEW i \in 1..Len(ss), Prov!Has(ss[i], do) PROVE Prov!Has(ss[1], do) \/ ProvHasIn(t, do)
    <3>1. CASE i = 1
      BY <2>1, <3>1
    <3>2. CASE i # 1
      <4>1. (i - 1) \in 1..Len(t) /\ t[i - 1] = ss[i]
        BY <1>1, <3>2 DEF t
      <4> QED BY <2>1, <4>1 DEF ProvHasIn
    <3> QED BY <3>1, <3>2
  <2>2. ASSUME NEW i \in 1..Len(t), Prov!Has(t[i], do) PROVE ProvHasIn(ss, do)
    <3>1. (i + 1) \in 1..Len(ss) /\ ss[i + 1] = t[i]
      BY <1>1 DEF t
    <3> QED BY <2>2, <3>1 DEF ProvHasIn
  <2>3. 1 \in 1..Len(ss)
    BY <1>1
  <2> QED BY <2>1, <2>2, <2>3 DEF ProvHasIn
<1> QED BY <1>1, <1>2 DEF t

LEMMA ProvNextStepInv ==
  ASSUME Prov!IInv, NEW d \in Fresh, Prov!NextStep(d) PROVE Prov!IInv'
<1>1. /\ result = "running" /\ d \in chosen /\ ops[d] = <<>> /\ steps[d] # <<>>
      /\ ops' = [ops EXCEPT ![d] = Head(steps[d])] /\ steps' = [steps EXCEPT ![d] = Tail(@)]
      /\ UNCHANGED <<Prov!given, device, blacklist, chosen, result>>
  BY DEF Prov!NextStep
<1>2. /\ steps \in [Fresh -> Seq(Seq(Prov!Commands))] /\ ops \in [Fresh -> Seq(Prov!Commands)]
      /\ steps[d] \in Seq(Seq(Prov!Commands))
  BY DEF Prov!IInv, Prov!TypeOK
<1>3. ops'[d] = Head(steps[d]) /\ steps'[d] = Tail(steps[d])
  BY <1>1, <1>2
<1> DEFINE ss == steps[d]
           t == Tail(ss)
<1>4. /\ t \in Seq(Seq(Prov!Commands)) /\ Len(ss) \in Nat \ {0} /\ Len(t) = Len(ss) - 1
      /\ \A i \in 1..Len(t) : t[i] = ss[i + 1]
      /\ Head(ss) = ss[1] /\ Head(ss) \in Seq(Prov!Commands)
  BY <1>1, <1>2, ProvTailIs
<1>5. \A do : ProvHasIn(ss, do) <=> Prov!Has(ss[1], do) \/ ProvHasIn(t, do)
  BY <1>1, <1>2, <1>4, ProvStepsTail
<1>6. /\ \A i \in 1..Len(ss) : ss[i] # <<>> /\ Prov!WellFormed(ss[i], options)
      /\ \A i \in 1..Len(ss) : Prov!Has(ss[i], "wipe") =>
           \E j \in (i + 1)..Len(ss) : Prov!SetsAll(ss[j], kind[d])
  BY DEF Prov!IInv, Prov!StepsAreWellFormed, Prov!StepsFit
<1>7. Prov!TypeOK'
  BY <1>1, <1>2, <1>4 DEF Prov!IInv, Prov!TypeOK, Prov!given
<1> HIDE DEF ss, t
<1>8. ops'[d] = ss[1] /\ steps'[d] = t /\ ops[d] = <<>> /\ steps[d] = ss
  BY <1>1, <1>3, <1>4 DEF ss, t
<1>9. /\ \A i \in 1..Len(t) : (i + 1) \in 1..Len(ss) /\ t[i] = ss[i + 1]
      /\ 1 \in 1..Len(ss)
  BY <1>4
<1>10. ASSUME NEW i \in 1..Len(ss), Prov!Has(ss[i], "wipe")
       PROVE  \E j \in i..Len(t) : j \in 1..Len(t) /\ Prov!SetsAll(t[j], kind[d])
  <2>1. PICK j \in (i + 1)..Len(ss) : Prov!SetsAll(ss[j], kind[d])
    BY <1>6, <1>10
  <2>2. (j - 1) \in i..Len(t) /\ (j - 1) \in 1..Len(t) /\ (j - 1) + 1 = j
    BY <1>4, <2>1
  <2>3. t[j - 1] = ss[j]
    BY <1>4, <2>2
  <2> QED BY <2>1, <2>2, <2>3
<1>11. Prov!StepsFit(d)'
  <2>1. Prov!WellFormed(ops[d], options)'
    BY <1>1, <1>6, <1>8, <1>9 DEF Prov!given
  <2>2. \A i \in 1..Len(t) : t[i] # <<>> /\ Prov!WellFormed(t[i], options)
    BY <1>6, <1>9
  <2>3. \A i \in 1..Len(steps'[d]) : steps'[d][i] # <<>> /\ Prov!WellFormed(steps[d][i], options)'
    BY <1>1, <1>8, <2>2 DEF Prov!given
  <2>4. Prov!Has(ops'[d], "wipe") => \E j \in 1..Len(t) : Prov!SetsAll(t[j], kind[d])
    BY <1>8, <1>9, <1>10
  <2>5. \A i \in 1..Len(t) : Prov!Has(t[i], "wipe") =>
          \E j \in (i + 1)..Len(t) : Prov!SetsAll(t[j], kind[d])
    BY <1>9, <1>10
  <2>6. kind' = kind
    BY <1>1 DEF Prov!given
  <2> QED BY <1>8, <2>1, <2>3, <2>4, <2>5, <2>6 DEF Prov!StepsFit, Prov!Has
<1>12. ASSUME d \notin blacklist' PROVE Prov!OnTheWay(d)'
  <2>1. Prov!OnTheWay(d)
    BY <1>1, <1>12 DEF Prov!IInv, Prov!GoodAreOnTheWay
  <2>2. \A do : ~Prov!Has(<<>>, do) /\ ~Prov!EndsInReboot(<<>>)
    BY DEF Prov!Has, Prov!EndsInReboot
  <2>3. \A do : Prov!Left(d, do) => Prov!Has(ss[1], do) \/ ProvHasIn(t, do)
    BY <1>5, <1>8, <2>2 DEF Prov!Left, Prov!LaterHas, ProvHasIn
  <2>4. \A do : Prov!Left(d, do)' <=> Prov!Has(ss[1], do) \/ ProvHasIn(t, do)
    BY <1>8 DEF Prov!Left, Prov!LaterHas, ProvHasIn, Prov!Has
  <2>5. ops'[d] # <<>>
    BY <1>6, <1>8, <1>9
  <2>6. /\ device[d].running
        /\ ~(device[d].reachable /\ kind[d].secure /\ ~device[d].keys)
        /\ ~(~options.emulators /\ device[d].props # device[d].effective)
    BY <1>8, <2>1, <2>2 DEF Prov!OnTheWay
  <2> QED BY <1>1, <2>1, <2>3, <2>4, <2>5, <2>6 DEF Prov!OnTheWay, Prov!given
<1>13. \A e \in Fresh \ {d} : device'[e] = device[e] /\ steps'[e] = steps[e] /\ ops'[e] = ops[e]
  BY <1>1, <1>2
<1>14. result # "starting" /\ ~Prov!Reported
  BY <1>1 DEF Prov!Reported
<1> QED BY <1>1, <1>7, <1>11, <1>12, <1>13, <1>14, ProvDeviceStep

(* What a command does to the device.                                      *)
(* What the ways of a command have in common: w is the device after it.    *)
ProvEffect(d, do, w) ==
  /\ do = "settings" \/ (do # "wipe" /\ device[d].set) => w.set
  /\ do = "date" \/ device[d].date => w.date
  /\ w.apps => do # "remove" /\ device[d].apps
  /\ do = "start" \/ (do # "stop" /\ device[d].running) => w.running
  /\ do # "reboot" => w.reachable = device[d].reachable
  /\ do = "reboot" => (w.reachable <=> ~kind[d].secure \/ device[d].keys)
  /\ do # "wipe" /\ device[d].keys => w.keys
  /\ do = "reboot" => w.effective = w.props
  /\ do \notin {"reboot", "wipe", "local properties"} =>
       w.effective = device[d].effective /\ w.props = device[d].props
  /\ do = "local properties" \/ (do # "wipe" /\ device[d].props) =>
       w.props \/ "local properties" \in w.missed
  /\ "local properties" \in device[d].missed => "local properties" \in w.missed

LEMMA ProvAfterIs ==
  ASSUME NEW d \in Fresh, device[d] \in Prov!States, kind[d] \in Prov!Kinds, NEW do
  PROVE  Prov!After(d, do) \in Prov!States /\ ProvEffect(d, do, Prov!After(d, do))
<1> DEFINE v == device[d]
           k == kind[d]
<1>1. /\ v \in Prov!States /\ k \in Prov!Kinds
      /\ v.reachable \in BOOLEAN /\ v.keys \in BOOLEAN /\ v.props \in BOOLEAN
      /\ v.found \in BOOLEAN
      /\ k.secure \in BOOLEAN
  BY DEF Prov!States, Prov!Kinds
<1>2. Prov!After(d, do) =
        CASE do = "root" -> [v EXCEPT !.root = TRUE]
          [] do = "wipe" -> [v EXCEPT !.keys = FALSE, !.props = FALSE, !.set = FALSE]
          [] do = "keys" -> [v EXCEPT !.keys = v.keys \/ v.found]
          [] do = "find keys" -> [v EXCEPT !.found = v.keys]
          [] do = "local properties" -> [v EXCEPT !.props = TRUE]
          [] do = "settings" -> [v EXCEPT !.set = TRUE]
          [] do = "verity" -> [v EXCEPT !.verity = FALSE]
          [] do = "reboot" -> [v EXCEPT !.reachable = ~k.secure \/ v.keys, !.root = FALSE, !.rw = FALSE,
                                        !.running = TRUE, !.effective = v.props]
          [] do = "remount" -> [v EXCEPT !.rw = TRUE]
          [] do = "stop" -> [v EXCEPT !.running = FALSE]
          [] do = "remove" -> [v EXCEPT !.apps = FALSE]
          [] do = "start" -> [v EXCEPT !.running = TRUE]
          [] do = "date" -> [v EXCEPT !.date = TRUE]
          [] OTHER -> v
  BY DEF Prov!After, Prov!Rebooted
<1> DEFINE w == Prov!After(d, do)
<1> HIDE DEF v, k, w
<1>3. CASE do = "reboot"
  <2>0. PICK r \in BOOLEAN : r = (~k.secure \/ v.keys)
    OBVIOUS
  <2>1. w = [v EXCEPT !.reachable = r, !.root = FALSE, !.rw = FALSE,
                      !.running = TRUE, !.effective = v.props]
    BY <1>2, <1>3, <2>0 DEF w
  <2>2. w \in Prov!States
    <3>1. PICK p \in BOOLEAN : p = v.props
      BY <1>1
    <3>2. PICK x \in Prov!States : x = [v EXCEPT !.reachable = r, !.root = FALSE]
      BY <1>1 DEF Prov!States
    <3>3. PICK y \in Prov!States : y = [x EXCEPT !.rw = FALSE, !.running = TRUE, !.effective = p]
      BY DEF Prov!States
    <3>4. w = y
      BY <1>1, <2>1, <3>1, <3>2, <3>3 DEF Prov!States
    <3> QED BY <3>4
  <2>3. /\ w.set = v.set /\ w.date = v.date /\ w.apps = v.apps /\ w.keys = v.keys
        /\ w.running = TRUE /\ w.reachable = r /\ w.effective = w.props
        /\ w.props = v.props /\ w.missed = v.missed
    BY <1>1, <2>1 DEF Prov!States
  <2> QED BY <1>1, <1>3, <2>0, <2>2, <2>3 DEF v, k, w, ProvEffect
<1>4. CASE do = "wipe"
  <2>1. w = [v EXCEPT !.keys = FALSE, !.props = FALSE, !.set = FALSE]
    BY <1>2, <1>4 DEF w
  <2>2. /\ w \in Prov!States /\ w.set = FALSE /\ w.date = v.date /\ w.apps = v.apps
        /\ w.keys = FALSE
        /\ w.running = v.running /\ w.reachable = v.reachable /\ w.missed = v.missed
    BY <1>1, <2>1 DEF Prov!States
  <2> QED BY <1>1, <1>4, <2>2 DEF v, k, w, ProvEffect
<1>5. CASE do = "local properties"
  <2>1. w = [v EXCEPT !.props = TRUE]
    BY <1>2, <1>5 DEF w
  <2>2. /\ w \in Prov!States /\ w.set = v.set /\ w.date = v.date /\ w.apps = v.apps
        /\ w.keys = v.keys
        /\ w.running = v.running /\ w.reachable = v.reachable /\ w.missed = v.missed
        /\ w.props = TRUE
    BY <1>1, <2>1 DEF Prov!States
  <2> QED BY <1>1, <1>5, <2>2 DEF v, k, w, ProvEffect
<1>7. CASE do \in {"keys", "find keys"}
  <2>1. PICK x, y \in BOOLEAN : x = (v.keys \/ v.found) /\ y = v.keys
    BY <1>1
  <2>2. w = [v EXCEPT !.keys = x] \/ w = [v EXCEPT !.found = y]
    BY <1>2, <1>7, <2>1 DEF w
  <2>3. /\ w \in Prov!States /\ w.set = v.set /\ w.date = v.date /\ w.apps = v.apps
        /\ w.running = v.running /\ w.reachable = v.reachable /\ w.missed = v.missed
        /\ w.props = v.props /\ w.effective = v.effective
        /\ (v.keys => w.keys)
    BY <1>1, <2>1, <2>2 DEF Prov!States
  <2> QED BY <1>1, <1>7, <2>3 DEF v, k, w, ProvEffect
<1>6. CASE do \notin {"reboot", "wipe", "local properties", "keys", "find keys"}
  <2>1. \/ (do = "root" /\ w = [v EXCEPT !.root = TRUE])
        \/ (do = "settings" /\ w = [v EXCEPT !.set = TRUE])
        \/ (do = "verity" /\ w = [v EXCEPT !.verity = FALSE])
        \/ (do = "remount" /\ w = [v EXCEPT !.rw = TRUE])
        \/ (do = "stop" /\ w = [v EXCEPT !.running = FALSE])
        \/ (do = "remove" /\ w = [v EXCEPT !.apps = FALSE])
        \/ (do = "start" /\ w = [v EXCEPT !.running = TRUE])
        \/ (do = "date" /\ w = [v EXCEPT !.date = TRUE])
        \/ (do \notin {"root", "settings", "verity", "remount", "stop", "remove", "start", "date"}
             /\ w = v)
    BY <1>2, <1>6 DEF w
  <2>2. /\ w \in Prov!States /\ w.effective = v.effective /\ w.props = v.props
        /\ w.reachable = v.reachable /\ w.missed = v.missed
    BY <1>1, <2>1 DEF Prov!States
  <2>3. /\ w.set = IF do = "settings" THEN TRUE ELSE v.set
        /\ w.date = IF do = "date" THEN TRUE ELSE v.date
        /\ w.apps = IF do = "remove" THEN FALSE ELSE v.apps
        /\ v.keys => w.keys
        /\ w.running = IF do = "start" THEN TRUE ELSE IF do = "stop" THEN FALSE ELSE v.running
    BY <1>1, <2>1 DEF Prov!States
  <2> QED BY <1>1, <1>6, <2>2, <2>3 DEF v, k, w, ProvEffect
<1> QED BY <1>3, <1>4, <1>5, <1>6, <1>7

LEMMA ProvWorking ==
  ASSUME Prov!IInv, NEW d \in Fresh, Prov!Running(d)
  PROVE  /\ result # "starting" /\ ~Prov!Reported /\ d \in chosen
         /\ ops[d] \in Seq(Prov!Commands) /\ ops[d] # <<>>
         /\ Prov!Current(d) \in Prov!Commands /\ Tail(ops[d]) \in Seq(Prov!Commands)
         /\ device \in [Fresh -> Prov!States] /\ device[d] \in Prov!States
         /\ kind[d] \in Prov!Kinds /\ Prov!StepsFit(d)
<1>1. ops[d] # <<>> /\ ops[d] \in Seq(Prov!Commands)
  BY DEF Prov!IInv, Prov!TypeOK, Prov!Running
<1>2. Head(ops[d]) \in Prov!Commands /\ Tail(ops[d]) \in Seq(Prov!Commands)
  BY <1>1, ProvTailIs
<1>3. device \in [Fresh -> Prov!States] /\ device[d] \in Prov!States /\ kind[d] \in Prov!Kinds
  BY DEF Prov!IInv, Prov!TypeOK
<1>4. result # "starting" /\ ~Prov!Reported /\ d \in chosen
  BY <1>1 DEF Prov!IInv, Prov!WorkIsOfRun
<1>5. Prov!StepsFit(d)
  BY DEF Prov!IInv, Prov!StepsAreWellFormed
<1> QED BY <1>1, <1>2, <1>3, <1>4, <1>5 DEF Prov!Current

(* A command is over, in either way: what is missing is still to come.     *)
LEMMA ProvTailKeepsWay ==
  ASSUME Prov!IInv, NEW d \in Fresh, Prov!Running(d), device[d].reachable, d \notin blacklist,
         UNCHANGED Prov!given, ops'[d] = Tail(ops[d]), steps'[d] = steps[d],
         ProvEffect(d, Prov!Current(d).do, device'[d])
  PROVE  Prov!OnTheWay(d)'
<1> DEFINE c == Prov!Current(d)
           do == c.do
           s == ops[d]
           t == Tail(s)
           v == device[d]
           w == device'[d]
           k == kind[d]
<1>1. /\ s \in Seq(Prov!Commands) /\ s # <<>>
      /\ c \in Prov!Commands /\ t \in Seq(Prov!Commands) /\ Prov!StepsFit(d)
  BY ProvWorking
<1>2. Prov!OnTheWay(d)
  BY DEF Prov!IInv, Prov!GoodAreOnTheWay
<1>3. /\ \A x : Prov!Has(s, x) <=> do = x \/ Prov!Has(t, x)
      /\ Prov!EndsInReboot(s) /\ do # "reboot" => Prov!EndsInReboot(t)
      /\ Prov!WellFormed(s, options) => Prov!WellFormed(t, options)
  BY <1>1, ProvTailKeeps DEF Prov!Current
<1>4. do = "stop" /\ Prov!WellFormed(s, options) => Prov!Has(t, "start")
  <2> SUFFICES ASSUME s[1].do = "stop", Prov!WellFormed(s, options) PROVE Prov!Has(t, "start")
    BY <1>1, ProvTailIs DEF Prov!Current
  <2>1. /\ Len(s) \in Nat \ {0} /\ Len(t) = Len(s) - 1
        /\ \A i \in 1..Len(t) : t[i] = s[i + 1]
    BY <1>1, ProvTailIs
  <2>2. PICK j \in (1 + 1)..Len(s) : s[j].do = "start"
    <3>1. 1 \in 1..Len(s)
      BY <2>1
    <3> QED BY <3>1 DEF Prov!WellFormed
  <2>3. (j - 1) \in 1..Len(t) /\ (j - 1) + 1 = j
    BY <2>1
  <2> QED BY <2>1, <2>2, <2>3 DEF Prov!Has
<1>5. \A x : Prov!LaterHas(d, x)' <=> Prov!LaterHas(d, x)
  BY DEF Prov!LaterHas
<1>6. \A x : Prov!Left(d, x)' <=> Prov!Has(t, x) \/ Prov!LaterHas(d, x)
  BY <1>5 DEF Prov!Left
<1>7. \A x : Prov!Left(d, x) <=> do = x \/ Prov!Has(t, x) \/ Prov!LaterHas(d, x)
  BY <1>3 DEF Prov!Left
<1>8. /\ Prov!WellFormed(s, options)
      /\ do = "wipe" => Prov!LaterHas(d, "settings") /\ (k.user \/ Prov!LaterHas(d, "local properties"))
  BY <1>1, <1>3 DEF Prov!StepsFit, Prov!SetsAll, Prov!LaterHas
<1>9. /\ do = "wipe" => Prov!EndsInReboot(t)
      /\ do = "local properties" /\ ~options.emulators => Prov!EndsInReboot(t)
  BY <1>3, <1>8 DEF Prov!WellFormed
<1>10. Prov!LaterHas(d, "settings") => steps[d] # <<>>
  BY DEF Prov!LaterHas
<1>11. /\ do = "settings" \/ (do # "wipe" /\ v.set) => w.set
       /\ do = "date" \/ v.date => w.date
       /\ w.apps => do # "remove" /\ v.apps
       /\ do = "start" \/ (do # "stop" /\ v.running) => w.running
       /\ do # "reboot" => w.reachable = v.reachable
       /\ do = "reboot" => (w.reachable <=> ~k.secure \/ v.keys)
       /\ do # "wipe" /\ v.keys => w.keys
       /\ do = "reboot" => w.effective = w.props
       /\ do \notin {"reboot", "wipe", "local properties"} => w.effective = v.effective /\ w.props = v.props
       /\ do = "local properties" \/ (do # "wipe" /\ v.props) =>
            w.props \/ "local properties" \in w.missed
       /\ "local properties" \in v.missed => "local properties" \in w.missed
  BY DEF ProvEffect
<1>12. /\ v.set \/ Prov!Left(d, "settings")
       /\ v.date \/ k.user \/ Prov!Left(d, "date")
       /\ v.props \/ k.user \/ "local properties" \in v.missed \/ Prov!Left(d, "local properties")
       /\ options.remove => ~v.apps \/ Prov!Left(d, "remove")
       /\ v.running \/ Prov!Has(s, "start")
       /\ v.reachable /\ k.secure /\ ~v.keys => Prov!EndsInReboot(s) /\ Prov!LaterHas(d, "settings")
       /\ ~options.emulators /\ v.props # v.effective => Prov!EndsInReboot(s)
  BY <1>2 DEF Prov!OnTheWay
<1>13. ops'[d] = t /\ kind'[d] = k /\ options' = options /\ v.reachable
  BY DEF Prov!given
<1> HIDE DEF v, w, k, do, t, s
<1>14. w.set \/ Prov!Left(d, "settings")'
  BY <1>6, <1>7, <1>8, <1>11, <1>12
<1>15. w.date \/ k.user \/ Prov!Left(d, "date")'
  BY <1>6, <1>7, <1>11, <1>12
<1>16. w.props \/ k.user \/ "local properties" \in w.missed \/ Prov!Left(d, "local properties")'
  BY <1>6, <1>7, <1>8, <1>11, <1>12
<1>17. options.remove => ~w.apps \/ Prov!Left(d, "remove")'
  BY <1>6, <1>7, <1>11, <1>12
<1>18. w.running \/ Prov!Has(t, "start")
  BY <1>3, <1>4, <1>8, <1>11, <1>12
<1>19. w.reachable \/ t # <<>> \/ steps[d] # <<>>
  BY <1>10, <1>11, <1>12, <1>13
<1>20. w.reachable /\ k.secure /\ ~w.keys => Prov!EndsInReboot(t) /\ Prov!LaterHas(d, "settings")
  BY <1>3, <1>8, <1>9, <1>11, <1>12, <1>13
<1>21. ~options.emulators /\ w.props # w.effective => Prov!EndsInReboot(t)
  BY <1>3, <1>9, <1>11, <1>12
<1> QED BY <1>5, <1>13, <1>14, <1>15, <1>16, <1>17, <1>18, <1>19, <1>20, <1>21 DEF Prov!OnTheWay, w

LEMMA ProvSucceedsInv ==
  ASSUME Prov!IInv, NEW d \in Fresh, Prov!Succeeds(d) PROVE Prov!IInv'
<1> DEFINE c == Prov!Current(d)
           do == c.do
           s == ops[d]
           t == Tail(s)
<1>1. /\ Prov!Running(d) /\ device[d].reachable
      /\ device' = [device EXCEPT ![d] = Prov!After(d, do)]
      /\ ops' = [ops EXCEPT ![d] = Tail(@)]
      /\ UNCHANGED <<Prov!given, steps, blacklist, chosen, result>>
  BY DEF Prov!Succeeds, Prov!Possible
<1>2. /\ result # "starting" /\ ~Prov!Reported /\ d \in chosen
      /\ s \in Seq(Prov!Commands) /\ s # <<>>
      /\ c \in Prov!Commands /\ t \in Seq(Prov!Commands)
      /\ device \in [Fresh -> Prov!States] /\ device[d] \in Prov!States
      /\ kind[d] \in Prov!Kinds /\ Prov!StepsFit(d)
  BY <1>1, ProvWorking
<1>3. /\ \A x : Prov!Has(s, x) <=> do = x \/ Prov!Has(t, x)
      /\ Prov!EndsInReboot(s) /\ do # "reboot" => Prov!EndsInReboot(t)
      /\ Prov!WellFormed(s, options) => Prov!WellFormed(t, options)
  BY <1>2, ProvTailKeeps DEF Prov!Current
<1>5. ops \in [Fresh -> Seq(Prov!Commands)]
  BY DEF Prov!IInv, Prov!TypeOK
<1>6. device'[d] = Prov!After(d, do) /\ ops'[d] = t /\ steps'[d] = steps[d]
  BY <1>1, <1>2, <1>5
<1>7. \A e \in Fresh \ {d} : device'[e] = device[e] /\ steps'[e] = steps[e] /\ ops'[e] = ops[e]
  BY <1>1, <1>2, <1>5
<1>8. Prov!After(d, do) \in Prov!States
  BY <1>2, ProvAfterIs
<1>9. Prov!TypeOK'
  <2>1. device' \in [Fresh -> Prov!States]
    BY <1>1, <1>2, <1>8
  <2>2. ops' \in [Fresh -> Seq(Prov!Commands)]
    BY <1>1, <1>2, <1>5
  <2> QED BY <1>1, <2>1, <2>2 DEF Prov!IInv, Prov!TypeOK, Prov!given
<1>10. Prov!StepsFit(d)'
  <2>1. /\ Prov!WellFormed(t, options)
        /\ Prov!Has(t, "wipe") => \E j \in 1..Len(steps[d]) : Prov!SetsAll(steps[d][j], kind[d])
    BY <1>2, <1>3 DEF Prov!StepsFit
  <2> QED BY <1>1, <1>2, <1>6, <2>1 DEF Prov!StepsFit, Prov!given
<1>11. ASSUME d \notin blacklist' PROVE Prov!OnTheWay(d)'
  <2>1. ProvEffect(d, do, device'[d])
    BY <1>2, <1>6, ProvAfterIs
  <2> QED BY <1>1, <1>6, <1>11, <2>1, ProvTailKeepsWay
<1> HIDE DEF c, do, s, t
<1> QED BY <1>1, <1>2, <1>7, <1>9, <1>10, <1>11, ProvDeviceStep

LEMMA ProvDateMismatchInv ==
  ASSUME Prov!IInv, NEW d \in Fresh, Prov!DateMismatch(d) PROVE Prov!IInv'
<1>1. UNCHANGED <<Prov!given, device, steps, ops, blacklist, chosen, result>>
  BY DEF Prov!DateMismatch
<1>2. Prov!TypeOK'
  BY <1>1 DEF Prov!IInv, Prov!TypeOK, Prov!given
<1>3. Prov!StepsAreWellFormed'
  BY <1>1 DEF Prov!IInv, Prov!StepsAreWellFormed, Prov!StepsFit, Prov!LaterHas, Prov!given
<1>4. Prov!GoodAreOnTheWay'
  BY <1>1 DEF Prov!IInv, Prov!GoodAreOnTheWay, Prov!OnTheWay, Prov!Left, Prov!LaterHas,
        Prov!given
<1>5. Prov!WorkIsOfRun'
  BY <1>1 DEF Prov!IInv, Prov!WorkIsOfRun, Prov!Reported, Prov!given
<1> QED BY <1>2, <1>3, <1>4, <1>5 DEF Prov!IInv

LEMMA ProvSecondChanceInv ==
  ASSUME Prov!IInv, NEW d \in Fresh, Prov!SecondChance(d) PROVE Prov!IInv'
<1> DEFINE do == IF Prov!Current(d).do = "storage" THEN "root" ELSE "reboot"
           v == device[d]
           w == Prov!After(d, do)
           k == kind[d]
<1>1. /\ Prov!Running(d) /\ v.reachable
      /\ device' = [device EXCEPT ![d] =
           IF Prov!Current(d).do = "storage" THEN [device[d] EXCEPT !.root = TRUE] ELSE Prov!Rebooted(d)]
      /\ UNCHANGED <<Prov!given, steps, ops, blacklist, chosen, result>>
  BY DEF Prov!SecondChance
<1>2. /\ result # "starting" /\ ~Prov!Reported /\ d \in chosen /\ ops[d] # <<>>
      /\ device \in [Fresh -> Prov!States] /\ v \in Prov!States
      /\ k \in Prov!Kinds /\ Prov!StepsFit(d)
  BY <1>1, ProvWorking
<1>3. do \in {"root", "reboot"}
  OBVIOUS
<1>4. w = IF Prov!Current(d).do = "storage" THEN [device[d] EXCEPT !.root = TRUE] ELSE Prov!Rebooted(d)
  BY DEF Prov!After
<1>5. device'[d] = w /\ w \in Prov!States /\ \A e \in Fresh \ {d} : device'[e] = device[e]
  BY <1>1, <1>2, <1>4, ProvAfterIs
<1>6. device' \in [Fresh -> Prov!States]
  BY <1>1, <1>2, <1>4, <1>5
<1>7. Prov!TypeOK'
  BY <1>1, <1>6 DEF Prov!IInv, Prov!TypeOK, Prov!given
<1>8. Prov!StepsFit(d)'
  BY <1>1, <1>2 DEF Prov!StepsFit, Prov!LaterHas, Prov!given
<1>9. ASSUME d \notin blacklist' PROVE Prov!OnTheWay(d)'
  <2>1. Prov!OnTheWay(d)
    BY <1>1, <1>9 DEF Prov!IInv, Prov!GoodAreOnTheWay
  <2>2. /\ do # "wipe" /\ v.set => w.set
        /\ v.date => w.date
        /\ w.apps => v.apps
        /\ do # "stop" /\ v.running => w.running
        /\ do # "reboot" => w.reachable = v.reachable
        /\ do = "reboot" => (w.reachable <=> ~k.secure \/ v.keys)
        /\ do # "wipe" /\ v.keys => w.keys
        /\ do = "reboot" => w.effective = w.props
        /\ do \notin {"reboot", "wipe", "local properties"} =>
             w.effective = v.effective /\ w.props = v.props
        /\ do # "wipe" /\ v.props => w.props \/ "local properties" \in w.missed
        /\ "local properties" \in v.missed => "local properties" \in w.missed
    BY <1>2, ProvAfterIs DEF ProvEffect
  <2>3. \A x : Prov!Left(d, x)' <=> Prov!Left(d, x)
    BY <1>1 DEF Prov!Left, Prov!LaterHas
  <2>4. /\ ops'[d] = ops[d] /\ steps'[d] = steps[d] /\ device'[d] = w /\ kind'[d] = k
        /\ options' = options
    BY <1>1, <1>5 DEF Prov!given
  <2>5. Prov!LaterHas(d, "settings")' <=> Prov!LaterHas(d, "settings")
    BY <1>1 DEF Prov!LaterHas
  <2>6. /\ v.set \/ Prov!Left(d, "settings")
        /\ v.date \/ k.user \/ Prov!Left(d, "date")
        /\ v.props \/ k.user \/ "local properties" \in v.missed \/ Prov!Left(d, "local properties")
        /\ options.remove => ~v.apps \/ Prov!Left(d, "remove")
        /\ v.running \/ Prov!Has(ops[d], "start")
        /\ v.reachable /\ k.secure /\ ~v.keys => Prov!EndsInReboot(ops[d]) /\ Prov!LaterHas(d, "settings")
        /\ ~options.emulators /\ v.props # v.effective => Prov!EndsInReboot(ops[d])
    BY <2>1 DEF Prov!OnTheWay
  <2> HIDE DEF do, v, w, k
  <2>7. /\ w.set \/ Prov!Left(d, "settings")
        /\ w.date \/ k.user \/ Prov!Left(d, "date")
        /\ w.props \/ k.user \/ "local properties" \in w.missed \/ Prov!Left(d, "local properties")
        /\ options.remove => ~w.apps \/ Prov!Left(d, "remove")
        /\ w.running \/ Prov!Has(ops[d], "start")
    BY <1>3, <2>2, <2>6
  <2>8. w.reachable /\ k.secure /\ ~w.keys => Prov!EndsInReboot(ops[d]) /\ Prov!LaterHas(d, "settings")
    BY <1>1, <1>3, <2>2, <2>6
  <2>9. ~options.emulators /\ w.props # w.effective => Prov!EndsInReboot(ops[d])
    BY <1>3, <2>2, <2>6
  <2> QED BY <1>2, <2>3, <2>4, <2>5, <2>7, <2>8, <2>9 DEF Prov!OnTheWay
<1> HIDE DEF do, v, w, k
<1>10. \A e \in Fresh \ {d} : device'[e] = device[e] /\ steps'[e] = steps[e] /\ ops'[e] = ops[e]
  BY <1>1, <1>5
<1> QED BY <1>1, <1>2, <1>7, <1>8, <1>9, <1>10, ProvDeviceStep

LEMMA ProvRebootIsWellFormed ==
  /\ <<Prov!Op("reboot")>> \in Seq(Prov!Commands) /\ Prov!EndsInReboot(<<Prov!Op("reboot")>>)
  /\ Prov!WellFormed(<<Prov!Op("reboot")>>, options) /\ ~Prov!Has(<<Prov!Op("reboot")>>, "wipe")
<1>1. Prov!Op("reboot") \in Prov!Commands /\ Prov!Op("reboot").do = "reboot" /\ Prov!Op("reboot").fails = "thread"
  <2>1. "reboot" \in Prov!Names
    BY DEF Prov!Names
  <2> QED BY <2>1, ProvOpIsCommand
<1>2. PICK r \in Prov!Commands : r = Prov!Op("reboot")
  BY <1>1
<1>3. <<r>> \in Seq(Prov!Commands) /\ Len(<<r>>) = 1 /\ <<r>>[1] = r
  OBVIOUS
<1>4. \A i \in 1..Len(<<r>>) : <<r>>[i] = r
  OBVIOUS
<1>5. Prov!EndsInReboot(<<r>>)
  BY <1>1, <1>2, <1>3 DEF Prov!EndsInReboot
<1>6. Prov!WellFormed(<<r>>, options) /\ ~Prov!Has(<<r>>, "wipe")
  BY <1>1, <1>2, <1>4, <1>5 DEF Prov!WellFormed, Prov!Has
<1> QED BY <1>2, <1>3, <1>5, <1>6

(* A command that failed with or without effect, of those that are not     *)
(* needed.                                                                 *)
LEMMA ProvFailedIs ==
  ASSUME NEW d \in Fresh, device \in [Fresh -> Prov!States], kind[d] \in Prov!Kinds, NEW do,
         Prov!LeavesBehind(d, do)
  PROVE  /\ device' \in [Fresh -> Prov!States] /\ \A e \in Fresh \ {d} : device'[e] = device[e]
         /\ do \notin Prov!Needed => ProvEffect(d, do, device'[d])
<1>1. PICK left \in {device[d]} \cup (IF Prov!Possible(d, do) THEN {Prov!After(d, do)} ELSE {}) :
        device' = [device EXCEPT ![d] = [left EXCEPT !.missed = left.missed \cup ({do} \cap Prov!Noted)]]
  BY DEF Prov!LeavesBehind
<1>2. device[d] \in Prov!States
  OBVIOUS
<1>3. left = device[d] \/ left = Prov!After(d, do)
  BY <1>1
<1>4. Prov!After(d, do) \in Prov!States /\ ProvEffect(d, do, Prov!After(d, do))
  BY <1>2, ProvAfterIs
<1>5. left \in Prov!States
  BY <1>2, <1>3, <1>4
<1> DEFINE m == left.missed \cup ({do} \cap Prov!Noted)
           w == [left EXCEPT !.missed = m]
<1>6. m \in SUBSET Prov!Noted
  BY <1>5 DEF Prov!States
<1>7. device' = [device EXCEPT ![d] = w]
  BY <1>1
<1>8. left.missed \subseteq m /\ (do = "local properties" => "local properties" \in m)
  BY DEF Prov!Noted
<1> HIDE DEF m
<1>9. /\ w \in Prov!States /\ w.missed = m /\ w.set = left.set /\ w.date = left.date
      /\ w.apps = left.apps /\ w.running = left.running /\ w.reachable = left.reachable
      /\ w.keys = left.keys /\ w.props = left.props /\ w.effective = left.effective
  BY <1>5, <1>6 DEF Prov!States
<1> HIDE DEF w
<1>10. device' \in [Fresh -> Prov!States] /\ device'[d] = w
  BY <1>7, <1>9
<1>11. \A e \in Fresh \ {d} : device'[e] = device[e]
  BY <1>7
<1>12. ASSUME do \notin Prov!Needed PROVE ProvEffect(d, do, w)
  <2>1. do \notin {"settings", "date", "remove", "stop", "start", "reboot"}
    BY <1>12 DEF Prov!Needed
  <2>2. CASE left = device[d]
    BY <1>8, <1>9, <2>1, <2>2 DEF ProvEffect
  <2>3. CASE left = Prov!After(d, do)
    <3>1. ProvEffect(d, do, left)
      BY <1>4, <2>3
    <3> QED BY <1>8, <1>9, <3>1 DEF ProvEffect
  <2> QED BY <1>3, <2>2, <2>3
<1> QED BY <1>10, <1>11, <1>12

LEMMA ProvFailsInv ==
  ASSUME Prov!IInv, NEW d \in Fresh, Prov!Fails(d) PROVE Prov!IInv'
<1> DEFINE c == Prov!Current(d)
           s == ops[d]
<1>1. /\ Prov!Running(d) /\ UNCHANGED <<Prov!given, chosen, result>>
      /\ Prov!LeavesBehind(d, c.do)
      /\ \/ /\ device[d].reachable /\ c.fails = "nothing"
            /\ ops' = [ops EXCEPT ![d] = Tail(@)] /\ UNCHANGED <<steps, blacklist>>
         \/ /\ device[d].reachable /\ c.fails = "step"
            /\ ops' = [ops EXCEPT ![d] = <<Prov!Op("reboot")>>]
            /\ UNCHANGED <<steps, blacklist>>
         \/ /\ ops' = [ops EXCEPT ![d] = <<>>] /\ steps' = [steps EXCEPT ![d] = <<>>]
            /\ blacklist' = blacklist \cup {d}
  BY DEF Prov!Fails, Prov!Blacklists
<1>2. /\ result # "starting" /\ ~Prov!Reported /\ d \in chosen
      /\ s \in Seq(Prov!Commands) /\ s # <<>>
      /\ c \in Prov!Commands /\ Tail(s) \in Seq(Prov!Commands)
      /\ device \in [Fresh -> Prov!States] /\ Prov!StepsFit(d)
      /\ kind[d] \in Prov!Kinds
  BY <1>1, ProvWorking
<1>12. /\ device' \in [Fresh -> Prov!States] /\ \A e \in Fresh \ {d} : device'[e] = device[e]
       /\ c.do \notin Prov!Needed => ProvEffect(d, c.do, device'[d])
  BY <1>1, <1>2, ProvFailedIs
<1>3. ops \in [Fresh -> Seq(Prov!Commands)] /\ steps \in [Fresh -> Seq(Seq(Prov!Commands))]
  BY DEF Prov!IInv, Prov!TypeOK
<1>4. \A e \in Fresh \ {d} : device'[e] = device[e] /\ steps'[e] = steps[e] /\ ops'[e] = ops[e]
  BY <1>1, <1>3, <1>12
<1>5. <<>> \in Seq(Prov!Commands) /\ <<>> \in Seq(Seq(Prov!Commands))
  OBVIOUS
<1>6. Prov!TypeOK'
  <2>1. ops' \in [Fresh -> Seq(Prov!Commands)]
    <3>1. CASE ops' = [ops EXCEPT ![d] = Tail(@)]
      BY <1>2, <1>3, <3>1
    <3>2. CASE ops' = [ops EXCEPT ![d] = <<Prov!Op("reboot")>>]
      BY <1>3, <3>2, ProvRebootIsWellFormed
    <3>3. CASE ops' = [ops EXCEPT ![d] = <<>>]
      BY <1>3, <1>5, <3>3
    <3> QED BY <1>1, <3>1, <3>2, <3>3
  <2>2. steps' \in [Fresh -> Seq(Seq(Prov!Commands))]
    BY <1>1, <1>3, <1>5
  <2>3. blacklist' \subseteq Fresh
    BY <1>1 DEF Prov!IInv, Prov!TypeOK
  <2> QED BY <1>1, <1>12, <2>1, <2>2, <2>3 DEF Prov!IInv, Prov!TypeOK, Prov!given
<1>7. /\ \A x : Prov!Has(s, x) <=> c.do = x \/ Prov!Has(Tail(s), x)
      /\ Prov!EndsInReboot(s) /\ c.do # "reboot" => Prov!EndsInReboot(Tail(s))
      /\ Prov!WellFormed(s, options) => Prov!WellFormed(Tail(s), options)
  BY <1>2, ProvTailKeeps DEF Prov!Current
<1>8. blacklist \subseteq blacklist' /\ options' = options /\ kind' = kind
  BY <1>1 DEF Prov!given
<1>9. CASE /\ device[d].reachable /\ c.fails = "nothing"
           /\ ops' = [ops EXCEPT ![d] = Tail(@)] /\ UNCHANGED <<steps, blacklist>>
  <2>1. ops'[d] = Tail(s) /\ steps'[d] = steps[d]
    BY <1>1, <1>3, <1>9
  <2>2. c.do \notin Prov!Needed
    BY <1>2, <1>9 DEF Prov!Commands
  <2>3. Prov!StepsFit(d)'
    BY <1>2, <1>7, <1>8, <2>1 DEF Prov!StepsFit
  <2>4. ASSUME d \notin blacklist' PROVE Prov!OnTheWay(d)'
    BY <1>1, <1>9, <1>12, <2>1, <2>2, <2>4, ProvTailKeepsWay
  <2> QED BY <1>1, <1>2, <1>4, <1>6, <1>8, <2>3, <2>4, ProvDeviceStep
<1>10. CASE /\ device[d].reachable /\ c.fails = "step"
            /\ ops' = [ops EXCEPT ![d] = <<Prov!Op("reboot")>>]
            /\ UNCHANGED <<steps, blacklist>>
  <2>1. ops'[d] = <<Prov!Op("reboot")>> /\ steps'[d] = steps[d]
    BY <1>1, <1>3, <1>10
  <2>7. c.do \notin Prov!Needed
    BY <1>2, <1>10 DEF Prov!Commands
  <2>2. \A x \in {"local properties", "settings", "date", "remove", "start"} : ~Prov!Has(s, x)
    <3>1. 1 \in 1..Len(s) /\ s[1] = c
      BY <1>2, ProvTailIs DEF Prov!Current
    <3>2. Prov!WellFormed(s, options)
      BY <1>2 DEF Prov!StepsFit
    <3> QED BY <1>10, <3>1, <3>2 DEF Prov!WellFormed
  <2>3. \A x : Prov!LaterHas(d, x)' <=> Prov!LaterHas(d, x)
    BY <2>1 DEF Prov!LaterHas
  <2>4. Prov!WellFormed(ops'[d], options) /\ Prov!EndsInReboot(ops'[d]) /\ ~Prov!Has(ops'[d], "wipe") /\ ops'[d] # <<>>
    BY <2>1, ProvRebootIsWellFormed DEF Prov!EndsInReboot
  <2>5. Prov!StepsFit(d)'
    BY <1>2, <1>8, <2>1, <2>3, <2>4 DEF Prov!StepsFit
  <2>6. ASSUME d \notin blacklist' PROVE Prov!OnTheWay(d)'
    <3> DEFINE do == c.do
               v == device[d]
               w == device'[d]
               k == kind[d]
    <3>1. Prov!OnTheWay(d)
      BY <1>10, <2>6 DEF Prov!IInv, Prov!GoodAreOnTheWay
    <3>2. \A x : Prov!LaterHas(d, x) => Prov!Left(d, x)'
      BY <2>3 DEF Prov!Left
    <3>3. \A x \in {"local properties", "settings", "date", "remove"} : Prov!Left(d, x) => Prov!LaterHas(d, x)
      BY <2>2 DEF Prov!Left
    <3>4. /\ do \notin {"settings", "date", "remove", "stop", "start", "reboot"}
          /\ do # "local properties"
      <4>1. Prov!Has(s, do)
        BY <1>7
      <4> QED BY <2>2, <2>7, <4>1 DEF Prov!Needed
    <3>5. do = "wipe" => Prov!LaterHas(d, "settings") /\ (k.user \/ Prov!LaterHas(d, "local properties"))
      BY <1>2, <1>7 DEF Prov!StepsFit, Prov!SetsAll, Prov!LaterHas
    <3>6. ProvEffect(d, do, w)
      BY <1>12, <2>7
    <3>7. /\ do # "wipe" /\ v.set => w.set
          /\ v.date => w.date
          /\ w.apps => v.apps
          /\ v.running => w.running
          /\ w.reachable = v.reachable
          /\ do # "wipe" /\ v.keys => w.keys
          /\ do # "wipe" /\ v.props => w.props \/ "local properties" \in w.missed
          /\ "local properties" \in v.missed => "local properties" \in w.missed
      BY <3>4, <3>6 DEF ProvEffect
    <3>8. /\ v.set \/ Prov!Left(d, "settings")
          /\ v.date \/ k.user \/ Prov!Left(d, "date")
          /\ v.props \/ k.user \/ "local properties" \in v.missed \/ Prov!Left(d, "local properties")
          /\ options.remove => ~v.apps \/ Prov!Left(d, "remove")
          /\ v.running \/ Prov!Has(s, "start")
          /\ v.reachable /\ k.secure /\ ~v.keys => Prov!LaterHas(d, "settings")
      BY <3>1 DEF Prov!OnTheWay
    <3>9. v.reachable /\ kind'[d] = k /\ options' = options
      BY <1>8, <1>10
    <3> HIDE DEF do, v, w, k
    <3>10. w.set \/ Prov!Left(d, "settings")'
      BY <3>2, <3>3, <3>5, <3>7, <3>8
    <3>11. w.date \/ k.user \/ Prov!Left(d, "date")'
      BY <3>2, <3>3, <3>7, <3>8
    <3>12. w.props \/ k.user \/ "local properties" \in w.missed \/ Prov!Left(d, "local properties")'
      BY <3>2, <3>3, <3>5, <3>7, <3>8
    <3>13. options.remove => ~w.apps \/ Prov!Left(d, "remove")'
      BY <3>2, <3>3, <3>7, <3>8
    <3>14. w.running
      BY <2>2, <3>7, <3>8
    <3>15. w.reachable
      BY <3>7, <3>9
    <3>16. w.reachable /\ k.secure /\ ~w.keys => Prov!LaterHas(d, "settings")
      BY <3>5, <3>7, <3>8
    <3> QED BY <2>3, <2>4, <3>9, <3>10, <3>11, <3>12, <3>13, <3>14, <3>15, <3>16 DEF Prov!OnTheWay, w
  <2> QED BY <1>1, <1>2, <1>4, <1>6, <1>8, <2>5, <2>6, ProvDeviceStep
<1>11. CASE /\ ops' = [ops EXCEPT ![d] = <<>>] /\ steps' = [steps EXCEPT ![d] = <<>>]
            /\ blacklist' = blacklist \cup {d}
  <2>1. ops'[d] = <<>> /\ steps'[d] = <<>> /\ d \in blacklist'
    BY <1>3, <1>11
  <2>2. Prov!WellFormed(<<>>, options) /\ ~Prov!Has(<<>>, "wipe")
    BY DEF Prov!WellFormed, Prov!Has
  <2>3. \A i \in 1..Len(<<>>) : FALSE
    OBVIOUS
  <2>4. Prov!StepsFit(d)'
    BY <1>8, <2>1, <2>2, <2>3 DEF Prov!StepsFit
  <2> QED BY <1>1, <1>2, <1>4, <1>6, <1>8, <2>1, <2>4, ProvDeviceStep
<1> QED BY <1>1, <1>9, <1>10, <1>11

LEMMA ProvGetDevicesInv ==
  ASSUME Prov!IInv, Prov!GetDevices PROVE Prov!IInv'
<1>a. PICK attached, listed, asked, serial \in SUBSET Fresh :
        Prov!Chooses(attached, listed, asked, serial)
  BY DEF Prov!GetDevices
<1>1. /\ blacklist' = listed
      /\ device' = [d \in Fresh |-> [device[d] EXCEPT !.reachable = d \in attached]]
      /\ result' \in {"no devices", "unreachable", "running"}
      /\ result' # "running" => chosen' = {}
      /\ chosen' \subseteq Fresh
  BY <1>a DEF Prov!Chooses, Prov!HealthyDevices
<1>2. result = "starting" /\ UNCHANGED <<Prov!given, steps, ops>>
  BY DEF Prov!GetDevices
<1>3. /\ \A d \in Fresh : ops[d] = <<>> /\ steps[d] # <<>> /\ (kind[d].secure => device[d].keys)
      /\ blacklist = {}
  BY <1>2 DEF Prov!IInv, Prov!WorkIsOfRun
<1>4. chosen' \subseteq Fresh
  BY <1>1
<1>5. ASSUME NEW d \in Fresh
      PROVE  /\ device'[d] \in Prov!States /\ device'[d].keys = device[d].keys
             /\ device'[d].set = device[d].set
             /\ device'[d].date = device[d].date /\ device'[d].apps = device[d].apps
             /\ device'[d].running = device[d].running /\ device'[d].missed = device[d].missed
             /\ device'[d].props = device[d].props /\ device'[d].effective = device[d].effective
  <2>1. device[d] \in Prov!States
    BY DEF Prov!IInv, Prov!TypeOK
  <2>2. device'[d] = [device[d] EXCEPT !.reachable = d \in attached]
    BY <1>1
  <2> DEFINE r == d \in attached
  <2>3. r \in BOOLEAN
    OBVIOUS
  <2>4. device'[d] = [device[d] EXCEPT !.reachable = r]
    BY <2>2
  <2> HIDE DEF r
  <2> QED BY <2>1, <2>3, <2>4 DEF Prov!States
<1>6. Prov!TypeOK'
  <2>1. device' \in [Fresh -> Prov!States]
    BY <1>1, <1>5
  <2> QED BY <1>1, <1>2, <1>4, <2>1 DEF Prov!IInv, Prov!TypeOK, Prov!given
<1>7. Prov!StepsAreWellFormed'
  BY <1>2 DEF Prov!IInv, Prov!StepsAreWellFormed, Prov!StepsFit, Prov!LaterHas, Prov!given
<1>8. ASSUME NEW d \in Fresh PROVE Prov!OnTheWay(d)'
  <2>1. Prov!OnTheWay(d)
    BY <1>3 DEF Prov!IInv, Prov!GoodAreOnTheWay
  <2>2. \A x : Prov!Left(d, x)' <=> Prov!Left(d, x)
    BY <1>2 DEF Prov!Left, Prov!LaterHas
  <2>3. ~Prov!Has(<<>>, "start") /\ ~Prov!EndsInReboot(<<>>)
    BY DEF Prov!Has, Prov!EndsInReboot
  <2>4. /\ device[d].running
        /\ ~(~options.emulators /\ device[d].props # device[d].effective)
    BY <1>3, <2>1, <2>3 DEF Prov!OnTheWay
  <2>5. options' = options /\ kind' = kind /\ steps' = steps
    BY <1>2 DEF Prov!given
  <2> QED BY <1>3, <1>5, <2>1, <2>2, <2>4, <2>5 DEF Prov!OnTheWay
<1>9. Prov!WorkIsOfRun'
  <2>1. ops' = ops /\ result' # "starting"
    BY <1>1, <1>2
  <2>2. Prov!Reported' => chosen' = {}
    BY <1>1 DEF Prov!Reported
  <2> QED BY <1>3, <2>1, <2>2 DEF Prov!WorkIsOfRun
<1> QED BY <1>6, <1>7, <1>8, <1>9 DEF Prov!IInv, Prov!GoodAreOnTheWay

LEMMA ProvProvisionDevicesInv ==
  ASSUME Prov!IInv, Prov!ProvisionDevices PROVE Prov!IInv'
<1>1. /\ result = "running" /\ result' \in {"no devices", "done"}
      /\ \A d \in chosen : ops[d] = <<>> /\ steps[d] = <<>>
      /\ UNCHANGED <<Prov!given, device, steps, ops, blacklist, chosen>>
  BY DEF Prov!ProvisionDevices, Prov!Ended
<1>2. Prov!TypeOK'
  BY <1>1 DEF Prov!IInv, Prov!TypeOK, Prov!given
<1>3. Prov!StepsAreWellFormed'
  BY <1>1 DEF Prov!IInv, Prov!StepsAreWellFormed, Prov!StepsFit, Prov!LaterHas, Prov!given
<1>4. Prov!GoodAreOnTheWay'
  BY <1>1 DEF Prov!IInv, Prov!GoodAreOnTheWay, Prov!OnTheWay, Prov!Left, Prov!LaterHas,
        Prov!given
<1>5. Prov!WorkIsOfRun'
  <2>1. \A d \in Fresh : ops[d] # <<>> => d \in chosen
    BY DEF Prov!IInv, Prov!WorkIsOfRun
  <2> QED BY <1>1, <2>1 DEF Prov!WorkIsOfRun, Prov!Reported
<1> QED BY <1>2, <1>3, <1>4, <1>5 DEF Prov!IInv

LEMMA ProvNextInv == Prov!IInv /\ [Prov!Next]_(Prov!vars) => Prov!IInv'
<1> SUFFICES ASSUME Prov!IInv, [Prov!Next]_(Prov!vars) PROVE Prov!IInv'
  OBVIOUS
<1>1. ASSUME NEW d \in Fresh, Prov!NextStep(d) PROVE Prov!IInv'
  BY <1>1, ProvNextStepInv
<1>2. ASSUME NEW d \in Fresh, Prov!Succeeds(d) PROVE Prov!IInv'
  BY <1>2, ProvSucceedsInv
<1>3. ASSUME NEW d \in Fresh, Prov!DateMismatch(d) PROVE Prov!IInv'
  BY <1>3, ProvDateMismatchInv
<1>4. ASSUME NEW d \in Fresh, Prov!SecondChance(d) PROVE Prov!IInv'
  BY <1>4, ProvSecondChanceInv
<1>5. ASSUME NEW d \in Fresh, Prov!Fails(d) PROVE Prov!IInv'
  BY <1>5, ProvFailsInv
<1>6. CASE Prov!GetDevices
  BY <1>6, ProvGetDevicesInv
<1>7. CASE Prov!ProvisionDevices
  BY <1>7, ProvProvisionDevicesInv
<1>8. CASE UNCHANGED Prov!vars
  <2>1. UNCHANGED <<Prov!given, device, steps, ops, blacklist, chosen, result>>
    BY <1>8 DEF Prov!vars
  <2>2. Prov!TypeOK'
    BY <2>1 DEF Prov!IInv, Prov!TypeOK, Prov!given
  <2>3. Prov!StepsAreWellFormed'
    BY <2>1 DEF Prov!IInv, Prov!StepsAreWellFormed, Prov!StepsFit, Prov!LaterHas, Prov!given
  <2>4. Prov!GoodAreOnTheWay'
    BY <2>1 DEF Prov!IInv, Prov!GoodAreOnTheWay, Prov!OnTheWay, Prov!Left, Prov!LaterHas,
          Prov!given
  <2>5. Prov!WorkIsOfRun'
    BY <2>1 DEF Prov!IInv, Prov!WorkIsOfRun, Prov!Reported, Prov!given
  <2> QED BY <2>2, <2>3, <2>4, <2>5 DEF Prov!IInv
<1> QED BY <1>1, <1>2, <1>3, <1>4, <1>5, <1>6, <1>7, <1>8 DEF Prov!Next

LEMMA ProvInvSuffices == Prov!IInv => Prov!GoodIsReady /\ Prov!PropertiesAreInEffect
<1> SUFFICES ASSUME Prov!IInv PROVE Prov!GoodIsReady /\ Prov!PropertiesAreInEffect
  OBVIOUS
<1>1. ASSUME NEW d \in Fresh, Prov!Good(d)
      PROVE  /\ device[d].reachable /\ device[d].running /\ device[d].set
             /\ device[d].date \/ kind[d].user
             /\ options.remove => ~device[d].apps
             /\ ~options.emulators => device[d].effective = device[d].props
             /\ device[d].props \/ kind[d].user \/ "local properties" \in device[d].missed
  <2>1. Prov!OnTheWay(d) /\ ops[d] = <<>> /\ steps[d] = <<>>
    BY <1>1 DEF Prov!IInv, Prov!Good, Prov!GoodAreOnTheWay, Prov!WorkIsOfRun
  <2>2. \A x : ~Prov!Has(<<>>, x) /\ ~Prov!EndsInReboot(<<>>)
    BY DEF Prov!Has, Prov!EndsInReboot
  <2>3. \A x : ~Prov!Left(d, x)
    BY <2>1, <2>2 DEF Prov!Left, Prov!LaterHas
  <2> QED BY <2>1, <2>2, <2>3 DEF Prov!OnTheWay
<1>2. Prov!GoodIsReady
  BY <1>1 DEF Prov!GoodIsReady
<1>3. Prov!PropertiesAreInEffect
  BY <1>1 DEF Prov!PropertiesAreInEffect
<1> QED BY <1>2, <1>3

-----------------------------------------------------------------------------
(* Downloads: the local file is whole, for any number of processes and of  *)
(* contents, and a caller that holds the lock has the one it asked for.    *)

USE DEF ContentsDiffer, Contents, Locked, Goes, Ends

LEMMA InitInv == ASSUME ContentsDiffer PROVE Init => IInv
BY DEF Init, IInv, TypeOK, HolderWorks, DownloadsAreWhole, FileIsWhole, CallerHasItsFile, MovesWhatItWants

(* Calling, taking the lock and giving up.                                 *)
LEMMA CallInv ==
  ASSUME ContentsDiffer, IInv, NEW p \in Processes, Call(p) \/ Acquire(p) \/ WaitTimesOut(p)
  PROVE  IInv'
<1>1. TypeOK'
  BY DEF Call, Acquire, TakeLock, WaitTimesOut, local, IInv, TypeOK, Errors
<1>2. HolderWorks'
  BY DEF Call, Acquire, TakeLock, WaitTimesOut, local, IInv, TypeOK, HolderWorks
<1> QED BY <1>1, <1>2 DEF Call, Acquire, TakeLock, WaitTimesOut, local, IInv, TypeOK, DownloadsAreWhole,
             FileIsWhole, CallerHasItsFile, MovesWhatItWants

LEMMA ChecksInv ==
  ASSUME ContentsDiffer, IInv, NEW p \in Processes, Checks(p)
  PROVE  IInv'
<1>1. TypeOK'
  BY DEF Checks, Wanted, local, IInv, TypeOK
<1> QED BY <1>1 DEF Checks, Wanted, local, IInv, TypeOK, HolderWorks, DownloadsAreWhole,
             FileIsWhole, CallerHasItsFile, MovesWhatItWants

(* A download writes the temporary file, whatever becomes of it.           *)
LEMMA DownloadInv ==
  ASSUME ContentsDiffer, IInv, NEW p \in Processes, Downloads(p) \/ DownloadFails(p)
  PROVE  IInv'
<1>1. TypeOK'
  BY DEF Downloads, DownloadFails, WorthRetrying, Counted, Reported, IInv, TypeOK, Errors
<1>2. UNCHANGED <<op, want, holder, hashFile, file, bucket>>
  BY DEF Downloads, DownloadFails
<1>3. /\ pc[p] = "downloads" /\ pc' \in [Processes -> Locked \cup {"idle", "waits"}]
      /\ \A q \in Processes : q # p => pc'[q] = pc[q] /\ temp'[q] = temp[q] /\ answer'[q] = answer[q]
      /\ pc'[p] = "ends" => answer'[p] \in Errors
      /\ pc'[p] = "copied" => temp'[p] = want[p]
      /\ pc'[p] \in {"downloads", "copied", "ends"}
  BY <1>1 DEF Downloads, DownloadFails, Reported, IInv, TypeOK, Errors
<1> QED BY <1>1, <1>2, <1>3 DEF IInv, TypeOK, HolderWorks, Errors, DownloadsAreWhole,
             FileIsWhole, CallerHasItsFile, MovesWhatItWants

(* Only the holder of the lock moves, and nobody else is at its end.       *)
LEMMA MovesInv ==
  ASSUME ContentsDiffer, IInv, NEW p \in Processes, Moves(p)
  PROVE  IInv'
<1>1. TypeOK'
  BY DEF Moves, Move, IInv, TypeOK
<1> QED BY <1>1 DEF Moves, Move, IInv, TypeOK, HolderWorks, DownloadsAreWhole,
             FileIsWhole, CallerHasItsFile, MovesWhatItWants

LEMMA ReleaseInv ==
  ASSUME ContentsDiffer, IInv, NEW p \in Processes, Release(p) \/ Dies(p)
  PROVE  IInv'
<1>1. TypeOK'
  BY DEF Release, Dies, local, IInv, TypeOK
<1> QED BY <1>1 DEF Release, Dies, local, IInv, TypeOK, HolderWorks, DownloadsAreWhole,
             FileIsWhole, CallerHasItsFile, MovesWhatItWants

LEMMA NextInv == ASSUME ContentsDiffer, IInv, [Next]_vars PROVE IInv'
<1>1. CASE Others
  <2>1. TypeOK'
    BY <1>1 DEF Others, calls, local, IInv, TypeOK
  <2> QED BY <1>1, <2>1 DEF Others, calls, local, IInv, HolderWorks, DownloadsAreWhole,
               FileIsWhole, CallerHasItsFile, MovesWhatItWants
<1>2. CASE UNCHANGED vars
  BY <1>2 DEF vars, calls, local, IInv, TypeOK, HolderWorks, DownloadsAreWhole, FileIsWhole,
        CallerHasItsFile, MovesWhatItWants
<1> QED BY <1>1, <1>2, CallInv, ChecksInv, DownloadInv, MovesInv, ReleaseInv DEF Next, Proceeds

-----------------------------------------------------------------------------
(* The composition: a step is one of the component whose behaviour it is,  *)
(* or leaves the variables of that component alone.                        *)
LEMMA AnyStep ==
  ASSUME [AnyNext]_allVars
  PROVE  /\ component' = component
         /\ [Next]_vars
         /\ component = "recovery" => [Rec!Next]_(Rec!vars)
         /\ component = "provision" => [Prov!Next]_(Prov!vars)
<1>1. CASE UNCHANGED allVars
  BY <1>1 DEF allVars, ofRecovery, ofProvision, Rec!vars, Rec!outside,
        Prov!vars, Prov!given
<1>2. CASE AnyNext
  BY <1>1, <1>2 DEF AnyNext, Stops
<1> QED BY <1>1, <1>2

(* The invariant of the downloads, inductive for any number of processes   *)
(* and contents.                                                           *)
THEOREM Invariance == AnySpec => []IInv
<1>a. ContentsDiffer
  BY CloudStorageAssumption
<1>1. AnyInit => IInv
  BY <1>a, InitInv DEF AnyInit
<1>2. IInv /\ [AnyNext]_allVars => IInv'
  BY <1>a, NextInv, AnyStep
<1> QED BY <1>1, <1>2, PTL DEF AnySpec

(* Whoever looks at the file finds whole contents or none; until it lets   *)
(* go of the lock, a caller finds what it asked for, whoever dies.         *)
THEOREM WholeDownloads == AnySpec => []DownloadsAreWhole
<1>1. IInv => DownloadsAreWhole
  BY DEF IInv
<1> QED BY <1>1, Invariance, PTL

(* If one script at a time uses the blacklist, whichever device, command   *)
(* or reset fails: every device that was noted is on the list, one that    *)
(* was noted because of its USB is not rebooted, and a device that         *)
(* provisioning has not put on it is ready, but for what a failure that is *)
(* only logged has left out.                                               *)
THEOREM TrueLists == ASSUME Rec!OneProgram PROVE AnySpec => ListedIsTrue
<1> DEFINE Inv == /\ component = "provision" => Prov!IInv
                  /\ component = "recovery" => Rec!IInv
           Clean == component = "recovery" => Rec!RebootedAreClean
           True == /\ component = "provision" =>
                        Prov!IInv /\ Prov!GoodIsReady /\ Prov!PropertiesAreInEffect
                   /\ component = "recovery" =>
                        Rec!IInv /\ Rec!NotedAreListed /\ Rec!StatusIsTrue
<1>1. AnyInit => Inv
  BY ProvInitInv, RecInitInv DEF AnyInit
<1>2. Inv /\ [AnyNext]_allVars => Inv' /\ Clean
  BY ProvNextInv, RecNextInv, RecRebootsAreClean, AnyStep
<1>3. Inv => True
  BY ProvInvSuffices, RecInvSuffices
<1> QED BY <1>1, <1>2, <1>3, PTL DEF AnySpec, ListedIsTrue
=============================================================================
