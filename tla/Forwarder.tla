------------------------------ MODULE Forwarder ------------------------------
(***************************************************************************)
(* devil.android.forwarder: processes share one host daemon and one daemon *)
(* per device; each keeps its own maps of the ports it has forwarded.  A   *)
(* lock file guards every call; a call that fails keeps what it has done.  *)
(***************************************************************************)
EXTENDS Naturals, FiniteSets

CONSTANTS
  Processes,
  Group,    \* os.getpgrp() of each process: the "sharder"
  Pairs,    \* <<serial, device port, host port>> that callers ask for
  NoOne     \* neither a process nor a group

Serials == {pair[1] : pair \in Pairs}

VARIABLES
  holder,       \* the process that holds the file lock
  call,         \* its call: what is left to do
  raised,       \* how the last call ended
  pidFile,      \* the group written to the lock file
  instance,     \* processes that have constructed the singleton
  initialized,  \* _initialized_devices of each process
  toHost,       \* _device_to_host_port_map of each process
  toDevice,     \* _host_to_device_port_map of each process
  forwards,     \* what the host daemon forwards, for whom, and whether its
                \* maker has lost it: was not told of it, or forgot it
  running,      \* devices with a running device_forwarder
  installed     \* devices with the program of the device_forwarder

maps == <<toHost, toDevice>>
daemons == <<forwards, running, installed>>
vars == <<holder, call, raised, pidFile, instance, initialized, maps, daemons>>

Idle == [name |-> "idle", serial |-> NoOne, todo |-> {}]

Init ==
  /\ holder = NoOne /\ call = Idle /\ raised = "nothing"
  /\ pidFile = NoOne /\ instance = {}
  /\ initialized = [p \in Processes |-> {}]
  /\ toHost = [p \in Processes |-> {}]
  /\ toDevice = [p \in Processes |-> {}]
  /\ forwards = {} /\ running = {}
  /\ installed \in SUBSET Serials

-----------------------------------------------------------------------------
Ends(how) == holder' = NoOne /\ call' = Idle /\ raised' = how
GoesOn(c) == call' = c /\ UNCHANGED <<holder, raised>>
Lives == UNCHANGED <<pidFile, instance>>
Has(p, name) == holder = p /\ p \in instance /\ call.name = name

Begin(p, name, serial, todo) ==
  /\ holder = NoOne
  /\ holder' = p
  /\ call' = [name |-> name, serial |-> serial, todo |-> todo]
  /\ UNCHANGED <<raised, pidFile, instance, initialized, maps, daemons>>

(* The calls; Map gets a list of ports of one device.                      *)
Calls(p) ==
  \/ \E s \in Serials : \E todo \in SUBSET {q \in Pairs : q[1] = s} :
       Begin(p, "init", s, todo)
  \/ \E q \in Pairs : Begin(p, "unmap", q[1], {q})
  \/ \E s \in Serials, name \in {"unmapAll", "killDevice"} :
       Begin(p, name, s, {})
  \/ Begin(p, "killHost", NoOne, {})

HostIsStale(p) == pidFile # Group[p]

(* The constructor: a daemon of another group is killed, then the lock     *)
(* file is written; a kill that fails leaves no instance.                  *)
GetInstanceLocked(p) ==
  /\ holder = p /\ p \notin instance
  /\ \/ /\ ~HostIsStale(p)
        /\ UNCHANGED <<forwards, pidFile, call, holder, raised>>
        /\ instance' = instance \cup {p}
     \/ /\ HostIsStale(p)
        /\ forwards' = {} /\ pidFile' = Group[p]
        /\ instance' = instance \cup {p}
        /\ UNCHANGED <<call, holder, raised>>
     \/ /\ HostIsStale(p)
        /\ Ends("HostForwarderError")
        /\ UNCHANGED <<forwards, pidFile, instance>>
  /\ UNCHANGED <<initialized, maps, running, installed>>

Of(serial) == {f \in forwards : f.pair[1] = serial}
Stopped(serial, killed) == IF killed THEN forwards \ Of(serial) ELSE forwards

(* _KillDeviceLocked: forgotten first, then stopped, if it can be.         *)
KillDeviceLocked(p, s, killed) ==
  /\ killed \/ s \in installed
  /\ initialized' = [initialized EXCEPT ![p] = @ \ {s}]
  /\ running' = IF killed THEN running \ {s} ELSE running
  /\ UNCHANGED installed

Pushed(serial) == installed \cup {serial}

(* The old daemon is killed, or the device rebooted; the new one is pushed *)
(* and started; a step that fails ends the call.                           *)
InitDeviceLocked(p) ==
  LET s == call.serial IN
  /\ Has(p, "init") /\ Lives /\ UNCHANGED maps
  /\ IF s \in initialized[p]
       THEN GoesOn([call EXCEPT !.name = "map"]) /\ UNCHANGED <<initialized, daemons>>
       ELSE \/ /\ forwards' = forwards \ Of(s)
               /\ running' = running \cup {s}
               /\ installed' = Pushed(s)
               /\ initialized' = [initialized EXCEPT ![p] = @ \cup {s}]
               /\ GoesOn([call EXCEPT !.name = "map"])
            \/ /\ \E killed \in BOOLEAN :
                    /\ forwards' = Stopped(s, killed)
                    /\ running' = IF killed THEN running \ {s} ELSE running
               /\ installed' \in {installed, Pushed(s)}
               /\ Ends("DeviceError") /\ UNCHANGED initialized

InUse(pair) ==
  \E f \in forwards : f.pair[1] = pair[1] /\ f.pair[2] = pair[2]

(* One --map command: it succeeds, it exits with an error, or its answer   *)
(* does not come or is not understood, and the forward it may have made is *)
(* in no map.                                                              *)
MapSucceeds(p, pair) ==
  /\ pair[1] \in running /\ ~InUse(pair)
  /\ forwards' = forwards \cup {[pair |-> pair, maker |-> p, lost |-> FALSE]}
  /\ toHost' = [toHost EXCEPT ![p] =
       {q \in @ : <<q[1], q[2]>> # <<pair[1], pair[2]>>} \cup {pair}]
  /\ toDevice' = [toDevice EXCEPT ![p] =
       {q \in @ : q[3] # pair[3]} \cup {pair}]
  /\ GoesOn([call EXCEPT !.todo = @ \ {pair}])
  /\ UNCHANGED <<initialized, running, installed>>

(* The handler of a failing kill names an exception that it does not have. *)
MapFails(p, s) ==
  /\ UNCHANGED maps
  /\ \E killed \in BOOLEAN :
       /\ KillDeviceLocked(p, s, killed)
       /\ forwards' = Stopped(s, killed)
       /\ Ends(IF killed THEN "HostForwarderError" ELSE "NameError")

AnswerLost(p, pair) ==
  /\ \/ UNCHANGED forwards
     \/ /\ pair[1] \in running /\ ~InUse(pair)
        /\ forwards' = forwards \cup {[pair |-> pair, maker |-> p, lost |-> TRUE]}
  /\ Ends("HostForwarderError")
  /\ UNCHANGED <<initialized, maps, running, installed>>

MapPair(p) ==
  /\ Has(p, "map") /\ Lives
  /\ \E pair \in call.todo :
       MapSucceeds(p, pair) \/ MapFails(p, pair[1]) \/ AnswerLost(p, pair)

MapReturns(p) ==
  /\ Has(p, "map") /\ call.todo = {}
  /\ Ends("nothing") /\ Lives /\ UNCHANGED <<initialized, maps, daemons>>

-----------------------------------------------------------------------------
Known(p, s) == {q \in toHost[p] : q[1] = s}

(* The forward of an entry that is deleted, after a command that may not   *)
(* have removed it.                                                        *)
Released(gone, entries) ==
  {f \in forwards : f.pair \notin entries} \cup
  IF gone THEN {} ELSE {[f EXCEPT !.lost = TRUE] :
                          f \in {g \in forwards : g.pair \in entries}}

(* Both entries are deleted before the command, whose timeout raises and   *)
(* whose error is only logged; the second deletion raises KeyError when    *)
(* another port has taken the entry of the host port.                      *)
UnmapDevicePortLocked(p) ==
  /\ Has(p, "unmap") /\ Lives /\ UNCHANGED <<initialized, running, installed>>
  /\ \E asked \in call.todo :
     LET entry == {q \in Known(p, asked[1]) : q[2] = asked[2]}
         ports == {q[3] : q \in entry} IN
       /\ toHost' = [toHost EXCEPT ![p] = @ \ entry]
       /\ toDevice' = [toDevice EXCEPT ![p] = {q \in @ : q[3] \notin ports}]
       /\ \/ /\ \A h \in ports : \E q \in toDevice[p] : q[3] = h
             /\ \E gone \in BOOLEAN, how \in {"nothing", "HostForwarderError"} :
                  forwards' = Released(gone, entry) /\ Ends(how)
          \/ /\ \E h \in ports : \A q \in toDevice[p] : q[3] # h
             /\ Ends("KeyError") /\ UNCHANGED forwards

HostPorts(pairs) == {q[3] : q \in pairs}

Delete(p, entries) ==
  /\ toHost' = [toHost EXCEPT ![p] = @ \ entries]
  /\ toDevice' = [toDevice EXCEPT ![p] = {q \in @ : q[3] \notin HostPorts(entries)}]

(* The entries are deleted one by one from both maps; x is the first whose *)
(* host port is not, or no longer, there.                                  *)
Stumbles(p, deleted, x) ==
  /\ x \in deleted
  /\ LET before == deleted \ {x} IN
       /\ HostPorts(before) \subseteq HostPorts(toDevice[p])
       /\ Cardinality(HostPorts(before)) = Cardinality(before)
       /\ x[3] \in HostPorts(before) \/ x[3] \notin HostPorts(toDevice[p])

(* Mutant: the entries are deleted before the daemon has given them up.    *)
UnmapFailsLate(p, s) ==
  /\ Delete(p, Known(p, s)) /\ Ends("HostForwarderError")
  /\ UNCHANGED <<forwards, running, initialized>>

UnmapFails(p, s) ==
  /\ Ends("HostForwarderError")
  /\ UNCHANGED <<maps, forwards, running, initialized>>

UnmapAllDevicePorts(p) ==
  LET s == call.serial
      all == Known(p, s) IN
  /\ Has(p, "unmapAll") /\ Lives /\ UNCHANGED installed
  /\ \/ UnmapFails(p, s)
     \/ /\ \E deleted \in SUBSET all : \E x \in deleted :
             Stumbles(p, deleted, x) /\ Delete(p, deleted)
        /\ forwards' = forwards \ Of(s)
        /\ Ends("KeyError") /\ UNCHANGED <<running, initialized>>
     \/ /\ \A x \in all : \A deleted \in SUBSET all : ~Stumbles(p, deleted, x)
        /\ Delete(p, all)
        /\ forwards' = forwards \ Of(s)
        /\ \E killed \in BOOLEAN :
             /\ KillDeviceLocked(p, s, killed)
             /\ Ends(IF killed THEN "nothing" ELSE "DeviceError")

KillDevice(p) ==
  /\ Has(p, "killDevice") /\ Lives /\ UNCHANGED maps
  /\ \E killed \in BOOLEAN :
       /\ KillDeviceLocked(p, call.serial, killed)
       /\ forwards' = Stopped(call.serial, killed)
       /\ Ends(IF killed THEN "nothing" ELSE "DeviceError")

KillHost(p) ==
  /\ Has(p, "killHost") /\ Lives /\ UNCHANGED <<initialized, maps, running, installed>>
  /\ \/ forwards' = {} /\ Ends("nothing")
     \/ UNCHANGED forwards /\ Ends("HostForwarderError")

(* The process dies; the system releases its lock, the daemons stay.       *)
Dies(p) ==
  /\ IF holder = p THEN Ends("nothing") ELSE UNCHANGED <<holder, call, raised>>
  /\ instance' = instance \ {p}
  /\ initialized' = [initialized EXCEPT ![p] = {}]
  /\ toHost' = [toHost EXCEPT ![p] = {}]
  /\ toDevice' = [toDevice EXCEPT ![p] = {}]
  /\ forwards' = {[f EXCEPT !.maker = IF @ = p THEN NoOne ELSE @] : f \in forwards}
  /\ UNCHANGED <<pidFile, running, installed>>

Next ==
  \E p \in Processes :
    \/ Calls(p) \/ GetInstanceLocked(p) \/ InitDeviceLocked(p)
    \/ MapPair(p) \/ MapReturns(p) \/ UnmapDevicePortLocked(p)
    \/ UnmapAllDevicePorts(p) \/ KillDevice(p) \/ KillHost(p) \/ Dies(p)

Spec == Init /\ [][Next]_vars

-----------------------------------------------------------------------------
TypeOK ==
  /\ holder \in Processes \cup {NoOne}
  /\ call \in [name : {"idle", "init", "map", "unmap", "unmapAll", "killDevice", "killHost"},
                serial : Serials \cup {NoOne}, todo : SUBSET Pairs]
  /\ call.name \in {"idle", "killHost"} \/ call.serial \in Serials
  /\ raised \in {"nothing", "HostForwarderError", "DeviceError", "KeyError", "NameError"}
  /\ pidFile \in Processes \cup {NoOne} /\ instance \subseteq Processes
  /\ initialized \in [Processes -> SUBSET Serials]
  /\ toHost \in [Processes -> SUBSET Pairs] /\ toDevice \in [Processes -> SUBSET Pairs]
  /\ forwards \subseteq [pair : Pairs, maker : Processes \cup {NoOne}, lost : BOOLEAN]
  /\ running \subseteq installed /\ installed \subseteq Serials

(* A forward that a living process made is in its map, so that it can be   *)
(* unmapped, whatever has failed in between, unless it is lost.            *)
LiveIsKnown ==
  \A f \in forwards : f.maker # NoOne /\ ~f.lost => f.pair \in toHost[f.maker]

(* A forward is lost in a call that is about its port only, and one to map *)
(* it raises then.                                                         *)
LostIsAskedFor ==
  \A f \in forwards' : f.lost /\ (\A g \in forwards : g.pair = f.pair => ~g.lost) =>
    /\ \E q \in call.todo : q[1] = f.pair[1] /\ q[2] = f.pair[2]
    /\ \/ call.name = "map" /\ raised' = "HostForwarderError"
       \/ call.name = "unmap"

(* A process that joins a group leaves the daemon of the group alone.      *)
HostKeptInGroup ==
  \A p \in Processes :
       p \in instance' \ instance /\ pidFile = Group[p] => forwards' = forwards

(* After a failed mapping the device counts as not initialized, even if    *)
(* its daemon could not be killed: the next Map starts the daemon again.   *)
RestartedAfterFailure ==
  call.name = "map" /\ MapFails(holder, call.serial) =>
        call.serial \notin initialized'[holder]

(* With a host port of its own for every pair, both maps agree on what a   *)
(* process has forwarded.                                                  *)
OwnHostPorts == \A q, r \in Pairs : q[3] = r[3] => q = r

KnownBothWays == \A p \in Processes : toHost[p] \subseteq toDevice[p]

IInv == TypeOK /\ KnownBothWays /\ LiveIsKnown

(* What the constants stand for.                                           *)
Grouped == NoOne \notin Processes /\ Group \in [Processes -> Processes]
=============================================================================
