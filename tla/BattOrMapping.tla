---------------------------- MODULE BattOrMapping ----------------------------
(***************************************************************************)
(* Which BattOr (a power meter) measures which phone: the tree of USB      *)
(* devices is read command by command while devices come and go, hubs are  *)
(* recognised in it, and what is plugged into the same labelled port of    *)
(* two hubs belongs together. The pairs go to a file that later calls use. *)
(***************************************************************************)
EXTENDS Naturals, Sequences, FiniteSets, TLC

CONSTANTS
  Phones, BattOrs, Others,   \* serial numbers
  Model,     \* the model of each hub on the bus
  Wiring,    \* the virtual port chain behind each labelled port in use
  MaxPlugs   \* bound on the devices plugged in after the start

Devices == Phones \cup BattOrs \cup Others
Hubs == DOMAIN Model
Slots == UNION {{h} \X DOMAIN Wiring[Model[h]] : h \in Hubs}
Nowhere == <<0, 0>>
Nothing == "none"

VARIABLES
  where, num, tty,   \* of each device: its port, its number on the bus, its tty
  next, plugs,
  pc, op, phone,     \* the call
  descs, tree, ttys, node,   \* what it has read
  file, answer

world == <<where, num, tty, next, plugs>>
vars == <<world, pc, op, phone, descs, tree, ttys, node, file, answer>>

(* usb_hubs: from the virtual ports of a hub to its labels; one port leads *)
(* to a second hub inside, which identifies the model.                     *)
InnerPort == [plugable |-> 4, usb3_part2 |-> 1, usb3_part3 |-> 1, keedox |-> 4, via |-> 4]

PlugableLayout ==
  (<<1>> :> 7) @@ (<<2>> :> 6) @@ (<<3>> :> 5) @@
  (<<4, 1>> :> 4) @@ (<<4, 2>> :> 3) @@ (<<4, 3>> :> 2) @@ (<<4, 4>> :> 1)
Usb3Layout ==
  (<<1, 1>> :> 1) @@ (<<1, 2>> :> 2) @@ (<<1, 3>> :> 3) @@ (<<1, 4>> :> 4) @@
  (<<2>> :> 5) @@ (<<3>> :> 6) @@ (<<4>> :> 7)
KeedoxLayout ==
  (<<1>> :> 1) @@ (<<2>> :> 2) @@ (<<3>> :> 3) @@
  (<<4, 1>> :> 4) @@ (<<4, 2>> :> 5) @@ (<<4, 3>> :> 6) @@ (<<4, 4>> :> 7)

Models == DOMAIN InnerPort
Layout(model) ==
  CASE model = "plugable" -> PlugableLayout
    [] model \in {"usb3_part2", "usb3_part3"} -> Usb3Layout
    [] OTHER -> KeedoxLayout

Init ==
  /\ where \in {w \in [Devices -> Slots \cup {Nowhere}] :
                  \A d, e \in Devices : w[d] = w[e] => d = e \/ w[d] = Nowhere}
  /\ num = CHOOSE n \in [Devices -> 0 .. Cardinality(Devices)] :
             \A d, e \in Devices : /\ n[d] = 0 <=> where[d] = Nowhere
                                   /\ n[d] = n[e] => d = e \/ n[d] = 0
  /\ tty \in {t \in [BattOrs -> 0 .. Cardinality(BattOrs)] :
                \A b, c \in BattOrs : /\ t[b] = 0 <=> where[b] = Nowhere
                                      /\ t[b] = t[c] => b = c \/ t[b] = 0}
  /\ next = Cardinality(Devices) + 1 /\ plugs = 0
  /\ pc = "idle" /\ op = Nothing /\ phone = Nothing /\ descs = {} /\ tree = {} /\ ttys = <<>>
  /\ node = 0 /\ file = <<>> /\ answer = Nothing

Unplug(d) ==
  /\ plugs < MaxPlugs /\ where[d] # Nowhere
  /\ where' = [where EXCEPT ![d] = Nowhere] /\ num' = [num EXCEPT ![d] = 0]
  /\ tty' = [b \in BattOrs |-> IF b = d THEN 0 ELSE tty[b]]
  /\ UNCHANGED <<next, plugs, pc, op, phone, descs, tree, ttys, node, file, answer>>

(* A device gets a new number; its tty appears later and is the lowest     *)
(* that is free.                                                           *)
Plug(d, s) ==
  /\ plugs < MaxPlugs /\ plugs' = plugs + 1
  /\ where[d] = Nowhere /\ \A e \in Devices : where[e] # s
  /\ where' = [where EXCEPT ![d] = s] /\ num' = [num EXCEPT ![d] = next] /\ next' = next + 1
  /\ UNCHANGED <<tty, pc, op, phone, descs, tree, ttys, node, file, answer>>

TtyAppears(b) ==
  /\ where[b] # Nowhere /\ tty[b] = 0
  /\ tty' = [tty EXCEPT ![b] = CHOOSE i \in 1 .. Cardinality(BattOrs) :
               /\ \A c \in BattOrs : tty[c] # i
               /\ \A j \in 1 .. i - 1 : \E c \in BattOrs : tty[c] = j]
  /\ UNCHANGED <<where, num, next, plugs, pc, op, phone, descs, tree, ttys, node, file, answer>>

-----------------------------------------------------------------------------
Call(o, p) ==
  /\ pc = "idle" /\ pc' = "lsusb" /\ op' = o /\ phone' = p /\ answer' = Nothing
  /\ UNCHANGED <<world, descs, tree, ttys, node, file>>

(* A call leaves nothing behind but its file and its answer.               *)
Leave(a) ==
  /\ pc' = "idle" /\ op' = Nothing /\ phone' = Nothing /\ descs' = {} /\ tree' = {} /\ ttys' = <<>>
  /\ node' = 0 /\ answer' = a

Error(a) == Leave(a) /\ UNCHANGED <<world, file>>

(* GetBusNumberToDeviceTreeMap: lsusb first, usb-devices then; a device    *)
(* that was not there for the first has no description.                    *)
Lsusb ==
  /\ pc = "lsusb" /\ pc' = "tree" /\ descs' = {d \in Devices : where[d] # Nowhere}
  /\ UNCHANGED <<world, op, phone, tree, ttys, node, file, answer>>

Described(d) == d \in descs
Chain(d) == <<where[d][1]>> \o Wiring[Model[where[d][1]]][where[d][2]]
DeviceNode(d) ==
  [serial |-> d, num |-> num[d], chain |-> Chain(d),
   desc |-> IF Described(d) THEN (IF d \in BattOrs THEN "0403:6001" ELSE "other")
            ELSE "NOT AVAILABLE"]
HubNodes(h) == {[serial |-> Nothing, num |-> 0, chain |-> c, desc |-> Model[h]] :
                  c \in {<<h>>, <<h, InnerPort[Model[h]]>>}}

UsbDevices ==
  /\ pc = "tree" /\ pc' = "ttys"
  /\ tree' = {DeviceNode(d) : d \in {e \in Devices : where[e] # Nowhere}}
               \cup UNION {HubNodes(h) : h \in Hubs}
  /\ UNCHANGED <<world, op, phone, descs, ttys, node, file, answer>>

(* GetBusDeviceToTTYMap, here from a tty to the number of its device.      *)
CurrentTtys ==
  [i \in {tty[b] : b \in BattOrs} \ {0} |-> num[CHOOSE b \in BattOrs : tty[b] = i]]
FindDeviceNumber(n) == {x \in tree : x.num = n /\ x.num # 0}
IsBattOr(n) == \E x \in FindDeviceNumber(n) : x.desc = "0403:6001"
BattOrTtys(t) == {i \in DOMAIN t : IsBattOr(t[i])}

ReadTtys ==
  /\ pc = "ttys"
  /\ IF \E i \in DOMAIN CurrentTtys : FindDeviceNumber(CurrentTtys[i]) = {} THEN Error("raised")
     ELSE IF op = "path" /\ Cardinality(BattOrTtys(CurrentTtys)) = 1
     THEN Error(CHOOSE b \in BattOrs : tty[b] \in BattOrTtys(CurrentTtys))
     ELSE /\ ttys' = CurrentTtys /\ pc' = op
          /\ UNCHANGED <<world, op, phone, descs, tree, node, file, answer>>

-----------------------------------------------------------------------------
(* A hub is known by its inner hub, which has the same description.        *)
IsHub(x) ==
  x.desc \in Models /\ \E y \in tree : y.desc = x.desc /\ y.chain = Append(x.chain, InnerPort[x.desc])

Below(x, y) == SubSeq(y.chain, Len(x.chain) + 1, Len(y.chain))

(* What is plugged in where: the node y at a port of the hub x.            *)
IsAtPort(x, y) ==
  /\ y.serial # Nothing /\ SubSeq(y.chain, 1, Len(x.chain)) = x.chain
  /\ Below(x, y) \in DOMAIN Layout(x.desc)

(* GetPhysicalPortToSerialMap, of all hubs: <<label, serial>>.             *)
PortToSerial ==
  LET hubs == {x \in tree : IsHub(x)} IN
  {<<Layout(z[1].desc)[Below(z[1], z[2])], z[2].serial>> : z \in {t \in hubs \X tree : IsAtPort(t[1], t[2])}}

BattOrSerials == {x.serial : x \in {y \in tree : \E i \in BattOrTtys(ttys) : ttys[i] = y.num /\ y.num # 0}}

At(table, port) == {x[2] : x \in {y \in table : y[1] = port}}

GenerateSerialMap ==
  /\ pc = "map"
  /\ LET table == PortToSerial
         battors == {x \in table : x[2] \in BattOrSerials}
         phones == table \ battors
     IN IF Cardinality(BattOrSerials) = 1 THEN file' = <<>> /\ Leave("written") /\ UNCHANGED world
        ELSE IF \E x \in table : \/ Cardinality(At(battors, x[1])) > 1
                                \/ Cardinality(At(phones, x[1])) > 1
                                \/ (x \in phones /\ At(battors, x[1]) = {})
        THEN Error("raised")
        ELSE /\ file' = [s \in {x[2] : x \in phones} |-> (CHOOSE x \in battors : <<x[1], s>> \in phones)[2]]
             /\ Leave("written") /\ UNCHANGED world

(* _PhoneToPathMap: the tree has the number of the BattOr of the phone.    *)
MappedNodes == {x \in tree : x.serial = file[phone]}

FindNode ==
  /\ pc = "path"
  /\ IF phone \notin DOMAIN file \/ MappedNodes = {} THEN Error("raised")
     ELSE /\ node' = (CHOOSE x \in MappedNodes : TRUE).num /\ pc' = "tty"
          /\ UNCHANGED <<world, op, phone, descs, tree, ttys, file, answer>>

(* The ttys are read once more, and the one found is checked once more.    *)
FindTty ==
  /\ pc = "tty"
  /\ LET found == {i \in DOMAIN CurrentTtys : CurrentTtys[i] = node}
     IN IF found = {} \/ ~IsBattOr(node) THEN Error("raised")
        ELSE Error(CHOOSE b \in BattOrs : tty[b] \in found)

Next ==
  \/ Call("map", Nothing) \/ \E p \in Phones : Call("path", p)
  \/ Lsusb \/ UsbDevices \/ ReadTtys \/ GenerateSerialMap \/ FindNode \/ FindTty
  \/ \E d \in Devices : Unplug(d) \/ \E s \in Slots : Plug(d, s)
  \/ \E b \in BattOrs : TtyAppears(b)

Spec == Init /\ [][Next]_vars

-----------------------------------------------------------------------------
SamePort(d, e) == where[d] # Nowhere /\ where[e] # Nowhere /\ where[d][2] = where[e][2]

(* As long as nothing is moved, the file pairs exactly the phones and      *)
(* BattOrs with the same label.                                            *)
MapIsByLabel ==
  plugs = 0 /\ answer = "written" /\ (\A d \in Devices : where[d] # Nowhere) =>
    /\ DOMAIN file = {p \in Phones : \E b \in BattOrs : SamePort(p, b)} \/ Cardinality(BattOrs) = 1
    /\ \A p \in DOMAIN file : SamePort(p, file[p])

(* With several BattOrs, a call for a phone finds the one its file names.  *)
PathIsOfPhone ==
   pc = "tty" /\ answer' \in BattOrs => answer' = file[phone]
=============================================================================
