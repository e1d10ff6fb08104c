----------------------- MODULE SwitchConnectionsProofs -----------------------
(***************************************************************************)
(* What is proved about leaf switches and the machines connected to them:  *)
(* ports with machines exist and have one machine, and a machine has the   *)
(* same ports on two switches.                                             *)
(***************************************************************************)
EXTENDS SwitchConnections, FiniteSetTheorems, TLAPS

-----------------------------------------------------------------------------
(* The calls and what they carry.                                            *)

NeighborsCall == [pc : {"neighbors"}, machine : Machines, nics : SUBSET Plugs, half : BOOLEAN]
ConnectCall == [pc : {"disconnect", "connect"}, machine : Machines, nics : SUBSET Plugs, half : BOOLEAN,
                prev : SUBSET Switches]
WriteCall == [pc : {"first", "second"}, machine : Machines, nics : SUBSET Plugs, half : BOOLEAN,
              s1 : Switches, s2 : Switches, held : SUBSET Switches]
ListCall == [pc : {"bmc", "list"}, machine : Machines, vrf : Vrfs \cup {None}, was : Vrfs \cup {None}]
SetCall == [pc : {"set"}, machine : Machines, vrf : Vrfs \cup {None}, was : Vrfs \cup {None}, todo : SUBSET Switches, held : SUBSET Switches]
ReplaceCall == [pc : {"replace"}, switch : Switches, held : SUBSET Switches, new : RowType, twin : Switches]
BeatCall == [pc : {"beat"}, switch : Switches, read : NicsType, next : NicsType]
MigrateCall == [pc : Migrating, old : Switches, oldRow : RowType, new : Switches, held : SUBSET Switches,
                todo : SUBSET Machines]
DeleteCall == [pc : {"delete"}, switch : Switches]

FreeCalls == {Idle} \cup NeighborsCall \cup ConnectCall \cup ListCall \cup BeatCall \cup DeleteCall
HeldCalls == WriteCall \cup SetCall \cup ReplaceCall \cup MigrateCall
CallType == FreeCalls \cup HeldCalls

TypeInv ==
    /\ TypeOK
    /\ cable \in [Machines -> SUBSET Plugs]
    /\ call \in [Calls -> CallType]
    /\ \A c \in Calls : call[c] \in HeldCalls => call[c].held \subseteq There

\* The step of a call tells its shape.
LEMMA CallShapes ==
  ASSUME NEW k \in CallType
  PROVE  /\ k.pc = "idle" => k = Idle
         /\ k.pc = "neighbors" => k \in NeighborsCall
         /\ k.pc \in {"disconnect", "connect"} => k \in ConnectCall
         /\ k.pc \in {"first", "second"} => k \in WriteCall
         /\ k.pc \in {"bmc", "list"} => k \in ListCall
         /\ k.pc = "set" => k \in SetCall
         /\ k.pc = "replace" => k \in ReplaceCall
         /\ k.pc = "beat" => k \in BeatCall
         /\ k.pc \in Migrating => k \in MigrateCall
         /\ k.pc = "delete" => k \in DeleteCall
  BY DEF CallType, FreeCalls, HeldCalls, Idle, NeighborsCall, ConnectCall, WriteCall, ListCall, SetCall, ReplaceCall,
         BeatCall, MigrateCall, DeleteCall, Migrating

LEMMA CallSteps ==
  /\ \A k \in NeighborsCall : k.pc = "neighbors"
  /\ \A k \in ConnectCall : k.pc \in {"disconnect", "connect"}
  /\ \A k \in WriteCall : k.pc \in {"first", "second"}
  /\ \A k \in ListCall : k.pc \in {"bmc", "list"}
  /\ \A k \in SetCall : k.pc = "set"
  /\ \A k \in ReplaceCall : k.pc = "replace"
  /\ \A k \in BeatCall : k.pc = "beat"
  /\ \A k \in MigrateCall : k.pc \in Migrating
  /\ \A k \in DeleteCall : k.pc = "delete"
  /\ Idle.pc = "idle"
  BY DEF Idle, NeighborsCall, ConnectCall, WriteCall, ListCall, SetCall, ReplaceCall, BeatCall, MigrateCall, DeleteCall

LEMMA HasHeld ==
  /\ \A k \in HeldCalls : "held" \in DOMAIN k
  /\ \A k \in FreeCalls : "held" \notin DOMAIN k
<1>1. \A k \in HeldCalls : "held" \in DOMAIN k
  BY DEF HeldCalls, WriteCall, SetCall, ReplaceCall, MigrateCall
<1>2. \A k \in FreeCalls : "held" \notin DOMAIN k
  BY DEF FreeCalls, Idle, NeighborsCall, ConnectCall, ListCall, BeatCall, DeleteCall
<1> QED BY <1>1, <1>2

\* Nothing but the copies that are up to date changes in a call when a switch is written.
LEMMA OutdatedCall ==
  ASSUME NEW k \in CallType, NEW s \in Switches
  PROVE  /\ Outdated(k, s) \in CallType /\ Outdated(k, s).pc = k.pc
         /\ k \in FreeCalls => Outdated(k, s) = k
         /\ k \in HeldCalls => Outdated(k, s) \in HeldCalls /\ Outdated(k, s).held = k.held \ {s}
         /\ k \in WriteCall => /\ Outdated(k, s) \in WriteCall
                               /\ Outdated(k, s).machine = k.machine /\ Outdated(k, s).nics = k.nics
                               /\ Outdated(k, s).half = k.half
                               /\ Outdated(k, s).s1 = k.s1 /\ Outdated(k, s).s2 = k.s2
         /\ k \in SetCall => /\ Outdated(k, s) \in SetCall
                             /\ Outdated(k, s).machine = k.machine /\ Outdated(k, s).vrf = k.vrf
                             /\ Outdated(k, s).todo = k.todo /\ Outdated(k, s).was = k.was
         /\ k \in ReplaceCall => /\ Outdated(k, s) \in ReplaceCall
                                 /\ Outdated(k, s).switch = k.switch /\ Outdated(k, s).twin = k.twin
                                 /\ Outdated(k, s).new = k.new
         /\ k \in MigrateCall => /\ Outdated(k, s) \in MigrateCall
                                 /\ Outdated(k, s).old = k.old /\ Outdated(k, s).oldRow = k.oldRow
                                 /\ Outdated(k, s).new = k.new /\ Outdated(k, s).todo = k.todo
<1>1. CASE k \in FreeCalls
  BY <1>1, HasHeld DEF Outdated, CallType, FreeCalls, HeldCalls, Idle, NeighborsCall, ConnectCall, ListCall, BeatCall,
                       DeleteCall, WriteCall, SetCall, ReplaceCall, MigrateCall
<1>2. CASE k \in WriteCall
  BY <1>2 DEF Outdated, CallType, HeldCalls, WriteCall, SetCall, ReplaceCall, MigrateCall, FreeCalls, Idle,
              NeighborsCall, ConnectCall, ListCall, BeatCall, DeleteCall, Migrating
<1>3. CASE k \in SetCall
  BY <1>3 DEF Outdated, CallType, HeldCalls, WriteCall, SetCall, ReplaceCall, MigrateCall, FreeCalls, Idle,
              NeighborsCall, ConnectCall, ListCall, BeatCall, DeleteCall, Migrating
<1>4. CASE k \in ReplaceCall
  BY <1>4 DEF Outdated, CallType, HeldCalls, WriteCall, SetCall, ReplaceCall, MigrateCall, FreeCalls, Idle,
              NeighborsCall, ConnectCall, ListCall, BeatCall, DeleteCall, Migrating
<1>5. CASE k \in MigrateCall
  BY <1>5 DEF Outdated, CallType, HeldCalls, WriteCall, SetCall, ReplaceCall, MigrateCall, FreeCalls, Idle,
              NeighborsCall, ConnectCall, ListCall, BeatCall, DeleteCall, Migrating
<1> QED BY <1>1, <1>2, <1>3, <1>4, <1>5 DEF CallType, HeldCalls

LEMMA RowShape ==
  /\ \A x \in RowType : /\ x.mode \in {"operational", "replace"} /\ x.nics \in NicsType
                        /\ x.conns \subseteq Machines \X Ports /\ DOMAIN x.nics \subseteq Ports
                        /\ \A p \in DOMAIN x.nics : x.nics[p] \in NicType
  /\ \A n \in NicsType : DOMAIN n \subseteq Ports /\ \A p \in DOMAIN n : n[p] \in NicType
  /\ \A ports \in SUBSET Ports : [ports -> NicType] \subseteq NicsType
<1>1. \A n \in NicsType : DOMAIN n \subseteq Ports /\ \A p \in DOMAIN n : n[p] \in NicType
  BY DEF NicsType
<1>2. \A x \in RowType : x.mode \in {"operational", "replace"} /\ x.nics \in NicsType /\ x.conns \subseteq Machines \X Ports
  BY DEF RowType
<1>3. \A ports \in SUBSET Ports : [ports -> NicType] \subseteq NicsType
  BY DEF NicsType
<1> QED BY <1>1, <1>2, <1>3

-----------------------------------------------------------------------------
(* Steps change the calls of W and the rows of S.                            *)

SameCall(k, l, S) ==
    /\ l \in CallType /\ l.pc = k.pc
    /\ k \in FreeCalls => l = k
    /\ k \in HeldCalls => l \in HeldCalls /\ l.held = k.held \ S
    /\ k \in WriteCall => /\ l \in WriteCall /\ l.machine = k.machine /\ l.nics = k.nics /\ l.half = k.half
                          /\ l.s1 = k.s1 /\ l.s2 = k.s2
    /\ k \in SetCall => l \in SetCall /\ l.machine = k.machine /\ l.vrf = k.vrf /\ l.was = k.was /\ l.todo = k.todo
    /\ k \in ReplaceCall => l \in ReplaceCall /\ l.switch = k.switch /\ l.twin = k.twin /\ l.new = k.new
    /\ k \in MigrateCall => l \in MigrateCall /\ l.old = k.old /\ l.oldRow = k.oldRow /\ l.new = k.new /\ l.todo = k.todo

Frame(W, S) ==
    /\ sw' \in [Switches -> RowType \cup {None}] /\ call' \in [Calls -> CallType]
    /\ \A s \in Switches \ S : sw'[s] = sw[s]
    /\ \A d \in Calls \ W : SameCall(call[d], call'[d], S)

LEMMA SameItself == \A k \in CallType : SameCall(k, k, {})
<1>1. SUFFICES ASSUME NEW k \in CallType PROVE SameCall(k, k, {})
  OBVIOUS
<1>2. k \in HeldCalls => k.held \ {} = k.held
  OBVIOUS
<1> QED BY <1>2 DEF SameCall

LEMMA SameOutdated == \A k \in CallType, s \in Switches : SameCall(k, Outdated(k, s), {s})
  BY OutdatedCall DEF SameCall

LEMMA PutFrame ==
  ASSUME TypeInv, NEW c \in Calls, NEW s \in Switches, NEW row \in RowType \cup {None}, NEW rec \in CallType,
         Put(c, s, row, rec)
  PROVE  Frame({c}, {s}) /\ sw'[s] = row /\ call'[c] = rec
<1>1. sw \in [Switches -> RowType \cup {None}] /\ call \in [Calls -> CallType]
  BY DEF TypeInv, TypeOK
<1>2. sw' \in [Switches -> RowType \cup {None}] /\ sw'[s] = row /\ \A x \in Switches \ {s} : sw'[x] = sw[x]
  BY <1>1 DEF Put
<1>3. call' = [d \in Calls |-> IF d = c THEN rec ELSE Outdated(call[d], s)]
  BY DEF Put
<1>4. \A d \in Calls : Outdated(call[d], s) \in CallType
  BY <1>1, OutdatedCall
<1>5. call' \in [Calls -> CallType] /\ call'[c] = rec
  BY <1>3, <1>4
<1>6. \A d \in Calls \ {c} : call'[d] = Outdated(call[d], s)
  BY <1>3
<1>7. \A d \in Calls \ {c} : SameCall(call[d], call'[d], {s})
  BY <1>1, <1>6, SameOutdated
<1> QED BY <1>2, <1>5, <1>7 DEF Frame

LEMMA PutAtOnceFrame ==
  ASSUME TypeInv, NEW s \in Switches, NEW row \in RowType \cup {None}, PutAtOnce(s, row)
  PROVE  Frame({}, {s}) /\ sw'[s] = row
<1>1. sw \in [Switches -> RowType \cup {None}] /\ call \in [Calls -> CallType]
  BY DEF TypeInv, TypeOK
<1>2. sw' \in [Switches -> RowType \cup {None}] /\ sw'[s] = row /\ \A x \in Switches \ {s} : sw'[x] = sw[x]
  BY <1>1 DEF PutAtOnce
<1>3. call' = [d \in Calls |-> Outdated(call[d], s)]
  BY DEF PutAtOnce
<1>4. call' \in [Calls -> CallType] /\ \A d \in Calls : SameCall(call[d], call'[d], {s})
  BY <1>1, <1>3, OutdatedCall, SameOutdated
<1> QED BY <1>2, <1>4 DEF Frame

LEMMA GoFrame ==
  ASSUME TypeInv, NEW c \in Calls, NEW rec \in CallType, Go(c, rec), UNCHANGED sw
  PROVE  Frame({c}, {}) /\ call'[c] = rec
<1>1. sw \in [Switches -> RowType \cup {None}] /\ call \in [Calls -> CallType]
  BY DEF TypeInv, TypeOK
<1>2. call' \in [Calls -> CallType] /\ call'[c] = rec /\ \A d \in Calls \ {c} : call'[d] = call[d]
  BY <1>1 DEF Go
<1> QED BY <1>1, <1>2, SameItself DEF Frame

LEMMA IdleFrame ==
  ASSUME TypeInv, UNCHANGED <<sw, call>>
  PROVE  Frame({}, {})
<1>1. sw \in [Switches -> RowType \cup {None}] /\ call \in [Calls -> CallType]
  BY DEF TypeInv, TypeOK
<1> QED BY <1>1, SameItself DEF Frame

LEMMA FinishFrame ==
  ASSUME TypeInv, NEW c \in Calls, Finish(c), UNCHANGED sw
  PROVE  Frame({c}, {}) /\ call'[c] = Idle
<1>1. Idle \in CallType
  BY DEF CallType, FreeCalls
<1> QED BY <1>1, GoFrame DEF Finish

Stays == machine' \in [Machines -> MachineType]
         /\ cable' \in [Machines -> SUBSET Plugs] /\ mishap' \subseteq Mishaps

LEMMA HappenedWord ==
  ASSUME NEW kind, NEW yes, Happened(kind, yes)
  PROVE  mishap \subseteq mishap' /\ mishap' \subseteq mishap \cup {kind} /\ (yes => kind \in mishap')
  BY DEF Happened

LEMMA TypeNext ==
  ASSUME TypeInv, NEW W \in SUBSET Calls, NEW S \in SUBSET Switches, Frame(W, S), Stays,
         \A c \in W : call'[c] \in HeldCalls => call'[c].held \subseteq There'
  PROVE  TypeInv'
<1>1. ASSUME NEW d \in Calls \ W, call'[d] \in HeldCalls PROVE call'[d].held \subseteq There'
  <2>1. SameCall(call[d], call'[d], S) /\ call[d] \in CallType
    BY DEF Frame, TypeInv
  <2>2. call[d] \in HeldCalls
    BY <1>1, <2>1, HasHeld DEF SameCall, CallType
  <2>3. call'[d].held = call[d].held \ S /\ call[d].held \subseteq There
    BY <2>1, <2>2 DEF SameCall, TypeInv
  <2>4. \A s \in Switches \ S : s \in There => s \in There'
    BY DEF Frame, There
  <2>5. There \subseteq Switches
    BY DEF There
  <2> QED BY <2>3, <2>4, <2>5
<1>2. \A c \in Calls : call'[c] \in HeldCalls => call'[c].held \subseteq There'
  BY <1>1
<1> QED BY <1>2 DEF TypeInv, TypeOK, Stays, Frame

-----------------------------------------------------------------------------
(* What the steps of a registration do.                                      *)

Grows == mishap \subseteq mishap' /\ mishap' \subseteq Mishaps

LEMMA RegisterMachineEffect ==
  ASSUME TypeInv, NEW c \in Calls, NEW m \in Machines, RegisterMachine(c, m)
  PROVE  /\ Frame({c}, {}) /\ sw' = sw /\ Stays /\ Grows
         /\ call[c] = Idle /\ call'[c] \in NeighborsCall
         /\ call'[c].machine = m /\ call'[c].nics = cable[m] /\ call'[c].half = FALSE
         /\ \A n \in Machines : machine'[n].nics = IF n = m THEN cable[m] ELSE machine[n].nics
         /\ "moved" \notin mishap' => ~Someone(Migrating) /\ Hosts(machine[m].nics) \in {{}, Hosts(cable[m])}
<1> DEFINE rec == [pc |-> "neighbors", machine |-> m, nics |-> cable[m], half |-> FALSE]
<1>1. rec \in NeighborsCall /\ rec \in CallType /\ rec.machine = m /\ rec.nics = cable[m] /\ rec.half = FALSE
  BY DEF NeighborsCall, CallType, FreeCalls, TypeInv
<1>2. Go(c, rec) /\ UNCHANGED sw /\ call[c] = Idle /\ cable' = cable
  BY DEF RegisterMachine, Begin
<1>3. machine' = [machine EXCEPT ![m].nics = cable[m]]
  BY DEF RegisterMachine
<1>4. /\ machine' \in [Machines -> MachineType]
      /\ \A n \in Machines : machine'[n].nics = IF n = m THEN cable[m] ELSE machine[n].nics
  BY <1>3 DEF TypeInv, TypeOK, MachineType
<1>5. Happened("moved", Someone(Migrating) \/ Hosts(machine[m].nics) \notin {{}, Hosts(cable[m])})
  BY DEF RegisterMachine
<1>6. Stays /\ Grows /\ ("moved" \notin mishap' => ~Someone(Migrating) /\ Hosts(machine[m].nics) \in {{}, Hosts(cable[m])})
  BY <1>2, <1>4, <1>5, HappenedWord DEF Stays, Grows, TypeInv, TypeOK, Mishaps
<1> HIDE DEF rec
<1> QED BY <1>1, <1>2, <1>4, <1>6, GoFrame

LEMMA NothingElse ==
  ASSUME TypeInv, UNCHANGED <<machine, cable>>, mishap' \subseteq mishap \cup Mishaps
  PROVE  Stays
  BY DEF TypeInv, TypeOK, Stays

LEMMA FormerSwitchesEffect ==
  ASSUME TypeInv, NEW c \in Calls, FormerSwitches(c)
  PROVE  /\ Frame({c}, {}) /\ UNCHANGED <<sw, machine, cable, mishap>> /\ call[c] \in NeighborsCall
         /\ \/ Cardinality(Hosts(call[c].nics)) # 2 /\ call'[c] = Idle
            \/ /\ Cardinality(Hosts(call[c].nics)) = 2 /\ call'[c] \in ConnectCall /\ call'[c].pc = "disconnect"
               /\ call'[c].machine = call[c].machine /\ call'[c].nics = call[c].nics /\ call'[c].half = call[c].half
               /\ call'[c].prev = Hosts(machine[call[c].machine].nics) \ Hosts(call[c].nics)
<1>1. call[c] \in NeighborsCall /\ UNCHANGED <<sw, machine, cable, mishap>>
  BY CallShapes DEF FormerSwitches, TypeInv, rows
<1>2. CASE Cardinality(Hosts(call[c].nics)) # 2 /\ Finish(c)
  BY <1>1, <1>2, FinishFrame
<1>3. CASE /\ Cardinality(Hosts(call[c].nics)) = 2
           /\ Go(c, [pc |-> "disconnect", machine |-> call[c].machine, nics |-> call[c].nics, half |-> call[c].half,
                     prev |-> Hosts(machine[call[c].machine].nics) \ Hosts(call[c].nics)])
  <2> DEFINE rec == [pc |-> "disconnect", machine |-> call[c].machine, nics |-> call[c].nics, half |-> call[c].half,
                     prev |-> Hosts(machine[call[c].machine].nics) \ Hosts(call[c].nics)]
  <2>1. machine[call[c].machine].nics \in SUBSET Plugs
    BY <1>1 DEF TypeInv, TypeOK, NeighborsCall, MachineType
  <2>2. Hosts(machine[call[c].machine].nics) \subseteq Switches
    BY <2>1 DEF Hosts, Plugs
  <2>3. /\ rec \in ConnectCall /\ rec.pc = "disconnect" /\ rec.machine = call[c].machine /\ rec.nics = call[c].nics
        /\ rec.half = call[c].half /\ rec.prev = Hosts(machine[call[c].machine].nics) \ Hosts(call[c].nics)
    BY <1>1, <2>2 DEF ConnectCall, NeighborsCall
  <2>4. rec \in CallType /\ Go(c, rec)
    BY <1>3, <2>3 DEF CallType, FreeCalls
  <2> HIDE DEF rec
  <2> QED BY <1>1, <1>3, <2>3, <2>4, GoFrame
<1> QED BY <1>2, <1>3 DEF FormerSwitches

LEMMA DisconnectEffect ==
  ASSUME TypeInv, NEW c \in Calls, Disconnect(c)
  PROVE  /\ call[c] \in ConnectCall /\ call[c].pc = "disconnect" /\ UNCHANGED <<machine, cable>> /\ Grows
         /\ \/ /\ Frame({c}, {}) /\ sw' = sw /\ call[c].prev = {}
               /\ call'[c] \in ConnectCall /\ call'[c].pc = "connect"
               /\ call'[c].machine = call[c].machine /\ call'[c].nics = call[c].nics /\ call'[c].half = call[c].half
               /\ call'[c].prev = {}
            \/ /\ call[c].prev # {} /\ Frame({c}, {}) /\ sw' = sw /\ call'[c] = Idle
               /\ call[c].half => "halfway" \in mishap'
            \/ \E s \in call[c].prev :
                 /\ sw[s] \in RowType /\ Frame({c}, {s})
                 /\ sw'[s] = [sw[s] EXCEPT !.conns = {x \in @ : x[1] # call[c].machine}] /\ sw'[s] \in RowType
                 /\ call'[c] \in ConnectCall /\ call'[c].pc = "disconnect"
<1>1. call[c] \in ConnectCall /\ call[c].pc = "disconnect" /\ UNCHANGED <<machine, cable>>
  BY CallShapes DEF Disconnect, TypeInv
<1>2. CASE call[c].prev = {} /\ Go(c, [call[c] EXCEPT !.pc = "connect"]) /\ UNCHANGED <<sw, mishap>>
  <2> DEFINE rec == [call[c] EXCEPT !.pc = "connect"]
  <2>1. /\ rec \in ConnectCall /\ rec.pc = "connect" /\ rec.machine = call[c].machine /\ rec.nics = call[c].nics
        /\ rec.half = call[c].half /\ rec.prev = call[c].prev
    BY <1>1 DEF ConnectCall
  <2>2. rec \in CallType /\ Go(c, rec)
    BY <1>2, <2>1 DEF CallType, FreeCalls
  <2> HIDE DEF rec
  <2> QED BY <1>1, <1>2, <2>1, <2>2, GoFrame DEF Grows, TypeInv, TypeOK
<1>3. ASSUME Finish(c), Happened("halfway", call[c].half), UNCHANGED sw
      PROVE  Frame({c}, {}) /\ call'[c] = Idle /\ (call[c].half => "halfway" \in mishap') /\ Grows
  <2>1. mishap \subseteq mishap' /\ mishap' \subseteq mishap \cup {"halfway"} /\ (call[c].half => "halfway" \in mishap')
    BY <1>3, HappenedWord
  <2> QED BY <1>3, <2>1, FinishFrame DEF Grows, TypeInv, TypeOK, Mishaps
<1>4. ASSUME NEW s \in call[c].prev, sw[s] # None, UNCHANGED mishap,
             Put(c, s, [sw[s] EXCEPT !.conns = {x \in @ : x[1] # call[c].machine}],
                 [call[c] EXCEPT !.prev = @ \ {s}, !.half = TRUE])
      PROVE  /\ sw[s] \in RowType /\ Frame({c}, {s})
             /\ sw'[s] = [sw[s] EXCEPT !.conns = {x \in @ : x[1] # call[c].machine}] /\ sw'[s] \in RowType
             /\ call'[c] \in ConnectCall /\ call'[c].pc = "disconnect" /\ Grows
  <2> DEFINE row == [sw[s] EXCEPT !.conns = {x \in @ : x[1] # call[c].machine}]
             rec == [call[c] EXCEPT !.prev = @ \ {s}, !.half = TRUE]
  <2>1. sw[s] \in RowType /\ s \in Switches
    BY <1>1, <1>4 DEF TypeInv, TypeOK, ConnectCall
  <2>2. row \in RowType
    BY <2>1 DEF RowType
  <2>3. rec \in ConnectCall /\ rec.pc = "disconnect"
    BY <1>1 DEF ConnectCall
  <2>4. rec \in CallType
    BY <2>3 DEF CallType, FreeCalls
  <2>5. Put(c, s, row, rec)
    BY <1>4
  <2>6. Grows
    BY <1>4 DEF Grows, TypeInv, TypeOK
  <2> HIDE DEF rec, row
  <2>7. Frame({c}, {s}) /\ sw'[s] = row /\ call'[c] = rec
    BY <2>1, <2>2, <2>4, <2>5, PutFrame
  <2> QED BY <2>1, <2>2, <2>3, <2>6, <2>7 DEF row
<1> QED BY <1>1, <1>2, <1>3, <1>4 DEF Disconnect

LEMMA ReadSwitchesEffect ==
  ASSUME TypeInv, NEW c \in Calls, ReadSwitches(c)
  PROVE  /\ call[c] \in ConnectCall /\ call[c].pc = "connect" /\ UNCHANGED <<sw, machine, cable>> /\ Grows
         /\ Frame({c}, {})
         /\ \/ call'[c] = Idle /\ (call[c].half => "halfway" \in mishap')
            \/ \E s1, s2 \in Hosts(call[c].nics) :
                 /\ s1 # s2 /\ {s1, s2} \subseteq There
                 /\ MayConnect(call[c].machine, sw[s1], sw[s2], s1, s2, call[c].nics)
                 /\ "mismatch" \notin mishap' => ~Overlooked(call[c].machine, sw[s1], sw[s2], s1, s2, call[c].nics)
                 /\ call'[c] \in WriteCall /\ call'[c].pc = "first"
                 /\ call'[c].machine = call[c].machine /\ call'[c].nics = call[c].nics /\ call'[c].half = call[c].half
                 /\ call'[c].s1 = s1 /\ call'[c].s2 = s2 /\ call'[c].held = {s1, s2}
<1>1. call[c] \in ConnectCall /\ call[c].pc = "connect" /\ UNCHANGED <<sw, machine, cable>>
  BY CallShapes DEF ReadSwitches, TypeInv, rows
<1>2. ASSUME Finish(c), Happened("halfway", call[c].half)
      PROVE  Grows /\ Frame({c}, {}) /\ call'[c] = Idle /\ (call[c].half => "halfway" \in mishap')
  BY <1>1, <1>2, FinishFrame, HappenedWord DEF Grows, TypeInv, TypeOK, Mishaps
<1>3. ASSUME NEW s1 \in Hosts(call[c].nics), NEW s2 \in Hosts(call[c].nics), s1 # s2, {s1, s2} \subseteq There,
             MayConnect(call[c].machine, sw[s1], sw[s2], s1, s2, call[c].nics),
             Go(c, [pc |-> "first", machine |-> call[c].machine, nics |-> call[c].nics, half |-> call[c].half,
                    s1 |-> s1, s2 |-> s2, held |-> {s1, s2}]),
             Happened("mismatch", Overlooked(call[c].machine, sw[s1], sw[s2], s1, s2, call[c].nics))
      PROVE  /\ Grows /\ Frame({c}, {})
             /\ "mismatch" \notin mishap' => ~Overlooked(call[c].machine, sw[s1], sw[s2], s1, s2, call[c].nics)
             /\ call'[c] \in WriteCall /\ call'[c].pc = "first"
             /\ call'[c].machine = call[c].machine /\ call'[c].nics = call[c].nics /\ call'[c].half = call[c].half
             /\ call'[c].s1 = s1 /\ call'[c].s2 = s2 /\ call'[c].held = {s1, s2}
  <2> DEFINE rec == [pc |-> "first", machine |-> call[c].machine, nics |-> call[c].nics, half |-> call[c].half,
                     s1 |-> s1, s2 |-> s2, held |-> {s1, s2}]
  <2>1. {s1, s2} \subseteq Switches
    BY <1>3 DEF There
  <2>2. /\ rec \in WriteCall /\ rec.pc = "first" /\ rec.machine = call[c].machine /\ rec.nics = call[c].nics
        /\ rec.half = call[c].half /\ rec.s1 = s1 /\ rec.s2 = s2 /\ rec.held = {s1, s2}
    BY <1>1, <2>1 DEF ConnectCall, WriteCall
  <2>3. rec \in CallType /\ Go(c, rec)
    BY <1>3, <2>2 DEF CallType, HeldCalls
  <2>4. Grows /\ ("mismatch" \notin mishap' => ~Overlooked(call[c].machine, sw[s1], sw[s2], s1, s2, call[c].nics))
    BY <1>3, HappenedWord DEF Grows, TypeInv, TypeOK, Mishaps
  <2> HIDE DEF rec
  <2> QED BY <1>1, <2>2, <2>3, <2>4, GoFrame
<1> QED BY <1>1, <1>2, <1>3 DEF ReadSwitches

\* The connections of one machine are replaced, unless it has no port here.
LEMMA ConnectRow ==
  ASSUME NEW x \in RowType, NEW m \in Machines, NEW ports \in SUBSET Ports
  PROVE  /\ Connect(x, m, ports) \in RowType /\ Connect(x, m, ports).nics = x.nics
         /\ \A n \in Machines \ {m} : PortsOf(Connect(x, m, ports), n) = PortsOf(x, n)
         /\ PortsOf(Connect(x, m, ports), m) = IF ports = {} THEN PortsOf(x, m) ELSE ports
<1>1. x.conns \in SUBSET (Machines \X Ports)
  BY DEF RowType
<1> DEFINE conns == IF ports = {} THEN x.conns ELSE {y \in x.conns : y[1] # m} \cup ({m} \X ports)
<1>2. conns \in SUBSET (Machines \X Ports)
  BY <1>1
<1>3. Connect(x, m, ports) = [x EXCEPT !.conns = conns]
  BY DEF Connect
<1>4. Connect(x, m, ports) \in RowType /\ Connect(x, m, ports).nics = x.nics /\ Connect(x, m, ports).conns = conns
  <2> HIDE DEF conns
  <2> QED BY <1>2, <1>3 DEF RowType
<1>5. \A n \in Machines, p \in Ports : <<n, p>> \in conns <=> IF n # m \/ ports = {} THEN <<n, p>> \in x.conns ELSE p \in ports
  BY <1>1
<1> QED BY <1>4, <1>5 DEF PortsOf

LEMMA PhysicalPorts ==
  ASSUME NEW s \in Switches, NEW x \in RowType, NEW nics
  PROVE  Physical(s, x, nics) \subseteq DOMAIN x.nics /\ Physical(s, x, nics) \subseteq Ports
  BY RowShape DEF Physical

GivesUp(c) ==
    /\ Frame({c}, {}) /\ UNCHANGED <<sw, machine, cable>> /\ Grows
    /\ \/ /\ call'[c] \in NeighborsCall /\ call'[c].machine = call[c].machine /\ call'[c].nics = call[c].nics
          /\ call'[c].half = call[c].half
       \/ call'[c] = Idle /\ (call[c].half => "halfway" \in mishap')

LEMMA ConflictEffect ==
  ASSUME TypeInv, NEW c \in Calls, call[c] \in WriteCall, Conflict(c), UNCHANGED <<sw, machine, cable>>
  PROVE  GivesUp(c)
<1> DEFINE rec == [pc |-> "neighbors", machine |-> call[c].machine, nics |-> call[c].nics, half |-> call[c].half]
<1>1. CASE Go(c, rec) /\ UNCHANGED mishap
  <2>1. /\ rec \in NeighborsCall /\ rec \in CallType
        /\ rec.machine = call[c].machine /\ rec.nics = call[c].nics /\ rec.half = call[c].half
    BY DEF WriteCall, NeighborsCall, CallType, FreeCalls
  <2>2. Go(c, rec) /\ UNCHANGED mishap
    BY <1>1
  <2> HIDE DEF rec
  <2> QED BY <2>1, <2>2, GoFrame DEF GivesUp, Grows, TypeInv, TypeOK
<1>2. CASE Finish(c) /\ Happened("halfway", call[c].half)
  <2>1. mishap \subseteq mishap' /\ mishap' \subseteq mishap \cup {"halfway"} /\ (call[c].half => "halfway" \in mishap')
    BY <1>2, HappenedWord
  <2> QED BY <1>2, <2>1, FinishFrame DEF GivesUp, Grows, TypeInv, TypeOK, Mishaps
<1> QED BY <1>1, <1>2 DEF Conflict

\* Switch s gets the ports of the call's machine.
Writes(c, s) ==
    /\ Frame({c}, {s}) /\ UNCHANGED <<machine, cable>> /\ Grows
    /\ s \in call[c].held /\ sw[s] \in RowType
    /\ sw'[s] = Connect(sw[s], call[c].machine, Physical(s, sw[s], call[c].nics))

LEMMA WriteEffect ==
  ASSUME TypeInv, NEW c \in Calls, call[c] \in WriteCall, NEW s \in {call[c].s1, call[c].s2}, s \in call[c].held,
         NEW rec \in CallType, Write(c, s, rec), UNCHANGED <<machine, cable>>
  PROVE  Writes(c, s) /\ call'[c] = rec
<1>1. s \in Switches /\ sw[s] \in RowType /\ call[c].machine \in Machines
  BY DEF TypeInv, TypeOK, HeldCalls, There, WriteCall
<1> DEFINE row == Connect(sw[s], call[c].machine, Physical(s, sw[s], call[c].nics))
<1>2. row \in RowType
  BY <1>1, ConnectRow, PhysicalPorts
<1>3. Put(c, s, row, rec)
  BY DEF Write
<1>4. mishap \subseteq mishap' /\ mishap' \subseteq mishap \cup {"late", "left"}
  BY DEF Write
<1>5. Grows
  BY <1>4 DEF Grows, TypeInv, TypeOK, Mishaps
<1> HIDE DEF row
<1>6. Frame({c}, {s}) /\ sw'[s] = row /\ call'[c] = rec
  BY <1>1, <1>2, <1>3, PutFrame
<1> QED BY <1>1, <1>5, <1>6 DEF Writes, row

LEMMA WriteFirstEffect ==
  ASSUME TypeInv, NEW c \in Calls, WriteFirst(c)
  PROVE  /\ call[c] \in WriteCall /\ call[c].pc = "first"
         /\ \/ /\ Writes(c, call[c].s1)
               /\ call'[c] \in WriteCall /\ call'[c].pc = "second"
               /\ call'[c].machine = call[c].machine /\ call'[c].nics = call[c].nics /\ call'[c].half = TRUE
               /\ call'[c].s1 = call[c].s1 /\ call'[c].s2 = call[c].s2 /\ call'[c].held = call[c].held
            \/ GivesUp(c)
<1>1. call[c] \in WriteCall /\ call[c].pc = "first" /\ UNCHANGED <<machine, cable>>
  BY CallShapes DEF WriteFirst, TypeInv
<1>2. CASE call[c].s1 \in call[c].held /\ Write(c, call[c].s1, [call[c] EXCEPT !.pc = "second", !.half = TRUE])
  <2> DEFINE rec == [call[c] EXCEPT !.pc = "second", !.half = TRUE]
  <2>1. /\ rec \in WriteCall /\ rec.pc = "second"
        /\ rec.machine = call[c].machine /\ rec.nics = call[c].nics /\ rec.half = TRUE
        /\ rec.s1 = call[c].s1 /\ rec.s2 = call[c].s2 /\ rec.held = call[c].held
    BY <1>1 DEF WriteCall
  <2>2. rec \in CallType /\ Write(c, call[c].s1, rec) /\ call[c].s1 \in call[c].held
    BY <1>2, <2>1 DEF CallType, HeldCalls
  <2> HIDE DEF rec
  <2>3. Writes(c, call[c].s1) /\ call'[c] = rec
    BY <1>1, <2>2, WriteEffect
  <2> QED BY <1>1, <2>1, <2>3
<1>3. CASE Conflict(c) /\ UNCHANGED sw
  BY <1>1, <1>3, ConflictEffect
<1> QED BY <1>1, <1>2, <1>3 DEF WriteFirst

LEMMA WriteSecondEffect ==
  ASSUME TypeInv, NEW c \in Calls, WriteSecond(c)
  PROVE  /\ call[c] \in WriteCall /\ call[c].pc = "second"
         /\ (Writes(c, call[c].s2) /\ call'[c] = Idle) \/ GivesUp(c)
<1>1. call[c] \in WriteCall /\ call[c].pc = "second" /\ UNCHANGED <<machine, cable>>
  BY CallShapes DEF WriteSecond, TypeInv
<1>2. CASE call[c].s2 \in call[c].held /\ Write(c, call[c].s2, Idle)
  <2>1. Idle \in CallType
    BY DEF CallType, FreeCalls
  <2> QED BY <1>1, <1>2, <2>1, WriteEffect
<1>3. CASE Conflict(c) /\ UNCHANGED sw
  BY <1>1, <1>3, ConflictEffect
<1> QED BY <1>1, <1>2, <1>3 DEF WriteSecond

-----------------------------------------------------------------------------
(* Steps that connect and move no machines.                                  *)

Fits(x) == \A y \in x.conns : y[2] \in DOMAIN x.nics
At(s, m) == IF sw[s] = None THEN {} ELSE PortsOf(sw[s], m)

Emptied(s) == sw'[s] = None /\ ("forced" \in mishap' \/ "removed" \in mishap' \/ \A m \in Machines : At(s, m) = {})
Created(s) == sw[s] = None /\ sw'[s] \in RowType /\ sw'[s].conns = {}
Changed(s) == /\ sw[s] \in RowType /\ sw'[s] \in RowType /\ sw'[s].conns = sw[s].conns
              /\ DOMAIN sw'[s].nics = DOMAIN sw[s].nics \/ KeepsConnected(sw[s], DOMAIN sw'[s].nics)
TakesOver(c, s) == /\ call[c] \in ReplaceCall /\ sw'[s] = call[c].new /\ sw'[s] \in RowType /\ sw[s] \in RowType
                   /\ "moved" \in mishap' \/ sw'[s].conns = sw[s].conns
Copies(c) == /\ call'[c] \in ReplaceCall
             /\ \E t \in There : /\ call'[c].new.conns = sw[t].conns
                                 /\ DOMAIN sw[t].nics \subseteq DOMAIN call'[c].new.nics

Aside(W, S) ==
    /\ W \in SUBSET Calls /\ S \in SUBSET Switches
    /\ Frame(W, S) /\ Stays /\ Grows
    /\ \A m \in Machines : machine'[m].nics = machine[m].nics
    /\ \A c \in W : /\ call[c].pc \notin Registering \cup Migrating
                    /\ call'[c] \in FreeCalls \cup SetCall \/ Copies(c)
                    /\ call'[c].pc \notin Registering \cup Migrating
                    /\ call'[c] \in HeldCalls => call'[c].held \subseteq There'
    /\ \A s \in S : Emptied(s) \/ Created(s) \/ Changed(s) \/ \E c \in W : TakesOver(c, s)

\* A call begins, goes on or ends without writing a switch.
LEMMA GoAside ==
  ASSUME TypeInv, NEW c \in Calls, NEW rec \in CallType, Go(c, rec), UNCHANGED sw, Stays, Grows,
         \A m \in Machines : machine'[m].nics = machine[m].nics,
         call[c].pc \notin Registering \cup Migrating, rec.pc \notin Registering \cup Migrating,
         rec \in FreeCalls \cup SetCall
           \/ (rec \in ReplaceCall /\ \E t \in There : /\ rec.new.conns = sw[t].conns
                                                       /\ DOMAIN sw[t].nics \subseteq DOMAIN rec.new.nics),
         rec \in HeldCalls => rec.held \subseteq There
  PROVE  Aside({c}, {})
<1>1. Frame({c}, {}) /\ call'[c] = rec /\ There' = There
  BY GoFrame DEF There
<1> QED BY <1>1 DEF Aside, Copies

\* A call writes one row and ends.
LEMMA PutAside ==
  ASSUME TypeInv, NEW c \in Calls, NEW s \in Switches, NEW row \in RowType \cup {None}, Put(c, s, row, Idle),
         UNCHANGED <<machine, cable>>, Grows, call[c].pc \notin Registering \cup Migrating,
         sw'[s] = row => Emptied(s) \/ Created(s) \/ Changed(s) \/ TakesOver(c, s)
  PROVE  Aside({c}, {s})
<1>1. Idle \in CallType /\ Idle \in FreeCalls /\ Idle \notin HeldCalls /\ Idle.pc \notin Registering \cup Migrating
  BY HasHeld, CallSteps DEF CallType, FreeCalls, Registering, Migrating
<1>2. Frame({c}, {s}) /\ sw'[s] = row /\ call'[c] = Idle
  BY <1>1, PutFrame
<1>3. Stays
  BY DEF Stays, Grows, TypeInv, TypeOK
<1> QED BY <1>1, <1>2, <1>3 DEF Aside

LEMMA NoStep == "idle" \notin Registering \cup Migrating /\ "list" \notin Registering \cup Migrating
                /\ "bmc" \notin Registering \cup Migrating
                /\ "set" \notin Registering \cup Migrating /\ "replace" \notin Registering \cup Migrating
                /\ "beat" \notin Registering \cup Migrating /\ "delete" \notin Registering \cup Migrating
  BY DEF Registering, Migrating

LEMMA InstallationSucceededAside ==
  ASSUME TypeInv, NEW c \in Calls, NEW m \in Machines, InstallationSucceeded(c, m)
  PROVE  Aside({c}, {})
<1> DEFINE rec == [pc |-> "list", machine |-> m, vrf |-> machine[m].vrf, was |-> None]
<1>1. rec \in ListCall /\ rec \in FreeCalls /\ rec \in CallType /\ rec.pc = "list" /\ rec \notin HeldCalls
  <2>1. rec \in ListCall /\ rec.pc = "list"
    BY DEF ListCall, TypeInv, TypeOK, MachineType
  <2> HIDE DEF rec
  <2> QED BY <2>1, HasHeld DEF FreeCalls, CallType
<1>2. Go(c, rec) /\ UNCHANGED <<sw, machine, cable, mishap>> /\ call[c].pc = "idle"
  BY CallSteps DEF InstallationSucceeded, Begin, rows
<1>3. Stays /\ Grows
  BY <1>2 DEF Stays, Grows, TypeInv, TypeOK
<1> HIDE DEF rec
<1> QED BY <1>1, <1>2, <1>3, NoStep, GoAside

LEMMA ReleaseAllocationAside ==
  ASSUME TypeInv, NEW c \in Calls, NEW m \in Machines, ReleaseAllocation(c, m)
  PROVE  Aside({c}, {})
<1> DEFINE rec == [pc |-> "bmc", machine |-> m, vrf |-> None, was |-> machine[m].vrf]
<1>1. rec \in ListCall /\ rec \in FreeCalls /\ rec \in CallType /\ rec.pc = "bmc" /\ rec \notin HeldCalls
  <2>1. rec \in ListCall /\ rec.pc = "bmc"
    BY DEF ListCall, TypeInv, TypeOK, MachineType
  <2> HIDE DEF rec
  <2> QED BY <2>1, HasHeld DEF FreeCalls, CallType
<1>2. Go(c, rec) /\ UNCHANGED <<sw, cable>> /\ call[c].pc = "idle"
  BY CallSteps DEF ReleaseAllocation, Begin
<1>3. machine' = [machine EXCEPT ![m].vrf = None, ![m].up = FALSE] /\ Happened("late", Installing(m))
  BY DEF ReleaseAllocation
<1>4. /\ machine' \in [Machines -> MachineType]
      /\ \A n \in Machines : machine'[n].nics = machine[n].nics
  BY <1>3 DEF TypeInv, TypeOK, MachineType
<1>5. mishap \subseteq mishap' /\ mishap' \subseteq mishap \cup {"late"}
  BY <1>3, HappenedWord
<1>6. Stays /\ Grows
  BY <1>2, <1>4, <1>5 DEF Stays, Grows, TypeInv, TypeOK, Mishaps
<1> HIDE DEF rec
<1> QED BY <1>1, <1>2, <1>4, <1>6, NoStep, GoAside

LEMMA SearchSwitchesAside ==
  ASSUME TypeInv, NEW c \in Calls, SearchSwitches(c)
  PROVE  Aside({c}, {})
<1> DEFINE rec == [pc |-> "set", machine |-> call[c].machine, vrf |-> call[c].vrf, was |-> call[c].was,
                   todo |-> Connected(call[c].machine), held |-> Connected(call[c].machine)]
<1>1. call[c] \in ListCall /\ Connected(call[c].machine) \subseteq There /\ There \subseteq Switches
  BY CallShapes DEF SearchSwitches, TypeInv, Connected, There
<1>2. rec \in SetCall /\ rec \in CallType /\ rec.pc = "set" /\ rec.held \subseteq There
  BY <1>1 DEF ListCall, SetCall, CallType, HeldCalls
<1>3. Go(c, rec) /\ UNCHANGED <<sw, machine, cable>> /\ call[c].pc = "list" /\ Happened("stale", Someone({"migrateNew"}))
  BY DEF SearchSwitches, rows
<1>4. mishap \subseteq mishap' /\ mishap' \subseteq mishap \cup {"stale"}
  BY <1>3, HappenedWord
<1>5. Stays /\ Grows
  BY <1>3, <1>4 DEF Stays, Grows, TypeInv, TypeOK, Mishaps
<1> HIDE DEF rec
<1> QED BY <1>2, <1>3, <1>5, NoStep, GoAside

LEMMA SetVrfRow ==
  ASSUME NEW x \in RowType, NEW m \in Machines, NEW vrf \in Vrfs \cup {None}
  PROVE  /\ SetVrf(x, m, vrf) \in RowType /\ SetVrf(x, m, vrf).conns = x.conns
         /\ DOMAIN SetVrf(x, m, vrf).nics = DOMAIN x.nics
<1> DEFINE nics == [p \in DOMAIN x.nics |-> IF p \in PortsOf(x, m) THEN [x.nics[p] EXCEPT !.vrf = vrf] ELSE x.nics[p]]
<1>1. DOMAIN x.nics \in SUBSET Ports /\ \A p \in DOMAIN x.nics : x.nics[p] \in NicType
  BY RowShape
<1>2. \A k \in NicType : [k EXCEPT !.vrf = vrf] \in NicType
  BY DEF NicType
<1>3. nics \in [DOMAIN x.nics -> NicType]
  BY <1>1, <1>2
<1>4. nics \in NicsType /\ DOMAIN nics = DOMAIN x.nics
  BY <1>1, <1>3, RowShape
<1>5. SetVrf(x, m, vrf) = [x EXCEPT !.nics = nics]
  BY DEF SetVrf
<1> HIDE DEF nics
<1> QED BY <1>4, <1>5 DEF RowType

LEMMA AgainCall ==
  ASSUME NEW k \in ListCall \cup SetCall
  PROVE  /\ Again(k) \in ListCall /\ Again(k).pc = (IF k.vrf = None THEN "bmc" ELSE "list")
         /\ Again(k).machine = k.machine /\ Again(k).vrf = k.vrf /\ Again(k).was = k.was
  BY DEF Again, ListCall, SetCall

LEMMA SetVrfAtSwitchesAside ==
  ASSUME TypeInv, NEW c \in Calls, SetVrfAtSwitches(c)
  PROVE  \E S \in SUBSET Switches : Aside({c}, S)
<1> DEFINE m == call[c].machine
           vrf == call[c].vrf
<1>1. call[c] \in SetCall /\ call[c].pc = "set" /\ UNCHANGED <<cable, mishap>> /\ call[c].held \subseteq There
  BY CallShapes DEF SetVrfAtSwitches, TypeInv, HeldCalls
<1>2. m \in Machines /\ vrf \in Vrfs \cup {None} /\ call[c].todo \subseteq Switches
  BY <1>1 DEF SetCall
<1>3. CASE machine' = [machine EXCEPT ![m].up = @ \/ (vrf # None /\ machine[m].vrf = vrf)] /\ Finish(c) /\ UNCHANGED sw
  <2>1. Idle \in FreeCalls /\ Idle \in CallType /\ Idle \notin HeldCalls /\ Idle.pc = "idle"
    BY HasHeld, CallSteps DEF FreeCalls, CallType
  <2>2. /\ machine' \in [Machines -> MachineType]
        /\ \A n \in Machines : machine'[n].nics = machine[n].nics
    <3>1. machine \in [Machines -> MachineType]
      BY DEF TypeInv, TypeOK
    <3>2. \A x \in MachineType, up \in BOOLEAN : [x EXCEPT !.up = up] \in MachineType /\ [x EXCEPT !.up = up].nics = x.nics
      BY DEF MachineType
    <3>3. machine[m].up \in BOOLEAN
      BY <1>2, <3>1 DEF MachineType
    <3> QED BY <1>2, <1>3, <3>1, <3>2, <3>3
  <2>3. Stays /\ Grows
    BY <1>1, <2>2 DEF Stays, Grows, TypeInv, TypeOK
  <2>4. Aside({c}, {})
    BY <1>1, <1>3, <2>1, <2>2, <2>3, NoStep, GoAside DEF Finish
  <2> QED BY <2>4
<1>4. ASSUME NEW x \in call[c].todo, x \in call[c].held, UNCHANGED machine,
             Put(c, x, SetVrf(sw[x], m, vrf), [call[c] EXCEPT !.todo = @ \ {x}])
      PROVE  Aside({c}, {x})
  <2> DEFINE row == SetVrf(sw[x], m, vrf)
             rec == [call[c] EXCEPT !.todo = @ \ {x}]
  <2>1. x \in Switches /\ sw[x] \in RowType
    BY <1>1, <1>2, <1>4 DEF TypeInv, TypeOK, There
  <2>2. row \in RowType /\ row.conns = sw[x].conns /\ DOMAIN row.nics = DOMAIN sw[x].nics
    BY <1>2, <2>1, SetVrfRow
  <2>3. rec \in SetCall /\ rec.pc = "set" /\ rec.held = call[c].held
    BY <1>1 DEF SetCall
  <2>4. rec \in CallType /\ Put(c, x, row, rec) /\ row # None
    BY <1>4, <2>2, <2>3, NamesAssumption DEF CallType, HeldCalls
  <2>5. Stays /\ Grows /\ \A n \in Machines : machine'[n].nics = machine[n].nics
    BY <1>1, <1>4 DEF Stays, Grows, TypeInv, TypeOK
  <2> HIDE DEF row, rec
  <2>6. Frame({c}, {x}) /\ sw'[x] = row /\ call'[c] = rec
    BY <2>1, <2>2, <2>4, PutFrame
  <2>7. rec.held \subseteq There'
    BY <1>1, <2>1, <2>3, <2>4, <2>6 DEF Frame, There
  <2>8. Changed(x)
    BY <2>1, <2>2, <2>6 DEF Changed
  <2> QED BY <1>1, <2>1, <2>3, <2>5, <2>6, <2>7, <2>8, NoStep DEF Aside
<1>5. CASE Go(c, Again(call[c])) /\ UNCHANGED rows
  <2> DEFINE rec == Again(call[c])
  <2>1. rec \in ListCall /\ rec.pc \in {"bmc", "list"}
    BY <1>1, AgainCall
  <2>2. Go(c, rec) /\ UNCHANGED <<sw, machine>>
    BY <1>5 DEF rows
  <2> HIDE DEF rec
  <2>3. rec \in FreeCalls /\ rec \in CallType /\ rec \notin HeldCalls
    BY <2>1, HasHeld DEF FreeCalls, CallType
  <2>4. Stays /\ Grows /\ \A n \in Machines : machine'[n].nics = machine[n].nics
    BY <1>1, <2>2 DEF Stays, Grows, TypeInv, TypeOK
  <2>5. Aside({c}, {})
    BY <1>1, <2>1, <2>2, <2>3, <2>4, NoStep, GoAside
  <2> QED BY <2>5
<1>6. \A x \in call[c].todo : x \in Switches
  BY <1>2
<1> QED BY <1>3, <1>4, <1>5, <1>6 DEF SetVrfAtSwitches

LEMMA SettingCall ==
  ASSUME NEW k \in CallType, k.pc \in Setting
  PROVE  k \in ListCall \cup SetCall /\ k.pc \in {"bmc", "list", "set"} /\ k.pc \notin Registering \cup Migrating
  BY CallShapes, NoStep DEF Setting

LEMMA WatchForTaskCompletionAside ==
  ASSUME TypeInv, NEW c \in Calls, WatchForTaskCompletion(c)
  PROVE  Aside({c}, {})
<1> DEFINE rec == [call[c] EXCEPT !.pc = "list"]
<1>1. call[c] \in ListCall /\ call[c].pc = "bmc" /\ Go(c, rec) /\ UNCHANGED <<sw, machine, cable, mishap>>
  BY CallShapes DEF WatchForTaskCompletion, TypeInv, rows
<1>2. rec \in ListCall /\ rec.pc = "list"
  BY <1>1 DEF ListCall
<1> HIDE DEF rec
<1>3. rec \in FreeCalls /\ rec \in CallType /\ rec \notin HeldCalls
  BY <1>2, HasHeld DEF FreeCalls, CallType
<1>4. Stays /\ Grows /\ \A n \in Machines : machine'[n].nics = machine[n].nics
  BY <1>1 DEF Stays, Grows, TypeInv, TypeOK
<1> QED BY <1>1, <1>2, <1>3, <1>4, NoStep, GoAside

LEMMA SetVrfFailsAside ==
  ASSUME TypeInv, NEW c \in Calls, SetVrfFails(c)
  PROVE  Aside({c}, {})
<1>1. /\ call[c] \in ListCall \cup SetCall /\ call[c].pc \notin Registering \cup Migrating
      /\ UNCHANGED <<sw, cable, mishap>>
  BY SettingCall DEF SetVrfFails, TypeInv
<1>2. ASSUME NEW rec \in ListCall \cup {Idle}, Go(c, rec), machine' \in [Machines -> MachineType],
             \A n \in Machines : machine'[n].nics = machine[n].nics
      PROVE  Aside({c}, {})
  <2>1. rec \in FreeCalls /\ rec \in CallType /\ rec \notin HeldCalls /\ rec.pc \in {"idle", "bmc", "list"}
    BY HasHeld, CallSteps DEF FreeCalls, CallType
  <2>2. Stays /\ Grows
    BY <1>1, <1>2 DEF Stays, Grows, TypeInv, TypeOK
  <2> QED BY <1>1, <1>2, <2>1, <2>2, NoStep, GoAside
<1>3. machine \in [Machines -> MachineType]
  BY DEF TypeInv, TypeOK
<1>4. CASE Go(c, Again(call[c])) /\ UNCHANGED machine
  BY <1>1, <1>2, <1>3, <1>4, AgainCall
<1>5. CASE Finish(c) /\ UNCHANGED machine
  BY <1>2, <1>3, <1>5 DEF Finish
<1>6. CASE /\ call[c].vrf = None /\ Finish(c)
           /\ machine' = [machine EXCEPT ![call[c].machine].stuck = @ \cup {call[c].was}]
  <2>1. call[c].machine \in Machines /\ call[c].was \in Vrfs \cup {None}
    BY <1>1 DEF ListCall, SetCall
  <2>2. /\ machine' \in [Machines -> MachineType]
        /\ \A n \in Machines : machine'[n].nics = machine[n].nics
    BY <1>3, <1>6, <2>1 DEF MachineType
  <2> QED BY <1>2, <1>6, <2>2 DEF Finish
<1> QED BY <1>4, <1>5, <1>6 DEF SetVrfFails

LEMMA NewRows ==
  ASSUME NEW ports \in SUBSET Ports
  PROVE  /\ NewSwitch(ports) \in RowType /\ NewSwitch(ports).conns = {} /\ NewSwitch(ports).mode = "operational"
         /\ DOMAIN NewSwitch(ports).nics = ports
<1>1. Free \in NicType
  BY DEF Free, NicType
<1>2. [p \in ports |-> Free] \in NicsType
  BY <1>1, RowShape
<1> QED BY <1>2 DEF NewSwitch, RowType

LEMMA ReportRow ==
  ASSUME NEW s \in Switches, NEW report \in Reports[s]
  PROVE  /\ report \in RowType /\ report.conns = {} /\ report # None
         /\ \A p \in DOMAIN report.nics : report.nics[p].vrf = None
         /\ \A p \in DOMAIN report.nics : report.nics[p] \in NicType
         /\ DOMAIN report.nics \subseteq Ports
  BY NamesAssumption, ReportsAssumption, RowShape

LEMMA CreateSwitchAside ==
  ASSUME TypeInv, NEW c \in Calls, NEW s \in Switches, NEW report \in Reports[s], CreateSwitch(c, s, report)
  PROVE  Aside({c}, {s})
<1>1. /\ report \in RowType /\ report.conns = {}
      /\ Put(c, s, report, Idle) /\ call[c].pc = "idle" /\ UNCHANGED <<machine, cable, mishap>> /\ sw[s] = None
  BY ReportRow, CallSteps DEF CreateSwitch, Begin
<1>2. Grows /\ (sw'[s] = report => Created(s))
  BY <1>1 DEF Grows, TypeInv, TypeOK, Created
<1> QED BY <1>1, <1>2, NoStep, PutAside

\* The row that an update writes: known ports stay what they are.
Updated(x, report, mode) ==
    [mode |-> mode, conns |-> x.conns,
     nics |-> [p \in DOMAIN report.nics |-> IF p \in DOMAIN x.nics THEN x.nics[p] ELSE report.nics[p]]]

LEMMA UpdatedRow ==
  ASSUME NEW x \in RowType, NEW report \in RowType, NEW mode \in {"operational", "replace"}
  PROVE  /\ Updated(x, report, mode) \in RowType /\ Updated(x, report, mode).conns = x.conns
         /\ DOMAIN Updated(x, report, mode).nics = DOMAIN report.nics
         /\ \A p \in DOMAIN report.nics :
              Updated(x, report, mode).nics[p] = IF p \in DOMAIN x.nics THEN x.nics[p] ELSE report.nics[p]
<1> DEFINE new == [p \in DOMAIN report.nics |-> IF p \in DOMAIN x.nics THEN x.nics[p] ELSE report.nics[p]]
<1>1. new \in [DOMAIN report.nics -> NicType] /\ DOMAIN report.nics \in SUBSET Ports
  BY RowShape
<1>2. new \in NicsType
  BY <1>1, RowShape
<1>3. x.conns \in SUBSET (Machines \X Ports)
  BY DEF RowType
<1>4. Updated(x, report, mode) = [mode |-> mode, conns |-> x.conns, nics |-> new]
  BY DEF Updated
<1>5. DOMAIN new = DOMAIN report.nics /\ \A p \in DOMAIN new : new[p] = IF p \in DOMAIN x.nics THEN x.nics[p] ELSE report.nics[p]
  OBVIOUS
<1> HIDE DEF new
<1> QED BY <1>2, <1>3, <1>4, <1>5 DEF RowType

\* What an update does, for later use.
LEMMA UpdateSwitchWrites ==
  ASSUME TypeInv, NEW c \in Calls, NEW s \in Switches, NEW report \in Reports[s], UpdateSwitch(c, s, report)
  PROVE  /\ sw[s] \in RowType /\ sw[s].mode = "operational" /\ KeepsConnected(sw[s], DOMAIN report.nics)
         /\ call[c].pc = "idle" /\ UNCHANGED <<machine, cable, mishap>>
         /\ \E mode \in {"operational", "replace"} : Put(c, s, Updated(sw[s], report, mode), Idle)
<1>1. report.mode \in {"operational", "replace"}
  BY ReportRow, RowShape
<1>2. sw[s] \in RowType /\ call[c].pc = "idle"
  BY CallSteps DEF UpdateSwitch, Begin, TypeInv, TypeOK
<1> QED BY <1>1, <1>2 DEF UpdateSwitch, Updated

LEMMA UpdateSwitchAside ==
  ASSUME TypeInv, NEW c \in Calls, NEW s \in Switches, NEW report \in Reports[s], UpdateSwitch(c, s, report)
  PROVE  Aside({c}, {s})
<1>1. /\ sw[s] \in RowType /\ KeepsConnected(sw[s], DOMAIN report.nics) /\ call[c].pc = "idle"
      /\ UNCHANGED <<machine, cable, mishap>>
  BY UpdateSwitchWrites
<1>2. PICK mode \in {"operational", "replace"} : Put(c, s, Updated(sw[s], report, mode), Idle)
  BY UpdateSwitchWrites
<1> DEFINE row == Updated(sw[s], report, mode)
<1>3. row \in RowType /\ row.conns = sw[s].conns /\ DOMAIN row.nics = DOMAIN report.nics
  BY <1>1, ReportRow, UpdatedRow
<1>4. Put(c, s, row, Idle)
  BY <1>2
<1>5. Grows
  BY <1>1 DEF Grows, TypeInv, TypeOK
<1> HIDE DEF row
<1>6. sw'[s] = row => Changed(s)
  BY <1>1, <1>3 DEF Changed
<1> QED BY <1>1, <1>3, <1>4, <1>5, <1>6, NoStep, PutAside

LEMMA AdoptRow ==
  ASSUME NEW x \in RowType, NEW nics \in NicsType
  PROVE  /\ Adopt(x, nics) \in RowType /\ Adopt(x, nics).conns = x.conns /\ DOMAIN Adopt(x, nics).nics = DOMAIN nics
         /\ \A p \in DOMAIN nics : Adopt(x, nics).nics[p].vrf = IF p \in DOMAIN x.nics THEN x.nics[p].vrf ELSE nics[p].vrf
<1> DEFINE new == [p \in DOMAIN nics |-> IF p \in DOMAIN x.nics THEN [nics[p] EXCEPT !.vrf = x.nics[p].vrf] ELSE nics[p]]
<1>1. \A p \in DOMAIN x.nics : x.nics[p].vrf \in Vrfs \cup {None}
  BY RowShape DEF NicType
<1>2. DOMAIN nics \in SUBSET Ports /\ \A p \in DOMAIN nics : nics[p] \in NicType
  BY RowShape
<1>3. \A k \in NicType, v \in Vrfs \cup {None} : [k EXCEPT !.vrf = v] \in NicType /\ [k EXCEPT !.vrf = v].vrf = v
  BY DEF NicType
<1>4. /\ new \in [DOMAIN nics -> NicType] /\ DOMAIN new = DOMAIN nics
      /\ \A p \in DOMAIN nics : new[p].vrf = IF p \in DOMAIN x.nics THEN x.nics[p].vrf ELSE nics[p].vrf
  BY <1>1, <1>2, <1>3
<1>5. new \in NicsType
  BY <1>2, <1>4, RowShape
<1>6. Adopt(x, nics) = [mode |-> "operational", conns |-> x.conns, nics |-> new]
  BY DEF Adopt
<1> HIDE DEF new
<1> QED BY <1>4, <1>5, <1>6 DEF RowType

LEMMA ReplaceAside ==
  ASSUME TypeInv, NEW c \in Calls, NEW s \in Switches, NEW report \in Reports[s], Replace(c, s, report)
  PROVE  Aside({c}, {})
<1>1. /\ sw[s] # None /\ UNCHANGED <<sw, machine, cable>> /\ Happened("stale", Someone({"set"})) /\ call[c].pc = "idle"
  BY CallSteps DEF Replace, Begin, rows
<1>2. PICK t \in Twins(s) : /\ DOMAIN sw[t].nics \subseteq DOMAIN report.nics
                            /\ Go(c, [pc |-> "replace", switch |-> s, held |-> {s, t},
                                      new |-> Adopt(sw[t], report.nics), twin |-> t])
  BY DEF Replace
<1>3. t \in There /\ t \in Switches /\ s \in There /\ sw[t] \in RowType
  BY <1>1, <1>2 DEF Twins, There, TypeInv, TypeOK
<1> DEFINE row == Adopt(sw[t], report.nics)
           rec == [pc |-> "replace", switch |-> s, held |-> {s, t}, new |-> row, twin |-> t]
<1>4. row \in RowType /\ row.conns = sw[t].conns /\ DOMAIN row.nics = DOMAIN report.nics
  BY <1>3, ReportRow, RowShape, AdoptRow
<1>5. Go(c, rec)
  BY <1>2
<1> HIDE DEF row
<1>6. rec \in ReplaceCall /\ rec.pc = "replace" /\ rec.new = row /\ rec.held = {s, t}
  BY <1>3, <1>4 DEF ReplaceCall
<1>7. rec \in CallType
  BY <1>6 DEF CallType, HeldCalls
<1>8. mishap \subseteq mishap' /\ mishap' \subseteq mishap \cup {"stale"}
  BY <1>1, HappenedWord
<1>9. Stays /\ Grows
  BY <1>1, <1>8 DEF Stays, Grows, TypeInv, TypeOK, Mishaps
<1> HIDE DEF rec
<1> QED BY <1>1, <1>2, <1>3, <1>4, <1>5, <1>6, <1>7, <1>9, NoStep, GoAside

LEMMA ReplaceWriteAside ==
  ASSUME TypeInv, NEW c \in Calls, ReplaceWrite(c)
  PROVE  \E S \in SUBSET Switches : Aside({c}, S)
<1>1. /\ call[c] \in ReplaceCall /\ call[c].pc = "replace" /\ UNCHANGED <<machine, cable>>
      /\ call[c].held \subseteq There /\ call[c].switch \in Switches /\ call[c].new \in RowType
  BY CallShapes DEF ReplaceWrite, TypeInv, HeldCalls, ReplaceCall
<1> DEFINE s == call[c].switch
<1>2. CASE /\ s \in call[c].held /\ Put(c, s, call[c].new, Idle)
           /\ mishap' = mishap \cup (IF call[c].new.conns = sw[s].conns THEN {} ELSE {"moved"})
                               \cup (IF call[c].twin \in call[c].held THEN {} ELSE {"stale"})
  <2>1. Grows /\ (call[c].new.conns # sw[s].conns => "moved" \in mishap')
    BY <1>2 DEF Grows, TypeInv, TypeOK, Mishaps
  <2>2. sw[s] \in RowType
    BY <1>1, <1>2 DEF TypeInv, TypeOK, There
  <2>3. sw'[s] = call[c].new => TakesOver(c, s)
    BY <1>1, <2>1, <2>2 DEF TakesOver
  <2>4. Aside({c}, {s})
    BY <1>1, <1>2, <2>1, <2>3, NoStep, PutAside
  <2> QED BY <1>1, <2>4
<1>3. CASE Finish(c) /\ UNCHANGED <<sw, mishap>>
  <2>1. Idle \in FreeCalls /\ Idle \in CallType /\ Idle \notin HeldCalls /\ Idle.pc = "idle"
    BY HasHeld, CallSteps DEF FreeCalls, CallType
  <2>2. Stays /\ Grows
    BY <1>1, <1>3 DEF Stays, Grows, TypeInv, TypeOK
  <2>3. Aside({c}, {})
    BY <1>1, <1>3, <2>1, <2>2, NoStep, GoAside DEF Finish
  <2> QED BY <2>3
<1> QED BY <1>2, <1>3 DEF ReplaceWrite

LEMMA SetReplaceModeAside ==
  ASSUME TypeInv, NEW c \in Calls, NEW s \in Switches, NEW mode \in {"operational", "replace"},
         SetReplaceMode(c, s, mode)
  PROVE  Aside({c}, {s})
<1> DEFINE row == [sw[s] EXCEPT !.mode = mode]
<1>1. sw[s] \in RowType /\ Put(c, s, row, Idle) /\ call[c].pc = "idle" /\ UNCHANGED <<machine, cable, mishap>>
  BY CallSteps DEF SetReplaceMode, Begin, TypeInv, TypeOK
<1>2. row \in RowType /\ row.conns = sw[s].conns /\ row.nics = sw[s].nics
  BY <1>1 DEF RowType
<1> HIDE DEF row
<1>3. Grows /\ (sw'[s] = row => Changed(s))
  BY <1>1, <1>2 DEF Grows, TypeInv, TypeOK, Changed
<1> QED BY <1>1, <1>2, <1>3, NoStep, PutAside

LEMMA PortAside ==
  ASSUME TypeInv, NEW c \in Calls, NEW s \in Switches, NEW p \in Ports, NEW status \in {"up", "down"}, Port(c, s, p, status)
  PROVE  Aside({c}, {s})
<1> DEFINE nics == [sw[s].nics EXCEPT ![p].desired = status]
           row == [sw[s] EXCEPT !.nics = nics]
<1>1. /\ sw[s] \in RowType /\ p \in DOMAIN sw[s].nics /\ call[c].pc = "idle" /\ UNCHANGED <<machine, cable, mishap>>
      /\ Put(c, s, [sw[s] EXCEPT !.nics[p].desired = status], Idle)
  BY CallSteps DEF Port, Begin, TypeInv, TypeOK
<1>2. DOMAIN sw[s].nics \in SUBSET Ports /\ \A q \in DOMAIN sw[s].nics : sw[s].nics[q] \in NicType
  BY <1>1, RowShape
<1>3. [sw[s].nics[p] EXCEPT !.desired = status] \in NicType
  BY <1>1, <1>2 DEF NicType
<1>4. sw[s].nics \in [DOMAIN sw[s].nics -> NicType]
  BY <1>1, <1>2 DEF RowType, NicsType
<1>5. nics \in [DOMAIN sw[s].nics -> NicType] /\ DOMAIN nics = DOMAIN sw[s].nics
  BY <1>3, <1>4
<1>6. nics \in NicsType
  BY <1>2, <1>5, RowShape
<1>7. Put(c, s, row, Idle)
  BY <1>1
<1> HIDE DEF nics
<1>8. row \in RowType /\ row.conns = sw[s].conns /\ DOMAIN row.nics = DOMAIN sw[s].nics
  BY <1>1, <1>5, <1>6 DEF RowType
<1> HIDE DEF row
<1>9. Grows /\ (sw'[s] = row => Changed(s))
  BY <1>1, <1>8 DEF Grows, TypeInv, TypeOK, Changed
<1> QED BY <1>1, <1>7, <1>8, <1>9, NoStep, PutAside

LEMMA HeartbeatAside ==
  ASSUME TypeInv, NEW c \in Calls, NEW s \in Switches, NEW actual \in [Ports -> {"up", "down"}], Heartbeat(c, s, actual)
  PROVE  Aside({c}, {})
<1> DEFINE next == [p \in DOMAIN sw[s].nics |-> NewNicState(sw[s].nics[p], actual[p])]
           rec == [pc |-> "beat", switch |-> s, read |-> sw[s].nics, next |-> next]
<1>1. sw[s] \in RowType /\ Go(c, rec) /\ call[c].pc = "idle" /\ UNCHANGED <<sw, machine, cable, mishap>>
  BY CallSteps DEF Heartbeat, Begin, TypeInv, TypeOK, rows
<1>2. DOMAIN sw[s].nics \in SUBSET Ports /\ \A q \in DOMAIN sw[s].nics : sw[s].nics[q] \in NicType
  BY <1>1, RowShape
<1>3. \A k \in NicType, state \in {"up", "down"} : NewNicState(k, state) \in NicType
  BY DEF NicType, NewNicState
<1>4. next \in [DOMAIN sw[s].nics -> NicType]
  BY <1>2, <1>3
<1>5. next \in NicsType /\ sw[s].nics \in NicsType
  BY <1>1, <1>2, <1>4, RowShape
<1> HIDE DEF next
<1>6. rec \in BeatCall /\ rec.pc = "beat"
  BY <1>5 DEF BeatCall
<1> HIDE DEF rec
<1>7. rec \in FreeCalls /\ rec \in CallType /\ rec \notin HeldCalls
  BY <1>6, HasHeld DEF FreeCalls, CallType
<1>8. Stays /\ Grows
  BY <1>1 DEF Stays, Grows, TypeInv, TypeOK
<1> QED BY <1>1, <1>6, <1>7, <1>8, NoStep, GoAside

LEMMA HeartbeatWriteAside ==
  ASSUME TypeInv, NEW c \in Calls, HeartbeatWrite(c)
  PROVE  \E S \in SUBSET Switches : Aside({c}, S)
<1> DEFINE s == call[c].switch
<1>1. /\ call[c] \in BeatCall /\ call[c].pc = "beat" /\ UNCHANGED <<machine, cable>> /\ s \in Switches
      /\ call[c].next \in NicsType
  BY CallShapes DEF HeartbeatWrite, TypeInv, BeatCall
<1>2. CASE Finish(c) /\ UNCHANGED <<sw, mishap>>
  <2>1. Idle \in FreeCalls /\ Idle \in CallType /\ Idle \notin HeldCalls /\ Idle.pc = "idle"
    BY HasHeld, CallSteps DEF FreeCalls, CallType
  <2>2. Stays /\ Grows
    BY <1>1, <1>2 DEF Stays, Grows, TypeInv, TypeOK
  <2>3. Aside({c}, {})
    BY <1>1, <1>2, <2>1, <2>2, NoStep, GoAside DEF Finish
  <2> QED BY <2>3
<1>3. CASE /\ s \in There /\ KeepsConnected(sw[s], DOMAIN call[c].next)
           /\ Put(c, s, [sw[s] EXCEPT !.nics = call[c].next], Idle)
           /\ Happened("stale", sw[s].nics # call[c].read)
  <2> DEFINE row == [sw[s] EXCEPT !.nics = call[c].next]
  <2>1. sw[s] \in RowType /\ Put(c, s, row, Idle)
    BY <1>1, <1>3 DEF TypeInv, TypeOK, There
  <2>2. row \in RowType /\ row.conns = sw[s].conns /\ row.nics = call[c].next
    BY <1>1, <2>1 DEF RowType
  <2> HIDE DEF row
  <2>3. mishap \subseteq mishap' /\ mishap' \subseteq mishap \cup {"stale"}
    BY <1>3, HappenedWord
  <2>4. Grows
    BY <2>3 DEF Grows, TypeInv, TypeOK, Mishaps
  <2>5. sw'[s] = row => Changed(s)
    BY <1>3, <2>1, <2>2 DEF Changed
  <2>6. Aside({c}, {s})
    BY <1>1, <2>1, <2>2, <2>4, <2>5, NoStep, PutAside
  <2> QED BY <1>1, <2>6
<1> QED BY <1>2, <1>3 DEF HeartbeatWrite

LEMMA DeleteAside ==
  ASSUME TypeInv, NEW c \in Calls, NEW s \in Switches, Delete(c, s)
  PROVE  Aside({c}, {})
<1> DEFINE rec == [pc |-> "delete", switch |-> s]
<1>1. rec \in DeleteCall /\ rec.pc = "delete"
  BY DEF DeleteCall
<1>2. Go(c, rec) /\ UNCHANGED <<sw, machine, cable, mishap>> /\ call[c].pc = "idle"
  BY CallSteps DEF Delete, Begin, rows
<1> HIDE DEF rec
<1>3. rec \in FreeCalls /\ rec \in CallType /\ rec \notin HeldCalls
  BY <1>1, HasHeld DEF FreeCalls, CallType
<1>4. Stays /\ Grows
  BY <1>2 DEF Stays, Grows, TypeInv, TypeOK
<1> QED BY <1>1, <1>2, <1>3, <1>4, NoStep, GoAside

LEMMA NobodyThere ==
  ASSUME TypeInv, NEW s \in Switches, s \in There => sw[s].conns = {}
  PROVE  \A m \in Machines : At(s, m) = {}
  BY DEF At, There, PortsOf

LEMMA DeleteWriteAside ==
  ASSUME TypeInv, NEW c \in Calls, DeleteWrite(c)
  PROVE  \E S \in SUBSET Switches : Aside({c}, S)
<1> DEFINE s == call[c].switch
<1>1. /\ call[c] \in DeleteCall /\ call[c].pc = "delete" /\ UNCHANGED <<machine, cable>> /\ s \in Switches
      /\ Put(c, s, None, Idle) /\ Happened("removed", s \in There /\ sw[s].conns # {})
  BY CallShapes DEF DeleteWrite, TypeInv, DeleteCall
<1>2. /\ mishap \subseteq mishap' /\ mishap' \subseteq mishap \cup {"removed"}
      /\ s \in There /\ sw[s].conns # {} => "removed" \in mishap'
  BY <1>1, HappenedWord
<1>3. Grows
  BY <1>2 DEF Grows, TypeInv, TypeOK, Mishaps
<1>4. sw'[s] = None => Emptied(s)
  BY <1>1, <1>2, NobodyThere DEF Emptied
<1>5. Aside({c}, {s})
  BY <1>1, <1>3, <1>4, NoStep, PutAside
<1> QED BY <1>1, <1>5

LEMMA ForceDeleteAside ==
  ASSUME TypeInv, NEW s \in Switches, ForceDelete(s)
  PROVE  Aside({}, {s})
<1>1. PutAtOnce(s, None) /\ mishap' = mishap \cup {"forced"} /\ UNCHANGED <<machine, cable>>
  BY DEF ForceDelete
<1>2. Frame({}, {s}) /\ sw'[s] = None
  BY <1>1, PutAtOnceFrame
<1>3. Stays /\ Grows
  BY <1>1 DEF Stays, Grows, TypeInv, TypeOK, Mishaps
<1> QED BY <1>1, <1>2, <1>3 DEF Aside, Emptied

LEMMA AllocateAside ==
  ASSUME TypeInv, NEW m \in Machines, NEW v \in Vrfs, Allocate(m, v)
  PROVE  Aside({}, {})
<1>1. /\ machine' = [machine EXCEPT ![m].vrf = v] /\ UNCHANGED <<sw, cable, call>>
      /\ mishap' = mishap \cup (IF Resetting(m) THEN {"overtaken"} ELSE {}) \cup (IF Installing(m) THEN {"late"} ELSE {})
  BY DEF Allocate
<1>2. /\ machine' \in [Machines -> MachineType]
      /\ \A n \in Machines : machine'[n].nics = machine[n].nics
  BY <1>1 DEF TypeInv, TypeOK, MachineType
<1>3. mishap \subseteq mishap' /\ mishap' \subseteq mishap \cup {"late", "overtaken"}
  BY <1>1
<1>4. Stays /\ Grows /\ Frame({}, {})
  BY <1>1, <1>2, <1>3, IdleFrame DEF Stays, Grows, TypeInv, TypeOK, Mishaps
<1> QED BY <1>2, <1>4 DEF Aside

LEMMA ReplugAside ==
  ASSUME TypeInv, NEW m \in Machines, NEW x \in Plugs, NEW y \in Plugs, Replug(m, {x, y})
  PROVE  Aside({}, {})
<1>1. cable' = [cable EXCEPT ![m] = {x, y}] /\ UNCHANGED <<sw, machine, call, mishap>>
  BY DEF Replug, rows
<1>2. Stays /\ Grows /\ Frame({}, {})
  BY <1>1, IdleFrame DEF Stays, Grows, TypeInv, TypeOK, Mishaps
<1> QED BY <1>1, <1>2 DEF Aside

LEMMA StutterAside ==
  ASSUME TypeInv, UNCHANGED vars
  PROVE  Aside({}, {})
<1>1. Stays /\ Grows /\ Frame({}, {})
  BY IdleFrame DEF vars, Stays, Grows, TypeInv, TypeOK, Mishaps
<1> QED BY <1>1 DEF Aside, vars

-----------------------------------------------------------------------------
(* What the steps of a migration do.                                         *)

SameMigration(k, l) ==
    /\ k \in MigrateCall /\ l \in MigrateCall
    /\ l.old = k.old /\ l.oldRow = k.oldRow /\ l.new = k.new /\ l.held = k.held

\* The stored nics of a machine on the old switch.
StoredOn(nics, s) == {x[2] : x \in {y \in nics : y[1] = s}}

LEMMA MigrateEffect ==
  ASSUME TypeInv, NEW c \in Calls, NEW old \in Switches, NEW new \in Switches, Migrate(c, old, new)
  PROVE  /\ call[c] = Idle /\ Frame({c}, {}) /\ UNCHANGED <<sw, machine, cable>> /\ Grows
         /\ old # new /\ old \in There /\ new \in There /\ sw[old] \in RowType /\ sw[new] \in RowType
         /\ sw[new].conns = {} /\ DOMAIN sw[old].nics \subseteq DOMAIN sw[new].nics
         /\ call'[c] \in MigrateCall /\ call'[c].pc = "neigh" /\ call'[c].old = old /\ call'[c].new = new
         /\ call'[c].oldRow = sw[old] /\ call'[c].held = {old, new} /\ call'[c].todo = {x[1] : x \in sw[old].conns}
         /\ "moved" \notin mishap' =>
              /\ ~Someone(Registering \cup Migrating)
              /\ \A m \in Machines : PortsOf(sw[old], m) \in {{}, StoredOn(machine[m].nics, old)}
<1> DEFINE rec == [pc |-> "neigh", old |-> old, oldRow |-> sw[old], new |-> new, held |-> {old, new},
                   todo |-> {x[1] : x \in sw[old].conns}]
<1>1. /\ call[c] = Idle /\ UNCHANGED <<sw, machine, cable>> /\ old # new /\ old \in There /\ new \in There
      /\ sw[old] \in RowType /\ sw[new] \in RowType
      /\ sw[new].conns = {} /\ DOMAIN sw[old].nics \subseteq DOMAIN sw[new].nics /\ Go(c, rec)
  BY DEF Migrate, Begin, TypeInv, TypeOK, There, rows
<1>2. {x[1] : x \in sw[old].conns} \subseteq Machines
  BY <1>1 DEF RowType
<1>3. /\ rec \in MigrateCall /\ rec.pc = "neigh" /\ rec.old = old /\ rec.new = new
      /\ rec.oldRow = sw[old] /\ rec.held = {old, new} /\ rec.todo = {x[1] : x \in sw[old].conns}
  BY <1>1, <1>2 DEF MigrateCall, Migrating
<1>4. rec \in CallType
  BY <1>3 DEF CallType, HeldCalls
<1>5. Happened("moved", \/ Someone(Registering \cup Migrating)
                        \/ \E m \in Machines : PortsOf(sw[old], m) \notin {{}, StoredOn(machine[m].nics, old)})
  BY DEF Migrate, StoredOn
<1>6. /\ mishap \subseteq mishap' /\ mishap' \subseteq mishap \cup {"moved"}
      /\ "moved" \notin mishap' =>
           ~(\/ Someone(Registering \cup Migrating)
             \/ \E m \in Machines : PortsOf(sw[old], m) \notin {{}, StoredOn(machine[m].nics, old)})
  BY <1>5, HappenedWord
<1>7. Grows
  BY <1>6 DEF Grows, TypeInv, TypeOK, Mishaps
<1> HIDE DEF rec
<1>8. Frame({c}, {}) /\ call'[c] = rec
  BY <1>1, <1>4, GoFrame
<1> QED BY <1>1, <1>3, <1>6, <1>7, <1>8

LEMMA MigrateMachineEffect ==
  ASSUME TypeInv, NEW c \in Calls, MigrateMachine(c)
  PROVE  /\ Frame({c}, {}) /\ UNCHANGED <<sw, cable, mishap>> /\ Stays
         /\ call[c].pc = "neigh" /\ SameMigration(call[c], call'[c])
         /\ \/ call[c].todo = {} /\ call'[c].todo = {} /\ call'[c].pc = "migrateOld" /\ machine' = machine
            \/ \E m \in call[c].todo :
                 /\ call'[c].pc = "neigh" /\ call'[c].todo = call[c].todo \ {m}
                 /\ \A n \in Machines \ {m} : machine'[n].nics = machine[n].nics
                 /\ machine'[m].nics = {IF x[1] = call[c].old /\ x[2] \in PortsOf(call[c].oldRow, m)
                                        THEN <<call[c].new, x[2]>> ELSE x : x \in machine[m].nics}
<1>1. call[c] \in MigrateCall /\ call[c].pc = "neigh" /\ UNCHANGED <<sw, cable, mishap>> /\ call[c].todo \subseteq Machines
  BY CallShapes DEF MigrateMachine, TypeInv, MigrateCall, Migrating
<1>2. CASE call[c].todo = {} /\ Go(c, [call[c] EXCEPT !.pc = "migrateOld"]) /\ UNCHANGED machine
  <2> DEFINE rec == [call[c] EXCEPT !.pc = "migrateOld"]
  <2>1. /\ rec \in MigrateCall /\ rec.pc = "migrateOld" /\ rec.todo = call[c].todo /\ SameMigration(call[c], rec)
    BY <1>1 DEF MigrateCall, Migrating, SameMigration
  <2>2. rec \in CallType /\ Go(c, rec)
    BY <1>2, <2>1 DEF CallType, HeldCalls
  <2>3. Stays
    BY <1>1, <1>2 DEF Stays, TypeInv, TypeOK
  <2> HIDE DEF rec
  <2>4. Frame({c}, {}) /\ call'[c] = rec
    BY <1>1, <2>2, GoFrame
  <2> QED BY <1>1, <1>2, <2>1, <2>3, <2>4
<1>3. ASSUME NEW m \in call[c].todo, Go(c, [call[c] EXCEPT !.todo = @ \ {m}]),
             machine' = [machine EXCEPT ![m].nics = {IF x[1] = call[c].old /\ x[2] \in PortsOf(call[c].oldRow, m)
                                                     THEN <<call[c].new, x[2]>> ELSE x : x \in @}]
      PROVE  /\ Frame({c}, {}) /\ Stays /\ SameMigration(call[c], call'[c])
             /\ call'[c].pc = "neigh" /\ call'[c].todo = call[c].todo \ {m}
             /\ \A n \in Machines \ {m} : machine'[n].nics = machine[n].nics
             /\ machine'[m].nics = {IF x[1] = call[c].old /\ x[2] \in PortsOf(call[c].oldRow, m)
                                    THEN <<call[c].new, x[2]>> ELSE x : x \in machine[m].nics}
  <2> DEFINE rec == [call[c] EXCEPT !.todo = @ \ {m}]
             nics == {IF x[1] = call[c].old /\ x[2] \in PortsOf(call[c].oldRow, m)
                      THEN <<call[c].new, x[2]>> ELSE x : x \in machine[m].nics}
  <2>1. /\ rec \in MigrateCall /\ rec.pc = "neigh" /\ rec.todo = call[c].todo \ {m} /\ SameMigration(call[c], rec)
    BY <1>1 DEF MigrateCall, SameMigration
  <2>2. rec \in CallType /\ Go(c, rec)
    BY <1>3, <2>1 DEF CallType, HeldCalls
  <2>3. m \in Machines /\ machine[m].nics \in SUBSET Plugs /\ call[c].new \in Switches
    BY <1>1, <1>3 DEF TypeInv, TypeOK, MigrateCall, MachineType
  <2>4. nics \in SUBSET Plugs
    BY <2>3 DEF Plugs
  <2>5. machine' = [machine EXCEPT ![m].nics = nics]
    BY <1>3
  <2>6. /\ machine' \in [Machines -> MachineType]
        /\ \A n \in Machines \ {m} : machine'[n].nics = machine[n].nics
        /\ machine'[m].nics = nics
    <3> HIDE DEF nics
    <3> QED BY <2>3, <2>4, <2>5 DEF TypeInv, TypeOK, MachineType
  <2>7. Stays
    BY <1>1, <2>6 DEF Stays, TypeInv, TypeOK
  <2> HIDE DEF rec
  <2>8. Frame({c}, {}) /\ call'[c] = rec
    BY <1>1, <2>2, GoFrame
  <2> QED BY <2>1, <2>6, <2>7, <2>8
<1> QED BY <1>1, <1>2, <1>3 DEF MigrateMachine

\* A migration that meets a conflict is not taken back.
Abandons(c) == Frame({c}, {}) /\ UNCHANGED <<sw, machine, cable>> /\ Grows /\ call'[c] = Idle /\ "halfway" \in mishap'

LEMMA AbandonsEffect ==
  ASSUME TypeInv, NEW c \in Calls, Finish(c), Happened("halfway", TRUE), UNCHANGED <<sw, machine, cable>>
  PROVE  Abandons(c)
<1>1. mishap \subseteq mishap' /\ mishap' \subseteq mishap \cup {"halfway"} /\ "halfway" \in mishap'
  BY HappenedWord
<1> QED BY <1>1, FinishFrame DEF Abandons, Grows, TypeInv, TypeOK, Mishaps

LEMMA MigrateOldEffect ==
  ASSUME TypeInv, NEW c \in Calls, MigrateOld(c)
  PROVE  /\ call[c] \in MigrateCall /\ call[c].pc = "migrateOld"
         /\ \/ /\ Frame({c}, {call[c].old}) /\ UNCHANGED <<machine, cable, mishap>>
               /\ call[c].old \in call[c].held /\ sw[call[c].old] \in RowType /\ sw'[call[c].old] \in RowType
               /\ sw'[call[c].old].conns = {}
               /\ SameMigration(call[c], call'[c]) /\ call'[c].pc = "migrateNew" /\ call'[c].todo = call[c].todo
            \/ Abandons(c)
<1>1. call[c] \in MigrateCall /\ call[c].pc = "migrateOld" /\ UNCHANGED <<machine, cable>> /\ call[c].held \subseteq There
  BY CallShapes DEF MigrateOld, TypeInv, Migrating, HeldCalls
<1>2. CASE /\ call[c].old \in call[c].held /\ UNCHANGED mishap
           /\ Put(c, call[c].old, [sw[call[c].old] EXCEPT !.conns = {}], [call[c] EXCEPT !.pc = "migrateNew"])
  <2> DEFINE rec == [call[c] EXCEPT !.pc = "migrateNew"]
             old == call[c].old
             row == [sw[old] EXCEPT !.conns = {}]
  <2>1. old \in Switches /\ sw[old] \in RowType
    BY <1>1, <1>2 DEF MigrateCall, TypeInv, TypeOK, There
  <2>2. row \in RowType /\ row.conns = {}
    BY <2>1 DEF RowType
  <2>3. rec \in MigrateCall /\ rec.pc = "migrateNew" /\ rec.todo = call[c].todo /\ SameMigration(call[c], rec)
    BY <1>1 DEF MigrateCall, Migrating, SameMigration
  <2>4. rec \in CallType /\ Put(c, old, row, rec)
    BY <1>2, <2>3 DEF CallType, HeldCalls
  <2> HIDE DEF rec, row
  <2>5. Frame({c}, {old}) /\ sw'[old] = row /\ call'[c] = rec
    BY <2>1, <2>2, <2>4, PutFrame
  <2> QED BY <1>1, <1>2, <2>1, <2>2, <2>3, <2>5
<1>3. CASE Finish(c) /\ Happened("halfway", TRUE) /\ UNCHANGED sw
  BY <1>1, <1>3, AbandonsEffect
<1> QED BY <1>1, <1>2, <1>3 DEF MigrateOld

LEMMA MigrateNewEffect ==
  ASSUME TypeInv, NEW c \in Calls, MigrateNew(c)
  PROVE  /\ call[c] \in MigrateCall /\ call[c].pc = "migrateNew"
         /\ \/ /\ Frame({c}, {call[c].new}) /\ UNCHANGED <<machine, cable>> /\ Grows /\ call'[c] = Idle
               /\ call[c].new \in call[c].held /\ sw[call[c].new] \in RowType /\ sw'[call[c].new] \in RowType
               /\ sw'[call[c].new].conns = call[c].oldRow.conns
               /\ DOMAIN sw'[call[c].new].nics = DOMAIN sw[call[c].new].nics
            \/ Abandons(c)
<1>1. call[c] \in MigrateCall /\ call[c].pc = "migrateNew" /\ UNCHANGED <<machine, cable>> /\ call[c].held \subseteq There
  BY CallShapes DEF MigrateNew, TypeInv, Migrating, HeldCalls
<1>2. CASE /\ call[c].new \in call[c].held
           /\ Put(c, call[c].new, Adopt(call[c].oldRow, sw[call[c].new].nics), Idle)
           /\ Happened("left", call[c].oldRow.conns # {} /\ LeftOver(sw[call[c].new],
                               DOMAIN sw[call[c].new].nics \ DOMAIN call[c].oldRow.nics))
  <2> DEFINE new == call[c].new
             row == Adopt(call[c].oldRow, sw[new].nics)
  <2>1. new \in Switches /\ sw[new] \in RowType /\ call[c].oldRow \in RowType
    BY <1>1, <1>2 DEF MigrateCall, TypeInv, TypeOK, There
  <2>2. row \in RowType /\ row.conns = call[c].oldRow.conns /\ DOMAIN row.nics = DOMAIN sw[new].nics
    BY <2>1, AdoptRow, RowShape
  <2>3. Idle \in CallType /\ Put(c, new, row, Idle)
    BY <1>2 DEF CallType, FreeCalls
  <2>5. mishap \subseteq mishap' /\ mishap' \subseteq mishap \cup {"left"}
    BY <1>2, HappenedWord
  <2>6. Grows
    BY <2>5 DEF Grows, TypeInv, TypeOK, Mishaps
  <2> HIDE DEF row, new
  <2>4. Frame({c}, {new}) /\ sw'[new] = row /\ call'[c] = Idle
    BY <2>1, <2>2, <2>3, PutFrame
  <2> QED BY <1>1, <1>2, <2>1, <2>2, <2>4, <2>6 DEF new
<1>3. CASE Finish(c) /\ Happened("halfway", TRUE) /\ UNCHANGED sw
  BY <1>1, <1>3, AbandonsEffect
<1> QED BY <1>1, <1>2, <1>3 DEF MigrateNew

-----------------------------------------------------------------------------
(* Every step, and types.                                                    *)

Steps ==
    \/ \E W \in SUBSET Calls, S \in SUBSET Switches : Aside(W, S)
    \/ \E c \in Calls, m \in Machines : RegisterMachine(c, m)
    \/ \E c \in Calls : \/ FormerSwitches(c) \/ Disconnect(c) \/ ReadSwitches(c) \/ WriteFirst(c) \/ WriteSecond(c)
                        \/ MigrateMachine(c) \/ MigrateOld(c) \/ MigrateNew(c)
    \/ \E c \in Calls, old, new \in Switches : Migrate(c, old, new)

LEMMA NextSteps ==
  ASSUME TypeInv, [Next]_vars
  PROVE  Steps
<1>1. ASSUME NEW c \in Calls, NEW m \in Machines,
             RegisterMachine(c, m) \/ InstallationSucceeded(c, m) \/ ReleaseAllocation(c, m)
      PROVE  Steps
  BY <1>1, InstallationSucceededAside, ReleaseAllocationAside DEF Steps
<1>2. ASSUME NEW c \in Calls,
             \/ FormerSwitches(c) \/ Disconnect(c) \/ ReadSwitches(c) \/ WriteFirst(c) \/ WriteSecond(c)
             \/ WatchForTaskCompletion(c) \/ SearchSwitches(c) \/ SetVrfAtSwitches(c) \/ SetVrfFails(c)
             \/ ReplaceWrite(c) \/ HeartbeatWrite(c) \/ DeleteWrite(c)
             \/ MigrateMachine(c) \/ MigrateOld(c) \/ MigrateNew(c)
      PROVE  Steps
  <2>1. CASE SearchSwitches(c)
    BY <2>1, SearchSwitchesAside DEF Steps
  <2>2. CASE SetVrfAtSwitches(c)
    BY <2>2, SetVrfAtSwitchesAside DEF Steps
  <2>3. CASE ReplaceWrite(c)
    BY <2>3, ReplaceWriteAside DEF Steps
  <2>4. CASE HeartbeatWrite(c)
    BY <2>4, HeartbeatWriteAside DEF Steps
  <2>5. CASE DeleteWrite(c)
    BY <2>5, DeleteWriteAside DEF Steps
  <2>6. CASE WatchForTaskCompletion(c)
    BY <2>6, WatchForTaskCompletionAside DEF Steps
  <2>7. CASE SetVrfFails(c)
    BY <2>7, SetVrfFailsAside DEF Steps
  <2> QED BY <1>2, <2>1, <2>2, <2>3, <2>4, <2>5, <2>6, <2>7 DEF Steps
<1>3. ASSUME NEW c \in Calls, NEW s \in Switches, NEW report \in Reports[s],
             CreateSwitch(c, s, report) \/ UpdateSwitch(c, s, report) \/ Replace(c, s, report)
      PROVE  Steps
  BY <1>3, CreateSwitchAside, UpdateSwitchAside, ReplaceAside DEF Steps
<1>4. ASSUME NEW c \in Calls, NEW s \in Switches,
             Delete(c, s) \/ \E mode \in {"operational", "replace"} : SetReplaceMode(c, s, mode)
      PROVE  Steps
  <2>1. CASE Delete(c, s)
    BY <2>1, DeleteAside DEF Steps
  <2>2. ASSUME NEW mode \in {"operational", "replace"}, SetReplaceMode(c, s, mode)
        PROVE  Steps
    BY <2>2, SetReplaceModeAside DEF Steps
  <2> QED BY <1>4, <2>1, <2>2
<1>5. ASSUME NEW s \in Switches, ForceDelete(s)
      PROVE  Steps
  BY <1>5, ForceDeleteAside DEF Steps
<1>6. ASSUME NEW c \in Calls, NEW s \in Switches,
             \/ \E actual \in [Ports -> {"up", "down"}] : Heartbeat(c, s, actual)
             \/ \E p \in Ports, status \in {"up", "down"} : Port(c, s, p, status)
      PROVE  Steps
  <2>1. ASSUME NEW actual \in [Ports -> {"up", "down"}], Heartbeat(c, s, actual)
        PROVE  Steps
    BY <2>1, HeartbeatAside DEF Steps
  <2>2. ASSUME NEW p \in Ports, NEW status \in {"up", "down"}, Port(c, s, p, status)
        PROVE  Steps
    <3>1. Aside({c}, {s})
      BY <2>2, PortAside
    <3> QED BY <3>1 DEF Steps
  <2> QED BY <1>6, <2>1, <2>2
<1>7. ASSUME NEW m \in Machines, NEW v \in Vrfs, Allocate(m, v)
      PROVE  Steps
  BY <1>7, AllocateAside DEF Steps
<1>8. ASSUME NEW m \in Machines, NEW x \in Plugs, NEW y \in Plugs, Replug(m, {x, y})
      PROVE  Steps
  BY <1>8, ReplugAside DEF Steps
<1>9. CASE UNCHANGED vars
  BY <1>9, StutterAside DEF Steps
<1>10. ASSUME NEW c \in Calls, NEW old \in Switches, NEW new \in Switches, Migrate(c, old, new)
       PROVE  Steps
  BY <1>10 DEF Steps
<1> QED BY <1>1, <1>2, <1>3, <1>4, <1>5, <1>6, <1>7, <1>8, <1>9, <1>10 DEF Next

LEMMA FreeHoldsNothing == \A k \in NeighborsCall \cup ConnectCall \cup {Idle} : k \notin HeldCalls
  BY HasHeld DEF FreeCalls

LEMMA StepsStay ==
  ASSUME TypeInv, Steps
  PROVE  TypeInv' /\ Grows
<1>1. ASSUME NEW W \in SUBSET Calls, NEW S \in SUBSET Switches, Aside(W, S)
      PROVE  TypeInv' /\ Grows
  BY <1>1, TypeNext DEF Aside
<1>2. ASSUME NEW c \in Calls, NEW m \in Machines, RegisterMachine(c, m)
      PROVE  TypeInv' /\ Grows
  <2>1. Frame({c}, {}) /\ Stays /\ Grows /\ call'[c] \notin HeldCalls
    BY <1>2, RegisterMachineEffect, FreeHoldsNothing
  <2> QED BY <2>1, TypeNext
<1>3. ASSUME UNCHANGED <<machine, cable>>, Grows
      PROVE  Stays
  BY <1>3, NothingElse DEF Grows
<1>4. ASSUME NEW c \in Calls, GivesUp(c) \/ Abandons(c)
      PROVE  TypeInv' /\ Grows
  <2>1. call'[c] \notin HeldCalls /\ Frame({c}, {}) /\ Stays /\ Grows
    BY <1>3, <1>4, FreeHoldsNothing DEF GivesUp, Abandons
  <2> QED BY <2>1, TypeNext
<1>5. ASSUME UNCHANGED mishap
      PROVE  Grows
  BY <1>5 DEF Grows, TypeInv, TypeOK
<1>6. ASSUME NEW c \in Calls, FormerSwitches(c)
      PROVE  TypeInv' /\ Grows
  <2>1. Frame({c}, {}) /\ UNCHANGED <<sw, machine, cable, mishap>> /\ call'[c] \notin HeldCalls
    BY <1>6, FormerSwitchesEffect, FreeHoldsNothing
  <2> QED BY <1>3, <1>5, <2>1, TypeNext
<1>7. ASSUME NEW c \in Calls, Disconnect(c)
      PROVE  TypeInv' /\ Grows
  <2>1. UNCHANGED <<machine, cable>> /\ Grows /\ call'[c] \notin HeldCalls
        /\ \E S \in SUBSET Switches : Frame({c}, S)
    <3>1. call[c] \in ConnectCall => call[c].prev \subseteq Switches
      BY DEF ConnectCall
    <3>2. \A s \in Switches : {s} \in SUBSET Switches
      OBVIOUS
    <3> QED BY <1>7, <3>1, <3>2, DisconnectEffect, FreeHoldsNothing
  <2> QED BY <1>3, <2>1, TypeNext
<1>8. ASSUME NEW c \in Calls, ReadSwitches(c)
      PROVE  TypeInv' /\ Grows
  <2>1. UNCHANGED <<sw, machine, cable>> /\ Grows /\ Frame({c}, {}) /\ There' = There
    BY <1>8, ReadSwitchesEffect DEF There
  <2>2. call'[c] \in HeldCalls => call'[c].held \subseteq There
    <3>1. \/ call'[c] = Idle
          \/ \E s1, s2 \in Hosts(call[c].nics) : {s1, s2} \subseteq There /\ call'[c].held = {s1, s2}
      BY <1>8, ReadSwitchesEffect
    <3> QED BY <3>1, FreeHoldsNothing
  <2> QED BY <1>3, <2>1, <2>2, TypeNext
<1>9. ASSUME NEW c \in Calls, call[c] \in WriteCall, NEW s \in {call[c].s1, call[c].s2}, Writes(c, s),
             call'[c] \in HeldCalls => call'[c].held \subseteq call[c].held
      PROVE  TypeInv' /\ Grows
  <2>1. UNCHANGED <<machine, cable>> /\ Grows /\ Frame({c}, {s}) /\ s \in Switches /\ call[c].held \subseteq There
    BY <1>9 DEF Writes, WriteCall, TypeInv, HeldCalls
  <2>2. call[c].machine \in Machines /\ sw[s] \in RowType
    BY <1>9 DEF Writes, WriteCall
  <2>3. sw'[s] \in RowType
    BY <1>9, <2>1, <2>2, ConnectRow, PhysicalPorts DEF Writes
  <2>4. There \subseteq There'
    BY <2>1, <2>3, NamesAssumption DEF Frame, There
  <2> QED BY <1>3, <1>9, <2>1, <2>4, TypeNext
<1>10. ASSUME NEW c \in Calls, WriteFirst(c)
       PROVE  TypeInv' /\ Grows
  BY <1>4, <1>9, <1>10, WriteFirstEffect
<1>11. ASSUME NEW c \in Calls, WriteSecond(c)
       PROVE  TypeInv' /\ Grows
  BY <1>4, <1>9, <1>11, WriteSecondEffect, FreeHoldsNothing
<1>12. \A k, l : SameMigration(k, l) => k \in HeldCalls /\ l.held = k.held
  BY DEF SameMigration, HeldCalls
<1>13. ASSUME NEW c \in Calls, MigrateMachine(c)
       PROVE  TypeInv' /\ Grows
  <2>1. Frame({c}, {}) /\ UNCHANGED <<sw, cable, mishap>> /\ Stays /\ SameMigration(call[c], call'[c]) /\ There' = There
    BY <1>13, MigrateMachineEffect DEF There
  <2>2. call'[c].held \subseteq There'
    BY <1>12, <2>1 DEF TypeInv
  <2> QED BY <1>5, <2>1, <2>2, TypeNext
<1>14. ASSUME NEW c \in Calls, MigrateOld(c)
       PROVE  TypeInv' /\ Grows
  <2> DEFINE old == call[c].old
  <2>1. CASE /\ Frame({c}, {old}) /\ UNCHANGED <<machine, cable, mishap>> /\ sw'[old] \in RowType
             /\ call[c] \in MigrateCall /\ SameMigration(call[c], call'[c])
    <3>1. old \in Switches /\ call'[c].held \subseteq There
      BY <1>12, <2>1 DEF MigrateCall, TypeInv
    <3>2. There \subseteq There'
      BY <2>1, <3>1, NamesAssumption DEF Frame, There
    <3> QED BY <1>3, <1>5, <2>1, <3>1, <3>2, TypeNext
  <2> QED BY <1>4, <1>14, <2>1, MigrateOldEffect
<1>15. ASSUME NEW c \in Calls, MigrateNew(c)
       PROVE  TypeInv' /\ Grows
  <2> DEFINE new == call[c].new
  <2>1. CASE /\ Frame({c}, {new}) /\ UNCHANGED <<machine, cable>> /\ Grows /\ call[c] \in MigrateCall /\ call'[c] = Idle
    <3>1. new \in Switches /\ call'[c] \notin HeldCalls
      BY <2>1, FreeHoldsNothing DEF MigrateCall
    <3> QED BY <1>3, <2>1, <3>1, TypeNext
  <2> QED BY <1>4, <1>15, <2>1, MigrateNewEffect
<1>16. ASSUME NEW c \in Calls, NEW old \in Switches, NEW new \in Switches, Migrate(c, old, new)
       PROVE  TypeInv' /\ Grows
  <2>1. /\ Frame({c}, {}) /\ UNCHANGED <<sw, machine, cable>> /\ Grows /\ old \in There /\ new \in There
        /\ call'[c].held = {old, new} /\ There' = There
    BY <1>16, MigrateEffect DEF There
  <2> QED BY <1>3, <2>1, TypeNext
<1> QED BY <1>1, <1>2, <1>6, <1>7, <1>8, <1>10, <1>11, <1>13, <1>14, <1>15, <1>16 DEF Steps

LEMMA TypeInit ==
  ASSUME Init
  PROVE  TypeInv
<1>1. PICK s \in Scenarios :
        /\ cable = s.cable
        /\ machine = [m \in Machines |-> [nics |-> s.cable[m], vrf |-> None, up |-> FALSE, stuck |-> {}]]
        /\ sw = [x \in Switches |-> IF x \in s.there THEN
                   [NewSwitch(Ports) EXCEPT !.conns = {c \in Machines \X Ports : <<x, c[2]>> \in s.cable[c[1]]}] ELSE None]
        /\ call = [c \in Calls |-> Idle]
        /\ mishap = {}
  BY DEF Init
<1>2. cable \in [Machines -> SUBSET Plugs]
  BY <1>1, ScenarioAssumption
<1>3. machine \in [Machines -> MachineType]
  BY <1>1, <1>2 DEF MachineType
<1>4. NewSwitch(Ports) \in RowType
  BY NewRows
<1>5. \A conns \in SUBSET (Machines \X Ports) : [NewSwitch(Ports) EXCEPT !.conns = conns] \in RowType
  BY <1>4 DEF RowType
<1>6. sw \in [Switches -> RowType \cup {None}]
  BY <1>1, <1>5
<1>7. Idle \in CallType /\ Idle \notin HeldCalls
  BY HasHeld DEF CallType, FreeCalls
<1> QED BY <1>1, <1>2, <1>3, <1>6, <1>7 DEF TypeInv, TypeOK

\* The rows of the switch and machine tables are well formed, and the calls carry what their step needs
\* (metal.Switch, metal.Machine).
THEOREM TypeCorrect == Spec => []TypeOK
<1>1. Init => TypeInv
  BY TypeInit
<1>2. TypeInv /\ [Next]_vars => TypeInv'
  BY NextSteps, StepsStay
<1>3. TypeInv => TypeOK
  BY DEF TypeInv
<1> QED BY <1>1, <1>2, <1>3, PTL DEF Spec

-----------------------------------------------------------------------------
(* Ports with machines.                                                      *)

Lone(x) == \A m, n \in Machines : m # n => PortsOf(x, m) \cap PortsOf(x, n) = {}
\* No other machine has one of the ports the machine sees on the switch.
Vacant(s, x, m, nics) == \A n \in Machines \ {m} : Physical(s, x, nics) \cap PortsOf(x, n) = {}

\* Copies of rows that will be written are as sound as rows.
CallFits(c) ==
    /\ call[c] \in ReplaceCall => Fits(call[c].new)
    /\ call[c] \in MigrateCall =>
         /\ call[c].old # call[c].new /\ Fits(call[c].oldRow)
         /\ call[c].new \in call[c].held => DOMAIN call[c].oldRow.nics \subseteq DOMAIN sw[call[c].new].nics
CallAlone(c) ==
    /\ call[c] \in ReplaceCall => Lone(call[c].new)
    /\ call[c] \in MigrateCall => Lone(call[c].oldRow)
    /\ call[c] \in WriteCall =>
         /\ call[c].s1 # call[c].s2
         /\ \A s \in {call[c].s1, call[c].s2} \cap call[c].held :
              s = call[c].s2 \/ call[c].pc = "first" => Vacant(s, sw[s], call[c].machine, call[c].nics)

PortInv ==
    /\ \A s \in There : Fits(sw[s])
    /\ \A c \in Calls : CallFits(c)
    /\ Unless({"mismatch"}) => (\A s \in There : Lone(sw[s])) /\ \A c \in Calls : CallAlone(c)

LEMMA KindsApart ==
  /\ \A k \in FreeCalls \cup SetCall : k \notin WriteCall /\ k \notin ReplaceCall /\ k \notin MigrateCall
  /\ \A k \in WriteCall : k \notin ReplaceCall /\ k \notin MigrateCall
  /\ \A k \in MigrateCall : k \notin ReplaceCall /\ k \notin WriteCall
  /\ \A k \in ReplaceCall : k \notin MigrateCall /\ k \notin WriteCall
  BY CallSteps DEF FreeCalls, Migrating

LEMMA SameConns ==
  ASSUME NEW x, NEW y, y.conns = x.conns
  PROVE  /\ \A m \in Machines : PortsOf(y, m) = PortsOf(x, m)
         /\ Lone(x) => Lone(y)
         /\ Fits(x) /\ DOMAIN x.nics \subseteq DOMAIN y.nics => Fits(y)
         /\ KeepsConnected(x, DOMAIN y.nics) => Fits(y)
  BY DEF PortsOf, Lone, Fits, KeepsConnected

LEMMA NoConns ==
  ASSUME NEW x, x.conns = {}
  PROVE  Fits(x) /\ Lone(x) /\ \A m \in Machines : PortsOf(x, m) = {}
  BY DEF Fits, Lone, PortsOf

LEMMA FitsPorts ==
  ASSUME NEW x \in RowType
  PROVE  Fits(x) <=> \A m \in Machines : PortsOf(x, m) \subseteq DOMAIN x.nics
<1>1. x.conns \in SUBSET (Machines \X Ports)
  BY DEF RowType
<1>2. \A y \in x.conns : y[1] \in Machines /\ y[2] \in PortsOf(x, y[1])
  BY <1>1 DEF PortsOf
<1>3. \A m \in Machines : \A p \in PortsOf(x, m) : <<m, p>> \in x.conns /\ <<m, p>>[2] = p
  BY DEF PortsOf
<1> QED BY <1>2, <1>3 DEF Fits

LEMMA ConnectSound ==
  ASSUME NEW s \in Switches, NEW x \in RowType, NEW m \in Machines, NEW nics
  PROVE  LET y == Connect(x, m, Physical(s, x, nics))
         IN  /\ Fits(x) => Fits(y)
             /\ Lone(x) /\ Vacant(s, x, m, nics) => Lone(y)
<1> DEFINE ports == Physical(s, x, nics)
           y == Connect(x, m, ports)
<1>1. ports \subseteq DOMAIN x.nics /\ ports \in SUBSET Ports
  BY PhysicalPorts
<1>2. /\ y \in RowType /\ y.nics = x.nics
      /\ \A n \in Machines \ {m} : PortsOf(y, n) = PortsOf(x, n)
      /\ PortsOf(y, m) = IF ports = {} THEN PortsOf(x, m) ELSE ports
  <2> HIDE DEF ports
  <2> QED BY <1>1, ConnectRow
<1>3. Vacant(s, x, m, nics) => \A n \in Machines \ {m} : ports \cap PortsOf(x, n) = {}
  BY DEF Vacant
<1> HIDE DEF ports, y
<1>4. Fits(x) => Fits(y)
  BY <1>1, <1>2, FitsPorts
<1>5. Lone(x) /\ Vacant(s, x, m, nics) => Lone(y)
  BY <1>2, <1>3 DEF Lone
<1> QED BY <1>4, <1>5 DEF y, ports

\* The check of the second switch is enough for both when no port of the first is overlooked.
LEMMA ReadVacant ==
  ASSUME NEW m \in Machines, NEW x \in RowType, NEW y \in RowType, NEW s1 \in Switches, NEW s2 \in Switches, NEW nics,
         MayConnect(m, x, y, s1, s2, nics), ~Overlooked(m, x, y, s1, s2, nics)
  PROVE  /\ Vacant(s1, x, m, nics) /\ Vacant(s2, y, m, nics)
         /\ Physical(s1, x, nics) = Physical(s2, y, nics)
<1> DEFINE p1 == Physical(s1, x, nics)
           p2 == Physical(s2, y, nics)
           y2 == Connect(y, m, p2)
<1>1. /\ Cardinality(p1) = Cardinality(p2) /\ NoDoublePort(y2)
      /\ p1 \subseteq {z[2] : z \in y2.conns}
  BY DEF MayConnect
<1>2. \A q \in p1, n \in Machines \ {m} :
        ~(q \in PortsOf(x, n) \ PortsOf(y, n)) /\ ~(q \in PortsOf(y, n) \ p2)
  BY DEF Overlooked
<1>3. p1 \in SUBSET Ports /\ p2 \in SUBSET Ports /\ IsFiniteSet(p1) /\ IsFiniteSet(p2)
  BY PhysicalPorts, FS_Subset, NamesAssumption
<1> HIDE DEF p1, p2
<1>4. /\ y2 \in RowType /\ \A n \in Machines \ {m} : PortsOf(y2, n) = PortsOf(y, n)
      /\ PortsOf(y2, m) = IF p2 = {} THEN PortsOf(y, m) ELSE p2
  BY <1>3, ConnectRow
<1> HIDE DEF y2
<1>5. \A a, b \in Machines : a # b => PortsOf(y2, a) \cap PortsOf(y2, b) = {}
  BY <1>1 DEF NoDoublePort, PortsOf
<1>6. p2 = {} => p1 = {}
  BY <1>1, <1>3, FS_EmptySet
<1>7. \A n \in Machines \ {m} : p2 \cap PortsOf(y, n) = {}
  BY <1>4, <1>5
<1>8. \A n \in Machines \ {m} : p1 \cap PortsOf(x, n) = {}
  BY <1>2, <1>7
<1>9. p1 \subseteq p2
  <2>1. ASSUME NEW q \in p1, p2 # {} PROVE q \in p2
    <3>1. PICK z \in y2.conns : q = z[2]
      BY <1>1
    <3>2. z[1] \in Machines /\ q \in PortsOf(y2, z[1])
      BY <1>3, <1>4, <3>1 DEF RowType, PortsOf
    <3> QED BY <1>2, <1>4, <2>1, <3>2
  <2> QED BY <1>6, <2>1
<1>10. p1 = p2
  BY <1>1, <1>3, <1>9, FS_Subset
<1> QED BY <1>7, <1>8, <1>10 DEF Vacant, p1, p2

LEMMA SameKind ==
  ASSUME NEW k \in CallType, NEW l, NEW S, SameCall(k, l, S)
  PROVE  /\ l \in WriteCall => k \in WriteCall
         /\ l \in SetCall => k \in SetCall
         /\ l \in ReplaceCall => k \in ReplaceCall
         /\ l \in MigrateCall => k \in MigrateCall
<1>1. l.pc = k.pc
  BY DEF SameCall
<1> QED BY <1>1, CallShapes, CallSteps

LEMMA OthersFit ==
  ASSUME TypeInv, NEW W \in SUBSET Calls, NEW S \in SUBSET Switches, Frame(W, S), NEW d \in Calls \ W
  PROVE  /\ CallFits(d) => CallFits(d)'
         /\ CallAlone(d) => CallAlone(d)'
<1>1. SameCall(call[d], call'[d], S) /\ call[d] \in CallType
  BY DEF Frame, TypeInv
<1>2. \A s \in Switches \ S : sw'[s] = sw[s]
  BY DEF Frame
<1>3. CASE call'[d] \in ReplaceCall
  BY <1>1, <1>3, SameKind, KindsApart DEF SameCall, CallFits, CallAlone
<1>4. CASE call'[d] \in MigrateCall
  <2>1. /\ call[d] \in MigrateCall /\ call[d] \in HeldCalls
        /\ call'[d].old = call[d].old /\ call'[d].oldRow = call[d].oldRow /\ call'[d].new = call[d].new
        /\ call'[d].held = call[d].held \ S
    BY <1>1, <1>4, SameKind DEF SameCall, HeldCalls
  <2>2. call[d].new \in Switches
    BY <2>1 DEF MigrateCall
  <2> QED BY <1>2, <1>4, <2>1, <2>2, KindsApart DEF CallFits, CallAlone
<1>5. CASE call'[d] \in WriteCall
  <2>1. /\ call[d] \in WriteCall /\ call[d] \in HeldCalls /\ call'[d].pc = call[d].pc
        /\ call'[d].machine = call[d].machine /\ call'[d].nics = call[d].nics
        /\ call'[d].s1 = call[d].s1 /\ call'[d].s2 = call[d].s2
        /\ call'[d].held = call[d].held \ S
    BY <1>1, <1>5, SameKind DEF SameCall, HeldCalls
  <2>2. call[d].s1 \in Switches /\ call[d].s2 \in Switches
    BY <2>1 DEF WriteCall
  <2>3. CallFits(d)'
    BY <1>5, KindsApart DEF CallFits
  <2>4. ASSUME CallAlone(d) PROVE CallAlone(d)'
    <3>1. call'[d].s1 # call'[d].s2
      BY <2>1, <2>4 DEF CallAlone
    <3>2. ASSUME NEW s \in {call'[d].s1, call'[d].s2} \cap call'[d].held, s = call'[d].s2 \/ call'[d].pc = "first"
          PROVE  Vacant(s, sw'[s], call'[d].machine, call'[d].nics)
      <4>1. s \in {call[d].s1, call[d].s2} \cap call[d].held /\ s \notin S /\ s \in Switches
        BY <2>1, <2>2, <3>2
      <4>2. sw'[s] = sw[s]
        BY <1>2, <4>1
      <4>3. Vacant(s, sw[s], call[d].machine, call[d].nics)
        BY <2>1, <2>4, <3>2, <4>1 DEF CallAlone
      <4> QED BY <2>1, <4>2, <4>3
    <3> QED BY <1>5, <3>1, <3>2, KindsApart DEF CallAlone
  <2> QED BY <2>3, <2>4
<1> QED BY <1>3, <1>4, <1>5 DEF CallFits, CallAlone

LEMMA FreeFits ==
  ASSUME NEW c \in Calls
  PROVE  call'[c] \in FreeCalls \cup SetCall => CallFits(c)' /\ CallAlone(c)'
  BY KindsApart DEF CallFits, CallAlone

LEMMA LessMishaps ==
  ASSUME NEW kinds, Grows, Unless(kinds)'
  PROVE  Unless(kinds) /\ \A kind \in kinds : kind \notin mishap'
  BY DEF Grows, Unless

\* Rows and calls that do not change stay sound: what is left are the rows of S and the calls of W.
LEMMA PortFrame ==
  ASSUME TypeInv, PortInv, NEW W \in SUBSET Calls, NEW S \in SUBSET Switches, Frame(W, S), Grows,
         \A s \in S : sw'[s] # None => Fits(sw'[s]),
         Unless({"mismatch"})' => \A s \in S : sw'[s] # None => Lone(sw'[s]),
         \A c \in W : CallFits(c)',
         Unless({"mismatch"})' => \A c \in W : CallAlone(c)'
  PROVE  PortInv'
<1>1. \A s \in Switches \ S : sw'[s] = sw[s] /\ (sw'[s] # None => s \in There)
  BY DEF Frame, There
<1>2. ASSUME NEW s \in There' PROVE Fits(sw'[s])
  <2>1. s \in Switches /\ sw'[s] # None
    BY <1>2 DEF There
  <2> QED BY <1>1, <2>1 DEF PortInv
<1>3. ASSUME NEW c \in Calls PROVE CallFits(c)'
  BY OthersFit DEF PortInv
<1>4. ASSUME Unless({"mismatch"})', NEW s \in There' PROVE Lone(sw'[s])
  <2>1. s \in Switches /\ sw'[s] # None /\ Unless({"mismatch"})
    BY <1>4, LessMishaps DEF There
  <2> QED BY <1>1, <1>4, <2>1 DEF PortInv
<1>5. ASSUME Unless({"mismatch"})', NEW c \in Calls PROVE CallAlone(c)'
  BY <1>5, OthersFit, LessMishaps DEF PortInv
<1> QED BY <1>2, <1>3, <1>4, <1>5 DEF PortInv

LEMMA AsideFits ==
  ASSUME TypeInv, PortInv, NEW W, NEW S, Aside(W, S)
  PROVE  PortInv'
<1>1. W \in SUBSET Calls /\ S \in SUBSET Switches /\ Frame(W, S) /\ Grows
  BY DEF Aside
<1>2. ASSUME NEW s \in S, sw'[s] # None
      PROVE  Fits(sw'[s]) /\ (Unless({"mismatch"})' => Lone(sw'[s]))
  <2>1. s \in Switches
    BY <1>1
  <2>2. CASE Created(s)
    BY <2>2, NoConns DEF Created
  <2>3. CASE Changed(s)
    <3>1. s \in There /\ sw'[s].conns = sw[s].conns
          /\ (DOMAIN sw'[s].nics = DOMAIN sw[s].nics \/ KeepsConnected(sw[s], DOMAIN sw'[s].nics))
      BY <2>1, <2>3, NamesAssumption DEF Changed, There
    <3>2. Fits(sw[s]) /\ (Unless({"mismatch"})' => Lone(sw[s]))
      BY <1>1, <3>1, LessMishaps DEF PortInv
    <3> QED BY <3>1, <3>2, SameConns
  <2>4. ASSUME NEW c \in W, TakesOver(c, s)
        PROVE  Fits(sw'[s]) /\ (Unless({"mismatch"})' => Lone(sw'[s]))
    <3>1. call[c] \in ReplaceCall /\ sw'[s] = call[c].new /\ c \in Calls
      BY <1>1, <2>4 DEF TakesOver
    <3> QED BY <1>1, <3>1, LessMishaps DEF PortInv, CallFits, CallAlone
  <2> QED BY <1>2, <2>2, <2>3, <2>4 DEF Aside, Emptied
<1>3. ASSUME NEW c \in W
      PROVE  CallFits(c)' /\ (Unless({"mismatch"})' => CallAlone(c)')
  <2>1. CASE call'[c] \in FreeCalls \cup SetCall
    BY <1>1, <2>1, FreeFits
  <2>2. CASE Copies(c)
    <3>1. call'[c] \in ReplaceCall
      BY <2>2 DEF Copies
    <3>2. PICK t \in There : call'[c].new.conns = sw[t].conns /\ DOMAIN sw[t].nics \subseteq DOMAIN call'[c].new.nics
      BY <2>2 DEF Copies
    <3>3. Fits(sw[t]) /\ (Unless({"mismatch"})' => Lone(sw[t]))
      BY <1>1, <3>2, LessMishaps DEF PortInv
    <3>4. Fits(call'[c].new) /\ (Unless({"mismatch"})' => Lone(call'[c].new))
      BY <3>2, <3>3, SameConns
    <3> QED BY <3>1, <3>4, KindsApart DEF CallFits, CallAlone
  <2> QED BY <1>3, <2>1, <2>2 DEF Aside
<1> QED BY <1>1, <1>2, <1>3, PortFrame

LEMMA CallFrees ==
  ASSUME TypeInv, PortInv, NEW c \in Calls, Frame({c}, {}), Grows, call'[c] \in NeighborsCall \cup ConnectCall \cup {Idle}
  PROVE  PortInv'
<1>1. CallFits(c)' /\ CallAlone(c)'
  BY FreeFits DEF FreeCalls
<1> QED BY <1>1, PortFrame

\* Fewer connections are as sound as before.
LEMMA FewerConns ==
  ASSUME NEW x \in RowType, NEW m, NEW y, y = [x EXCEPT !.conns = {z \in @ : z[1] # m}]
  PROVE  (Fits(x) => Fits(y)) /\ (Lone(x) => Lone(y))
<1>1. y.nics = x.nics /\ y.conns \subseteq x.conns
  BY DEF RowType
<1> QED BY <1>1 DEF Fits, Lone, PortsOf

LEMMA DisconnectFits ==
  ASSUME TypeInv, PortInv, NEW c \in Calls, Disconnect(c)
  PROVE  PortInv'
<1>1. CASE Frame({c}, {}) /\ call'[c] \in ConnectCall \cup {Idle} /\ Grows
  BY <1>1, CallFrees
<1>2. ASSUME NEW s \in call[c].prev, sw[s] \in RowType, Frame({c}, {s}), Grows, call[c] \in ConnectCall,
             sw'[s] = [sw[s] EXCEPT !.conns = {x \in @ : x[1] # call[c].machine}], call'[c] \in ConnectCall
      PROVE  PortInv'
  <2>1. s \in Switches /\ s \in There
    BY <1>2, NamesAssumption DEF ConnectCall, There
  <2>2. Fits(sw'[s]) /\ (Unless({"mismatch"})' => Lone(sw'[s]))
    <3>1. Fits(sw[s]) /\ (Unless({"mismatch"})' => Lone(sw[s]))
      BY <1>2, <2>1, LessMishaps DEF PortInv
    <3>2. (Fits(sw[s]) => Fits(sw'[s])) /\ (Lone(sw[s]) => Lone(sw'[s]))
      BY <1>2, FewerConns
    <3> QED BY <3>1, <3>2
  <2>3. CallFits(c)' /\ CallAlone(c)'
    BY <1>2, FreeFits DEF FreeCalls
  <2> QED BY <1>2, <2>1, <2>2, <2>3, PortFrame
<1> QED BY <1>1, <1>2, DisconnectEffect

LEMMA ReadSwitchesFits ==
  ASSUME TypeInv, PortInv, NEW c \in Calls, ReadSwitches(c)
  PROVE  PortInv'
<1>1. Frame({c}, {}) /\ Grows /\ UNCHANGED sw /\ call[c] \in ConnectCall
  BY ReadSwitchesEffect
<1>2. CASE call'[c] = Idle
  BY <1>1, <1>2, CallFrees
<1>3. ASSUME NEW s1 \in Hosts(call[c].nics), NEW s2 \in Hosts(call[c].nics), s1 # s2, {s1, s2} \subseteq There,
             MayConnect(call[c].machine, sw[s1], sw[s2], s1, s2, call[c].nics),
             "mismatch" \notin mishap' => ~Overlooked(call[c].machine, sw[s1], sw[s2], s1, s2, call[c].nics),
             call'[c] \in WriteCall, call'[c].machine = call[c].machine, call'[c].nics = call[c].nics,
             call'[c].s1 = s1, call'[c].s2 = s2
      PROVE  PortInv'
  <2>1. /\ s1 \in Switches /\ s2 \in Switches /\ sw[s1] \in RowType /\ sw[s2] \in RowType
        /\ call[c].machine \in Machines
    BY <1>1, <1>3 DEF There, TypeInv, TypeOK, ConnectCall
  <2>2. CallFits(c)'
    BY <1>3, KindsApart DEF CallFits
  <2>3. ASSUME Unless({"mismatch"})' PROVE CallAlone(c)'
    <3>1. "mismatch" \notin mishap'
      BY <1>1, <2>3, LessMishaps
    <3>2. /\ Vacant(s1, sw[s1], call[c].machine, call[c].nics)
          /\ Vacant(s2, sw[s2], call[c].machine, call[c].nics)
      BY <1>3, <2>1, <3>1, ReadVacant
    <3>3. sw'[s1] = sw[s1] /\ sw'[s2] = sw[s2]
      BY <1>1
    <3> QED BY <1>3, <3>2, <3>3, KindsApart DEF CallAlone
  <2> QED BY <1>1, <2>2, <2>3, PortFrame
<1> QED BY <1>2, <1>3, ReadSwitchesEffect

\* The ports that are written belong to no other machine.
LEMMA WritesSound ==
  ASSUME TypeInv, PortInv, NEW c \in Calls, call[c] \in WriteCall, NEW s \in {call[c].s1, call[c].s2}, Writes(c, s),
         s = call[c].s2 \/ call[c].pc = "first"
  PROVE  s \in Switches /\ s \in There /\ Fits(sw'[s]) /\ (Unless({"mismatch"})' => Lone(sw'[s]))
<1>1. /\ s \in Switches /\ sw[s] \in RowType /\ s \in call[c].held /\ call[c].machine \in Machines /\ Grows
      /\ sw'[s] = Connect(sw[s], call[c].machine, Physical(s, sw[s], call[c].nics))
  BY DEF Writes, WriteCall
<1>2. s \in There
  BY <1>1, NamesAssumption DEF There
<1>3. ASSUME Unless({"mismatch"})' PROVE Lone(sw[s]) /\ Vacant(s, sw[s], call[c].machine, call[c].nics)
  BY <1>1, <1>2, <1>3, LessMishaps DEF PortInv, CallAlone
<1> QED BY <1>1, <1>2, <1>3, ConnectSound DEF PortInv

LEMMA WriteFirstFits ==
  ASSUME TypeInv, PortInv, NEW c \in Calls, WriteFirst(c)
  PROVE  PortInv'
<1>1. call[c] \in WriteCall /\ call[c].pc = "first"
  BY WriteFirstEffect
<1>2. CASE GivesUp(c)
  BY <1>2, CallFrees DEF GivesUp
<1>3. CASE /\ Writes(c, call[c].s1)
           /\ call'[c] \in WriteCall /\ call'[c].pc = "second"
           /\ call'[c].machine = call[c].machine /\ call'[c].nics = call[c].nics
           /\ call'[c].s1 = call[c].s1 /\ call'[c].s2 = call[c].s2 /\ call'[c].held = call[c].held
  <2>1. /\ call[c].s1 \in Switches /\ Fits(sw'[call[c].s1]) /\ (Unless({"mismatch"})' => Lone(sw'[call[c].s1]))
        /\ Frame({c}, {call[c].s1}) /\ Grows
    BY <1>1, <1>3, WritesSound DEF Writes
  <2>2. CallFits(c)'
    BY <1>3, KindsApart DEF CallFits
  <2>3. ASSUME Unless({"mismatch"})' PROVE CallAlone(c)'
    <3>1. CallAlone(c)
      BY <2>1, <2>3, LessMishaps DEF PortInv
    <3>2. call[c].s1 # call[c].s2 /\ call[c].s2 \in Switches
      BY <1>1, <3>1 DEF CallAlone, WriteCall
    <3>3. sw'[call[c].s2] = sw[call[c].s2]
      BY <2>1, <3>2 DEF Frame
    <3>4. call[c].s2 \in call[c].held => Vacant(call[c].s2, sw[call[c].s2], call[c].machine, call[c].nics)
      BY <1>1, <3>1 DEF CallAlone
    <3> QED BY <1>3, <3>2, <3>3, <3>4, KindsApart DEF CallAlone
  <2> QED BY <2>1, <2>2, <2>3, PortFrame
<1> QED BY <1>1, <1>2, <1>3, WriteFirstEffect

LEMMA WriteSecondFits ==
  ASSUME TypeInv, PortInv, NEW c \in Calls, WriteSecond(c)
  PROVE  PortInv'
<1>1. call[c] \in WriteCall /\ call[c].pc = "second"
  BY WriteSecondEffect
<1>2. CASE GivesUp(c)
  BY <1>2, CallFrees DEF GivesUp
<1>3. CASE Writes(c, call[c].s2) /\ call'[c] = Idle
  <2>1. /\ call[c].s2 \in Switches /\ Fits(sw'[call[c].s2]) /\ (Unless({"mismatch"})' => Lone(sw'[call[c].s2]))
        /\ Frame({c}, {call[c].s2}) /\ Grows
    BY <1>1, <1>3, WritesSound DEF Writes
  <2>2. CallFits(c)' /\ CallAlone(c)'
    BY <1>3, FreeFits DEF FreeCalls
  <2> QED BY <2>1, <2>2, PortFrame
<1> QED BY <1>1, <1>2, <1>3, WriteSecondEffect

LEMMA SameMigrationFits ==
  ASSUME NEW c \in Calls, SameMigration(call[c], call'[c]),
         call[c].new \in call[c].held /\ call[c].old # call[c].new => sw'[call[c].new] = sw[call[c].new]
  PROVE  (CallFits(c) => CallFits(c)') /\ (CallAlone(c) => CallAlone(c)')
  BY KindsApart DEF SameMigration, CallFits, CallAlone

LEMMA MigrationFits ==
  ASSUME TypeInv, PortInv, NEW c \in Calls, MigrateMachine(c) \/ MigrateOld(c) \/ MigrateNew(c)
  PROVE  PortInv'
<1>1. CASE MigrateMachine(c)
  <2>1. Frame({c}, {}) /\ UNCHANGED <<sw, mishap>> /\ SameMigration(call[c], call'[c])
    BY <1>1, MigrateMachineEffect
  <2>2. Grows
    BY <2>1 DEF Grows, TypeInv, TypeOK
  <2>3. CallFits(c)' /\ (Unless({"mismatch"})' => CallAlone(c)')
    BY <2>1, <2>2, SameMigrationFits, LessMishaps DEF PortInv
  <2> QED BY <2>1, <2>2, <2>3, PortFrame
<1>2. CASE Abandons(c)
  BY <1>2, CallFrees DEF Abandons
<1>3. CASE MigrateOld(c)
  <2> DEFINE old == call[c].old
  <2>1. CASE /\ Frame({c}, {old}) /\ UNCHANGED mishap /\ call[c] \in MigrateCall
             /\ sw'[old].conns = {} /\ SameMigration(call[c], call'[c])
    <3>1. Grows /\ old \in Switches /\ call[c].new \in Switches
      BY <2>1 DEF Grows, TypeInv, TypeOK, MigrateCall
    <3>2. Fits(sw'[old]) /\ Lone(sw'[old])
      BY <2>1, NoConns
    <3>3. old # call[c].new => sw'[call[c].new] = sw[call[c].new]
      BY <2>1, <3>1 DEF Frame
    <3>4. CallFits(c)' /\ (Unless({"mismatch"})' => CallAlone(c)')
      BY <2>1, <3>1, <3>3, SameMigrationFits, LessMishaps DEF PortInv
    <3> QED BY <2>1, <3>1, <3>2, <3>4, PortFrame
  <2> QED BY <1>2, <1>3, <2>1, MigrateOldEffect
<1>4. CASE MigrateNew(c)
  <2> DEFINE new == call[c].new
  <2>1. CASE /\ Frame({c}, {new}) /\ Grows /\ call[c] \in MigrateCall /\ call'[c] = Idle
             /\ new \in call[c].held /\ sw'[new].conns = call[c].oldRow.conns
             /\ DOMAIN sw'[new].nics = DOMAIN sw[new].nics
    <3>1. Grows /\ new \in Switches
      BY <2>1 DEF Grows, TypeInv, TypeOK, MigrateCall
    <3>2. Fits(call[c].oldRow) /\ DOMAIN call[c].oldRow.nics \subseteq DOMAIN sw'[new].nics
      BY <2>1 DEF PortInv, CallFits
    <3>3. Unless({"mismatch"})' => Lone(call[c].oldRow)
      BY <2>1, <3>1, LessMishaps DEF PortInv, CallAlone
    <3>4. Fits(sw'[new]) /\ (Unless({"mismatch"})' => Lone(sw'[new]))
      BY <2>1, <3>2, <3>3, SameConns
    <3>5. CallFits(c)' /\ CallAlone(c)'
      BY <2>1, FreeFits DEF FreeCalls
    <3> QED BY <2>1, <3>1, <3>4, <3>5, PortFrame
  <2> QED BY <1>2, <1>4, <2>1, MigrateNewEffect
<1> QED BY <1>1, <1>3, <1>4

LEMMA MigrateFits ==
  ASSUME TypeInv, PortInv, NEW c \in Calls, NEW old \in Switches, NEW new \in Switches, Migrate(c, old, new)
  PROVE  PortInv'
<1>1. /\ Frame({c}, {}) /\ UNCHANGED sw /\ Grows /\ old # new /\ old \in There /\ sw[old] \in RowType
      /\ DOMAIN sw[old].nics \subseteq DOMAIN sw[new].nics
      /\ call'[c] \in MigrateCall /\ call'[c].old = old /\ call'[c].new = new /\ call'[c].oldRow = sw[old]
  BY MigrateEffect
<1>2. CallFits(c)' /\ (Unless({"mismatch"})' => CallAlone(c)')
  BY <1>1, KindsApart, LessMishaps DEF PortInv, CallFits, CallAlone
<1> QED BY <1>1, <1>2, PortFrame

LEMMA PortInvNext ==
  ASSUME TypeInv, PortInv, Steps
  PROVE  PortInv'
<1>1. ASSUME NEW c \in Calls, NEW m \in Machines, RegisterMachine(c, m)
      PROVE  PortInv'
  BY <1>1, RegisterMachineEffect, CallFrees
<1>2. ASSUME NEW c \in Calls, FormerSwitches(c)
      PROVE  PortInv'
  <2>1. Frame({c}, {}) /\ UNCHANGED mishap /\ call'[c] \in ConnectCall \cup {Idle}
    BY <1>2, FormerSwitchesEffect
  <2>2. Grows
    BY <2>1 DEF Grows, TypeInv, TypeOK
  <2> QED BY <2>1, <2>2, CallFrees
<1> QED BY <1>1, <1>2, AsideFits, DisconnectFits, ReadSwitchesFits, WriteFirstFits, WriteSecondFits, MigrationFits,
           MigrateFits DEF Steps

LEMMA PortInvInit ==
  ASSUME Init
  PROVE  PortInv
<1>1. PICK s \in Scenarios :
        /\ cable = s.cable
        /\ sw = [x \in Switches |-> IF x \in s.there THEN
                   [NewSwitch(Ports) EXCEPT !.conns = {c \in Machines \X Ports : <<x, c[2]>> \in s.cable[c[1]]}] ELSE None]
        /\ call = [c \in Calls |-> Idle]
  BY DEF Init
<1>2. ASSUME NEW x \in There PROVE Fits(sw[x]) /\ Lone(sw[x])
  <2>1. x \in Switches /\ sw[x] = [NewSwitch(Ports) EXCEPT !.conns = {c \in Machines \X Ports : <<x, c[2]>> \in s.cable[c[1]]}]
    BY <1>1, <1>2 DEF There
  <2>2. /\ DOMAIN sw[x].nics = Ports
        /\ sw[x].conns = {c \in Machines \X Ports : <<x, c[2]>> \in s.cable[c[1]]}
    BY <2>1 DEF NewSwitch
  <2>3. \A m, n \in Machines : m # n => s.cable[m] \cap s.cable[n] = {}
    BY ScenarioAssumption
  <2>4. \A m \in Machines : PortsOf(sw[x], m) = {p \in Ports : <<x, p>> \in s.cable[m]}
    BY <2>2 DEF PortsOf
  <2>5. Fits(sw[x])
    BY <2>2 DEF Fits
  <2>6. Lone(sw[x])
    BY ONLY <2>3, <2>4 DEF Lone
  <2> QED BY <2>5, <2>6
<1>3. ASSUME NEW c \in Calls PROVE CallFits(c) /\ CallAlone(c)
  BY <1>1, KindsApart DEF CallFits, CallAlone, FreeCalls
<1> QED BY <1>2, <1>3 DEF PortInv

\* Every port that a machine is connected to is there, and leads to this machine only, also when two machines
\* register at the same time, and switches are replaced and migrated meanwhile (ConnectMachineWithSwitches,
\* validateConnectedNics, adoptNics, Migrate).
THEOREM PortsAreSound == Spec => []PortsSound
<1>1. Init => TypeInv /\ PortInv
  BY TypeInit, PortInvInit
<1>2. TypeInv /\ PortInv /\ [Next]_vars => (TypeInv /\ PortInv)'
  BY NextSteps, StepsStay, PortInvNext
<1>3. TypeInv /\ PortInv => PortsSound
  BY DEF TypeInv, PortInv, PortsSound, ConnectedPortExists, PortExclusive, Fits, Lone
<1> QED BY <1>1, <1>2, <1>3, PTL DEF Spec

-----------------------------------------------------------------------------
(* Machines have the same ports on two switches.                             *)

Good == Unless({"halfway", "moved", "mismatch", "forced", "removed"})

\* The switches of the stored nics of a machine.
StoredHosts(m) == Hosts(machine[m].nics)

\* A registration of the machine has written one switch at least, and will write both or say so.
HalfDone(m, c) == call[c].pc \in Registering /\ call[c].machine = m /\ call[c].half

Equal(m) == \A s, t \in StoredHosts(m) : At(s, m) = At(t, m)
Linked(m) ==
    /\ \A s \in Switches : At(s, m) # {} =>
         s \in StoredHosts(m) /\ \E a, b \in Switches : a # b /\ StoredHosts(m) = {a, b}
    /\ Equal(m) \/ \E c \in Calls : HalfDone(m, c)

\* The ports of switch s that the machine of a registration sees.
Sees(c, s) == Physical(s, sw[s], call[c].nics)

RegOK(c) == call[c].pc \in Registering =>
    /\ Hosts(call[c].nics) \in {{}, StoredHosts(call[c].machine)}
    /\ call[c].pc # "neighbors" \/ call[c].half => Cardinality(Hosts(call[c].nics)) = 2
    /\ call[c].pc \in {"disconnect", "connect"} => call[c].prev = {}
    /\ call[c].pc \in {"first", "second"} =>
         call[c].s1 # call[c].s2 /\ Hosts(call[c].nics) = {call[c].s1, call[c].s2}
    /\ call[c].pc = "second" => call[c].half

FirstOK(c) == call[c].pc = "first" =>
    /\ {call[c].s1, call[c].s2} \subseteq call[c].held => Sees(c, call[c].s1) = Sees(c, call[c].s2)
    /\ \A s \in {call[c].s1, call[c].s2} \cap call[c].held : Sees(c, s) = {} => At(s, call[c].machine) = {}

\* The first switch has the ports, unless another registration of the machine wrote it meanwhile.
SecondOK(c) == call[c].pc = "second" /\ call[c].s2 \in call[c].held =>
    /\ Sees(c, call[c].s2) = {} => At(call[c].s2, call[c].machine) = {}
    /\ \/ At(call[c].s1, call[c].machine) = Sees(c, call[c].s2)
       \/ \E d \in Calls \ {c} : HalfDone(call[c].machine, d)

\* Two registrations of a machine that write its switches in opposite orders do not both get to the end.
Crossed(c, d) ==
    /\ call[c].pc = "second" /\ call[d].pc = "second" /\ call[c].machine = call[d].machine
    /\ call[c].s1 = call[d].s2 /\ call[c].s2 = call[d].s1
    /\ call[c].s2 \in call[c].held /\ call[d].s2 \in call[d].held

\* The ports that a migration takes to the new switch.
Taken(c, m) == PortsOf(call[c].oldRow, m)
MigOK(c) == call[c].pc \in Migrating =>
    /\ \A m \in Machines : /\ At(call[c].new, m) = {}
                           /\ At(call[c].old, m) = IF call[c].pc = "migrateNew" THEN {} ELSE Taken(c, m)
    /\ call[c].pc # "neigh" => call[c].todo = {}
    /\ \A m \in call[c].todo : Taken(c, m) # {}
    /\ \A m \in Machines : Taken(c, m) # {} =>
         \E x \in Switches \ {call[c].old, call[c].new} :
           /\ At(x, m) = Taken(c, m)
           /\ \A s \in Switches \ {call[c].old, x} : At(s, m) = {}
           /\ m \in call[c].todo => /\ StoredHosts(m) = {call[c].old, x}
                                    /\ StoredOn(machine[m].nics, call[c].old) = Taken(c, m)
           /\ m \notin call[c].todo => StoredHosts(m) = {call[c].new, x}
Moves(m) == \E c \in Calls : call[c].pc \in Migrating /\ Taken(c, m) # {}

\* A registration during a migration, or a second migration, says so.
Modes ==
    /\ \A c, d \in Calls : ~(call[c].pc \in Registering /\ call[d].pc \in Migrating)
    /\ \A c, d \in Calls : call[c].pc \in Migrating /\ call[d].pc \in Migrating => c = d

LinkBody ==
    /\ Modes
    /\ \A m \in Machines : ~Moves(m) => Linked(m)
    /\ \A c \in Calls : RegOK(c) /\ FirstOK(c) /\ SecondOK(c) /\ MigOK(c)
    /\ \A c, d \in Calls : c # d => ~Crossed(c, d)
LinkInv == Good => LinkBody

LEMMA SameRegistration ==
  ASSUME NEW k \in CallType, NEW l, NEW S, SameCall(k, l, S)
  PROVE  /\ l.pc = k.pc
         /\ k.pc \in Registering => l.machine = k.machine /\ l.nics = k.nics /\ l.half = k.half
         /\ k.pc \in {"disconnect", "connect"} => l.prev = k.prev
         /\ k.pc \in {"first", "second"} => l.s1 = k.s1 /\ l.s2 = k.s2 /\ l.held = k.held \ S
         /\ k.pc \in Migrating => l.old = k.old /\ l.new = k.new /\ l.oldRow = k.oldRow /\ l.todo = k.todo
<1>1. l.pc = k.pc
  BY DEF SameCall
<1>2. CASE k.pc = "neighbors"
  <2>1. l = k
    BY <1>2, CallShapes DEF SameCall, FreeCalls
  <2> QED BY <1>1, <1>2, <2>1 DEF Migrating
<1>3. CASE k.pc \in {"disconnect", "connect"}
  <2>1. l = k
    BY <1>3, CallShapes DEF SameCall, FreeCalls
  <2> QED BY <1>1, <1>3, <2>1 DEF Migrating
<1>4. CASE k.pc \in {"first", "second"}
  BY <1>1, <1>4, CallShapes DEF SameCall, HeldCalls, Migrating
<1>5. CASE k.pc \in Migrating
  BY <1>1, <1>5, CallShapes DEF SameCall, Migrating, Registering
<1> QED BY <1>1, <1>2, <1>3, <1>4, <1>5 DEF Registering

LEMMA RegShapes ==
  ASSUME NEW k \in CallType
  PROVE  /\ k \in NeighborsCall \cup ConnectCall \cup WriteCall <=> k.pc \in Registering
         /\ k \in MigrateCall <=> k.pc \in Migrating
         /\ k.pc \in Registering => k.machine \in Machines /\ k.nics \subseteq Plugs
         /\ k \in WriteCall => k.s1 \in Switches /\ k.s2 \in Switches
<1>1. k \in NeighborsCall \cup ConnectCall \cup WriteCall <=> k.pc \in Registering
  BY CallShapes, CallSteps DEF Registering
<1>2. k \in MigrateCall <=> k.pc \in Migrating
  BY CallShapes, CallSteps
<1>3. k \in NeighborsCall \cup ConnectCall \cup WriteCall => k.machine \in Machines /\ k.nics \subseteq Plugs
  BY DEF NeighborsCall, ConnectCall, WriteCall
<1> QED BY <1>1, <1>2, <1>3 DEF WriteCall

LEMMA OthersHalf ==
  ASSUME TypeInv, NEW W \in SUBSET Calls, NEW S \in SUBSET Switches, Frame(W, S), NEW d \in Calls \ W
  PROVE  /\ call'[d].pc = call[d].pc
         /\ \A m : HalfDone(m, d)' <=> HalfDone(m, d)
<1>1. SameCall(call[d], call'[d], S) /\ call[d] \in CallType
  BY DEF Frame, TypeInv
<1> QED BY <1>1, SameRegistration DEF HalfDone

\* Connections and nics that stay keep what is known of the calls outside of W.
Unmoved ==
    /\ \A s \in Switches, m \in Machines : At(s, m)' = At(s, m)
    /\ \A m \in Machines : machine'[m].nics = machine[m].nics

LEMMA OthersLinked ==
  ASSUME TypeInv, NEW W \in SUBSET Calls, NEW S \in SUBSET Switches, Frame(W, S), Unmoved,
         \A c \in W, m \in Machines : HalfDone(m, c) => HalfDone(m, c)'
  PROVE  /\ \A m \in Machines : Linked(m) => Linked(m)'
         /\ \A d \in Calls \ W : /\ RegOK(d) => RegOK(d)'
                                 /\ FirstOK(d) => FirstOK(d)'
                                 /\ SecondOK(d) => SecondOK(d)'
                                 /\ MigOK(d) => MigOK(d)'
<1>1. \A m \in Machines : StoredHosts(m)' = StoredHosts(m) /\ StoredHosts(m) \subseteq Switches
  <2>1. \A m \in Machines : machine[m].nics \in SUBSET Plugs
    BY DEF TypeInv, TypeOK, MachineType
  <2>2. \A m \in Machines : StoredHosts(m) \subseteq Switches
    BY <2>1 DEF StoredHosts, Hosts, Plugs
  <2> QED BY <2>2 DEF Unmoved, StoredHosts
<1>2. \A c \in Calls, m \in Machines : HalfDone(m, c) => HalfDone(m, c)'
  BY OthersHalf
<1>3. ASSUME NEW m \in Machines, Linked(m) PROVE Linked(m)'
  <2>1. Equal(m) => Equal(m)'
    BY <1>1 DEF Equal, Unmoved
  <2> QED BY <1>1, <1>2, <1>3, <2>1 DEF Linked, Unmoved
<1>4. ASSUME NEW d \in Calls \ W
      PROVE  /\ RegOK(d) => RegOK(d)'
             /\ FirstOK(d) => FirstOK(d)'
             /\ SecondOK(d) => SecondOK(d)'
             /\ MigOK(d) => MigOK(d)'
  <2>1. SameCall(call[d], call'[d], S) /\ call[d] \in CallType
    BY <1>4 DEF Frame, TypeInv
  <2>2. /\ call'[d].pc = call[d].pc
        /\ call[d].pc \in Registering => /\ call'[d].machine = call[d].machine /\ call'[d].nics = call[d].nics
                                         /\ call'[d].half = call[d].half /\ call[d].machine \in Machines
        /\ call[d].pc \in {"disconnect", "connect"} => call'[d].prev = call[d].prev
        /\ call[d].pc \in {"first", "second"} => /\ call'[d].s1 = call[d].s1 /\ call'[d].s2 = call[d].s2
                                                 /\ call'[d].held = call[d].held \ S
                                                 /\ call[d].s1 \in Switches /\ call[d].s2 \in Switches
        /\ call[d].pc \in Migrating => /\ call'[d].old = call[d].old /\ call'[d].new = call[d].new
                                       /\ call'[d].oldRow = call[d].oldRow /\ call'[d].todo = call[d].todo
                                       /\ call[d].old \in Switches /\ call[d].new \in Switches
                                       /\ call[d].todo \subseteq Machines
    BY <2>1, SameRegistration, RegShapes, CallShapes DEF MigrateCall
  <2>3. RegOK(d) => RegOK(d)'
    BY <1>1, <2>2 DEF RegOK, Registering
  <2>4. \A s \in Switches \ S : sw'[s] = sw[s]
    BY DEF Frame
  <2>5. FirstOK(d) => FirstOK(d)'
    <3>1. SUFFICES ASSUME FirstOK(d), call[d].pc = "first" PROVE FirstOK(d)'
      BY <2>2 DEF FirstOK
    <3>2. \A s \in {call[d].s1, call[d].s2} \cap call'[d].held :
            s \in call[d].held /\ s \in Switches /\ Sees(d, s)' = Sees(d, s) /\ At(s, call[d].machine)' = At(s, call[d].machine)
      BY <2>2, <2>4, <3>1 DEF Sees, Registering, Unmoved
    <3> QED BY <2>2, <3>1, <3>2 DEF FirstOK, Registering
  <2>6. SecondOK(d) => SecondOK(d)'
    <3>1. SUFFICES ASSUME SecondOK(d), call[d].pc = "second", call'[d].s2 \in call'[d].held PROVE SecondOK(d)'
      BY <2>2 DEF SecondOK
    <3>2. /\ call[d].s2 \in call[d].held /\ Sees(d, call[d].s2)' = Sees(d, call[d].s2)
          /\ At(call[d].s1, call[d].machine)' = At(call[d].s1, call[d].machine)
          /\ At(call[d].s2, call[d].machine)' = At(call[d].s2, call[d].machine)
      BY <2>2, <2>4, <3>1 DEF Sees, Registering, Unmoved
    <3> QED BY <1>2, <2>2, <3>1, <3>2 DEF SecondOK, Registering
  <2>7. MigOK(d) => MigOK(d)'
    <3>1. SUFFICES ASSUME MigOK(d), call[d].pc \in Migrating PROVE MigOK(d)'
      BY <2>2 DEF MigOK
    <3>2. \A m \in Machines : Taken(d, m)' = Taken(d, m)
      BY <2>2, <3>1 DEF Taken
    <3> QED BY <1>1, <2>2, <3>1, <3>2 DEF MigOK, Unmoved
  <2> QED BY <2>3, <2>5, <2>6, <2>7
<1> QED BY <1>3, <1>4

LEMMA StaysGood ==
  ASSUME Grows, Good', LinkInv
  PROVE  /\ Good /\ LinkBody
         /\ "halfway" \notin mishap' /\ "moved" \notin mishap' /\ "mismatch" \notin mishap'
         /\ "forced" \notin mishap' /\ "removed" \notin mishap'
<1>1. Good /\ \A kind \in {"halfway", "moved", "mismatch", "forced", "removed"} : kind \notin mishap'
  BY LessMishaps DEF Good
<1> QED BY <1>1 DEF LinkInv

LEMMA OthersMove ==
  ASSUME TypeInv, NEW W \in SUBSET Calls, NEW S \in SUBSET Switches, Frame(W, S)
  PROVE  /\ \A d \in Calls \ W, m \in Machines :
              (call'[d].pc \in Migrating /\ Taken(d, m)' # {}) <=> (call[d].pc \in Migrating /\ Taken(d, m) # {})
         /\ \A c, d \in Calls \ W : Crossed(c, d)' => Crossed(c, d)
<1>1. \A d \in Calls \ W : SameCall(call[d], call'[d], S) /\ call[d] \in CallType
  BY DEF Frame, TypeInv
<1>2. \A d \in Calls \ W :
        /\ call'[d].pc = call[d].pc
        /\ call[d].pc = "second" => /\ call'[d].s1 = call[d].s1 /\ call'[d].s2 = call[d].s2
                                    /\ call'[d].held \subseteq call[d].held /\ call'[d].machine = call[d].machine
        /\ call[d].pc \in Migrating => call'[d].oldRow = call[d].oldRow
  BY <1>1, SameRegistration DEF Registering
<1> QED BY <1>2 DEF Taken, Crossed

\* Steps of calls that neither move a machine nor begin to.
LEMMA CalmStep ==
  ASSUME TypeInv, LinkBody, NEW W \in SUBSET Calls, NEW S \in SUBSET Switches, Frame(W, S), Unmoved,
         \A c \in W : /\ call[c].pc \notin Migrating /\ call'[c].pc \notin Migrating /\ call'[c].pc # "second"
                      /\ call'[c].pc \in Registering => call[c].pc \in Registering
                      /\ \A m \in Machines : HalfDone(m, c) => HalfDone(m, c)'
                      /\ RegOK(c)' /\ FirstOK(c)'
  PROVE  LinkBody'
<1>1. \A d \in Calls \ W : call'[d].pc = call[d].pc
  BY OthersHalf
<1>2. \A d \in Calls : /\ call'[d].pc \in Migrating => d \notin W /\ call[d].pc \in Migrating
                       /\ call'[d].pc \in Registering => call[d].pc \in Registering
  BY <1>1
<1>3. Modes'
  BY <1>2 DEF LinkBody, Modes
<1>4. \A m \in Machines : Moves(m) => Moves(m)'
  BY OthersMove DEF Moves
<1>5. \A m \in Machines : ~Moves(m)' => Linked(m)'
  BY <1>4, OthersLinked DEF LinkBody
<1>6. \A c \in W : SecondOK(c)' /\ MigOK(c)'
  BY DEF SecondOK, MigOK
<1>7. \A c \in Calls : RegOK(c)' /\ FirstOK(c)' /\ SecondOK(c)' /\ MigOK(c)'
  BY <1>6, OthersLinked DEF LinkBody
<1>8. ASSUME NEW c \in Calls, NEW d \in Calls, c # d PROVE ~Crossed(c, d)'
  <2>1. CASE c \in W \/ d \in W
    BY <2>1 DEF Crossed
  <2>2. CASE c \in Calls \ W /\ d \in Calls \ W
    BY <1>8, <2>2, OthersMove DEF LinkBody
  <2> QED BY <2>1, <2>2
<1> QED BY <1>3, <1>5, <1>7, <1>8 DEF LinkBody

LEMMA AsideLinked ==
  ASSUME TypeInv, LinkInv, NEW W, NEW S, Aside(W, S)
  PROVE  LinkInv'
<1>1. W \in SUBSET Calls /\ S \in SUBSET Switches /\ Frame(W, S) /\ Grows
  BY DEF Aside
<1>2. SUFFICES ASSUME Good' PROVE LinkBody'
  BY DEF LinkInv
<1>3. LinkBody /\ "moved" \notin mishap' /\ "forced" \notin mishap' /\ "removed" \notin mishap'
  BY <1>1, <1>2, StaysGood
<1>4. ASSUME NEW s \in Switches, NEW m \in Machines PROVE At(s, m)' = At(s, m)
  <2>1. CASE s \notin S
    BY <1>1, <2>1 DEF Frame, At, PortsOf
  <2>2. CASE s \in S /\ Emptied(s)
    BY <1>3, <2>2 DEF Emptied, At
  <2>3. CASE Created(s)
    <3>1. sw'[s] # None
      BY <2>3, NamesAssumption DEF Created
    <3>2. PortsOf(sw[s], m)' = {}
      BY <2>3 DEF Created, PortsOf
    <3> QED BY <2>3, <3>1, <3>2 DEF Created, At
  <2>4. CASE sw[s] \in RowType /\ sw'[s] \in RowType /\ sw'[s].conns = sw[s].conns
    <3>1. sw[s] # None /\ sw'[s] # None
      BY <2>4, NamesAssumption
    <3> QED BY <2>4, <3>1 DEF At, PortsOf
  <2> QED BY <1>3, <2>1, <2>2, <2>3, <2>4 DEF Aside, Changed, TakesOver
<1>5. Unmoved
  BY <1>4 DEF Unmoved, Aside
<1>6. ASSUME NEW c \in W
      PROVE  /\ call[c].pc \notin Migrating /\ call'[c].pc \notin Migrating
             /\ call'[c].pc \notin Registering /\ call[c].pc \notin Registering
  BY <1>6 DEF Aside
<1>7. ASSUME NEW c \in W
      PROVE  /\ call'[c].pc # "second" /\ RegOK(c)' /\ FirstOK(c)'
             /\ \A m \in Machines : HalfDone(m, c) => HalfDone(m, c)'
  BY <1>6 DEF RegOK, FirstOK, HalfDone, Registering
<1> QED BY <1>1, <1>3, <1>5, <1>6, <1>7, CalmStep

LEMMA QuietUnmoved ==
  ASSUME UNCHANGED <<sw, machine>>
  PROVE  Unmoved
  BY DEF Unmoved, At, PortsOf

LEMMA OutOfMigration == \A pc \in Registering \cup {"idle"} : pc \notin Migrating
  BY DEF Registering, Migrating

\* A step of one registration that writes nothing.
LEMMA RegistrationStep ==
  ASSUME TypeInv, LinkInv, NEW c \in Calls, Frame({c}, {}), UNCHANGED <<sw, machine>>, Grows,
         call[c].pc \in Registering, call'[c].pc # "second",
         \/ /\ call'[c].pc \in Registering /\ call'[c].machine = call[c].machine /\ call'[c].half = call[c].half
            /\ Good' /\ LinkBody => RegOK(c)' /\ FirstOK(c)'
         \/ call'[c] = Idle /\ (Good' /\ LinkBody => ~call[c].half)
  PROVE  LinkInv'
<1>1. SUFFICES ASSUME Good' PROVE LinkBody'
  BY DEF LinkInv
<1>2. LinkBody
  BY <1>1, StaysGood
<1>3. Unmoved
  BY QuietUnmoved
<1>4. CASE /\ call'[c].pc \in Registering /\ call'[c].machine = call[c].machine /\ call'[c].half = call[c].half
           /\ RegOK(c)' /\ FirstOK(c)'
  <2>1. call[c].pc \notin Migrating /\ call'[c].pc \notin Migrating
    BY <1>4, OutOfMigration
  <2>2. \A m \in Machines : HalfDone(m, c) => HalfDone(m, c)'
    BY <1>4 DEF HalfDone
  <2> QED BY <1>2, <1>3, <1>4, <2>1, <2>2, CalmStep
<1>5. CASE call'[c] = Idle /\ ~call[c].half
  <2>1. call[c].pc \notin Migrating /\ call'[c].pc \notin Migrating /\ call'[c].pc = "idle"
    BY <1>5, OutOfMigration, CallSteps
  <2>2. \A m \in Machines : ~HalfDone(m, c)
    BY <1>5 DEF HalfDone
  <2>3. call'[c].pc \notin Registering /\ RegOK(c)' /\ FirstOK(c)'
    BY <2>1 DEF RegOK, FirstOK, Registering
  <2> QED BY <1>2, <1>3, <2>1, <2>2, <2>3, CalmStep
<1> QED BY <1>1, <1>2, <1>4, <1>5

LEMMA HostsFinite ==
  ASSUME NEW nics \in SUBSET Plugs
  PROVE  Hosts(nics) \subseteq Switches /\ IsFiniteSet(Hosts(nics))
<1>1. Hosts(nics) \subseteq Switches
  BY DEF Hosts, Plugs
<1> QED BY <1>1, FS_Subset, NamesAssumption

LEMMA PairOf ==
  ASSUME NEW nics \in SUBSET Plugs, Cardinality(Hosts(nics)) = 2
  PROVE  /\ Hosts(nics) # {}
         /\ \A a, b \in Hosts(nics) : a # b => Hosts(nics) = {a, b}
<1>1. IsFiniteSet(Hosts(nics))
  BY HostsFinite
<1>2. Hosts(nics) # {}
  BY FS_EmptySet
<1>3. ASSUME NEW a \in Hosts(nics), NEW b \in Hosts(nics), a # b PROVE Hosts(nics) = {a, b}
  <2>1. IsFiniteSet({a}) /\ Cardinality({a}) = 1
    BY FS_Singleton
  <2>2. Cardinality({a} \cup {b}) = 2
    BY <1>3, <2>1, FS_AddElement
  <2>3. {a, b} \subseteq Hosts(nics) /\ {a, b} = {a} \cup {b}
    OBVIOUS
  <2> QED BY <1>1, <2>2, <2>3, FS_Subset
<1> QED BY <1>2, <1>3

LEMMA RegisterMachineLinked ==
  ASSUME TypeInv, LinkInv, NEW c \in Calls, NEW m \in Machines, RegisterMachine(c, m)
  PROVE  LinkInv'
<1>1. /\ Frame({c}, {}) /\ sw' = sw /\ Grows /\ call[c] = Idle /\ call'[c] \in NeighborsCall
      /\ call'[c].machine = m /\ call'[c].nics = cable[m] /\ call'[c].half = FALSE
      /\ \A n \in Machines : machine'[n].nics = IF n = m THEN cable[m] ELSE machine[n].nics
      /\ "moved" \notin mishap' => ~Someone(Migrating) /\ Hosts(machine[m].nics) \in {{}, Hosts(cable[m])}
  BY RegisterMachineEffect
<1>2. SUFFICES ASSUME Good' PROVE LinkBody'
  BY DEF LinkInv
<1>3. LinkBody /\ ~Someone(Migrating) /\ StoredHosts(m) \in {{}, Hosts(cable[m])}
  BY <1>1, <1>2, StaysGood DEF StoredHosts
<1>4. /\ \A d \in Calls : call[d].pc \notin Migrating /\ call'[d].pc \notin Migrating
      /\ call'[c].pc = "neighbors"
  <2>1. call'[c].pc = "neighbors"
    BY <1>1, CallSteps
  <2>2. \A d \in Calls \ {c} : call'[d].pc = call[d].pc
    BY <1>1, OthersHalf
  <2>3. "neighbors" \notin Migrating
    BY DEF Migrating
  <2> QED BY <1>3, <2>1, <2>2, <2>3 DEF Someone
<1>5. /\ \A s \in Switches, n \in Machines : At(s, n)' = At(s, n)
      /\ \A n \in Machines \ {m} : StoredHosts(n)' = StoredHosts(n)
      /\ StoredHosts(m)' = Hosts(cable[m])
      /\ \A n \in Machines : StoredHosts(n)' \subseteq Switches
  <2>1. \A n \in Machines : machine'[n].nics \in SUBSET Plugs
    BY <1>1 DEF TypeInv, TypeOK, MachineType
  <2>2. \A n \in Machines : StoredHosts(n)' \subseteq Switches
    BY <2>1, HostsFinite DEF StoredHosts
  <2> QED BY <1>1, <2>2 DEF At, PortsOf, StoredHosts
<1>6. \A d \in Calls, n \in Machines : HalfDone(n, d) => HalfDone(n, d)'
  <2>1. \A n \in Machines : ~HalfDone(n, c)
    BY <1>1, CallSteps DEF HalfDone, Registering
  <2>2. \A d \in Calls \ {c} : \A n \in Machines : HalfDone(n, d)' <=> HalfDone(n, d)
    BY <1>1, OthersHalf
  <2> QED BY <2>1, <2>2
<1>7. Modes' /\ (\A n \in Machines : ~Moves(n)) /\ \A d \in Calls : MigOK(d)'
  BY <1>4 DEF Modes, Moves, MigOK
<1>8. ASSUME NEW n \in Machines PROVE Linked(n)'
  <2>1. Linked(n)
    BY <1>3, <1>7 DEF LinkBody
  <2>2. CASE StoredHosts(n)' = StoredHosts(n)
    <3>1. Equal(n) => Equal(n)'
      BY <1>5, <2>2 DEF Equal
    <3> QED BY <1>5, <1>6, <2>1, <2>2, <3>1 DEF Linked
  <2>3. CASE n = m /\ StoredHosts(m) = {}
    <3>1. \A s \in Switches : At(s, m)' = {}
      BY <1>5, <2>1, <2>3 DEF Linked
    <3> QED BY <1>5, <2>3, <3>1 DEF Linked, Equal
  <2> QED BY <1>3, <1>5, <2>2, <2>3
<1>9. ASSUME NEW d \in Calls \ {c} PROVE RegOK(d)' /\ FirstOK(d)' /\ SecondOK(d)'
  <2>1. SameCall(call[d], call'[d], {}) /\ call[d] \in CallType
    BY <1>1 DEF Frame, TypeInv
  <2>2. /\ call'[d].pc = call[d].pc
        /\ call[d].pc \in Registering => /\ call'[d].machine = call[d].machine /\ call'[d].nics = call[d].nics
                                         /\ call'[d].half = call[d].half /\ call[d].machine \in Machines
        /\ call[d].pc \in {"disconnect", "connect"} => call'[d].prev = call[d].prev
        /\ call[d].pc \in {"first", "second"} => /\ call'[d].s1 = call[d].s1 /\ call'[d].s2 = call[d].s2
                                                 /\ call'[d].held = call[d].held
                                                 /\ call[d].s1 \in Switches /\ call[d].s2 \in Switches
    <3>1. call[d].pc \in {"first", "second"} => call'[d].held = call[d].held \ {}
      BY <2>1, CallShapes DEF SameCall, HeldCalls
    <3>2. call[d].held \ {} = call[d].held
      OBVIOUS
    <3> QED BY <2>1, <3>1, <3>2, SameRegistration, RegShapes, CallShapes
  <2>3. RegOK(d) /\ FirstOK(d) /\ SecondOK(d)
    BY <1>3 DEF LinkBody
  <2>4. RegOK(d)'
    BY <1>3, <1>5, <2>2, <2>3 DEF RegOK, Registering
  <2>5. \A s : Sees(d, s)' = Physical(s, sw[s], call'[d].nics)
    BY <1>1 DEF Sees
  <2>6. FirstOK(d)'
    BY <1>5, <2>2, <2>3, <2>5 DEF FirstOK, Sees, Registering
  <2>7. SecondOK(d)'
    BY <1>5, <1>6, <2>2, <2>3, <2>5 DEF SecondOK, Sees, Registering
  <2> QED BY <2>4, <2>6, <2>7
<1>10. RegOK(c)' /\ FirstOK(c)' /\ SecondOK(c)'
  BY <1>1, <1>4, <1>5 DEF RegOK, FirstOK, SecondOK
<1>11. ASSUME NEW a \in Calls, NEW b \in Calls, a # b PROVE ~Crossed(a, b)'
  <2>1. CASE a = c \/ b = c
    BY <1>4, <2>1 DEF Crossed
  <2>2. CASE a # c /\ b # c
    <3>1. \A x, y \in Calls \ {c} : Crossed(x, y)' => Crossed(x, y)
      BY <1>1, OthersMove
    <3> QED BY <1>3, <1>11, <2>2, <3>1 DEF LinkBody
  <2> QED BY <2>1, <2>2
<1> QED BY <1>7, <1>8, <1>9, <1>10, <1>11 DEF LinkBody

LEMMA FormerSwitchesLinked ==
  ASSUME TypeInv, LinkInv, NEW c \in Calls, FormerSwitches(c)
  PROVE  LinkInv'
<1>1. /\ Frame({c}, {}) /\ UNCHANGED <<sw, machine, mishap>> /\ call[c] \in NeighborsCall
      /\ call[c].nics \in SUBSET Plugs /\ call[c].pc = "neighbors" /\ call[c].machine \in Machines
  BY FormerSwitchesEffect, CallSteps DEF NeighborsCall
<1>2. Grows /\ call[c].pc \in Registering
  BY <1>1 DEF Grows, TypeInv, TypeOK, Registering
<1>3. CASE Cardinality(Hosts(call[c].nics)) # 2 /\ call'[c] = Idle
  <2>1. LinkBody => ~call[c].half
    BY <1>2, <1>3 DEF LinkBody, RegOK
  <2> QED BY <1>1, <1>2, <1>3, <2>1, RegistrationStep, CallSteps
<1>4. CASE /\ Cardinality(Hosts(call[c].nics)) = 2 /\ call'[c].pc = "disconnect"
           /\ call'[c].machine = call[c].machine /\ call'[c].nics = call[c].nics /\ call'[c].half = call[c].half
           /\ call'[c].prev = Hosts(machine[call[c].machine].nics) \ Hosts(call[c].nics)
  <2>1. ASSUME LinkBody PROVE RegOK(c)' /\ FirstOK(c)'
    <3>1. Hosts(call[c].nics) = StoredHosts(call[c].machine) /\ StoredHosts(call[c].machine)' = StoredHosts(call[c].machine)
      BY <1>1, <1>2, <1>4, <2>1, PairOf DEF LinkBody, RegOK, StoredHosts
    <3>2. call'[c].prev = {}
      BY <1>4, <3>1 DEF StoredHosts
    <3>3. RegOK(c)'
      BY <1>1, <1>4, <3>1, <3>2 DEF RegOK
    <3> QED BY <1>4, <3>3 DEF FirstOK
  <2>2. call'[c].pc \in Registering /\ call'[c].pc # "second"
    BY <1>4 DEF Registering
  <2> QED BY <1>1, <1>2, <1>4, <2>1, <2>2, RegistrationStep
<1> QED BY <1>3, <1>4, FormerSwitchesEffect

LEMMA DisconnectLinked ==
  ASSUME TypeInv, LinkInv, NEW c \in Calls, Disconnect(c)
  PROVE  LinkInv'
<1>1. call[c] \in ConnectCall /\ call[c].pc = "disconnect" /\ UNCHANGED machine /\ Grows /\ call[c].pc \in Registering
  BY DisconnectEffect DEF Registering
<1>2. LinkBody => call[c].prev = {}
  BY <1>1 DEF LinkBody, RegOK
<1>3. SUFFICES ASSUME Good' PROVE LinkInv'
  BY DEF LinkInv
<1>4. LinkBody
  BY <1>1, <1>3, StaysGood
<1>5. /\ Frame({c}, {}) /\ sw' = sw /\ call'[c].pc = "connect"
      /\ call'[c].machine = call[c].machine /\ call'[c].nics = call[c].nics /\ call'[c].half = call[c].half
      /\ call'[c].prev = {}
  BY <1>2, <1>4, DisconnectEffect
<1>6. StoredHosts(call[c].machine)' = StoredHosts(call[c].machine)
  BY <1>1, <1>5 DEF StoredHosts
<1>7. RegOK(c)
  BY <1>4 DEF LinkBody
<1>8. RegOK(c)' /\ FirstOK(c)'
  BY <1>1, <1>5, <1>6, <1>7 DEF RegOK, FirstOK
<1>9. call'[c].pc \in Registering /\ call'[c].pc # "second"
  BY <1>5 DEF Registering
<1> QED BY <1>1, <1>5, <1>8, <1>9, RegistrationStep

LEMMA ReadSwitchesLinked ==
  ASSUME TypeInv, LinkInv, NEW c \in Calls, ReadSwitches(c)
  PROVE  LinkInv'
<1>1. /\ call[c] \in ConnectCall /\ call[c].pc = "connect" /\ UNCHANGED <<sw, machine>> /\ Grows /\ Frame({c}, {})
      /\ call[c].pc \in Registering /\ call[c].nics \in SUBSET Plugs /\ call[c].machine \in Machines
  BY ReadSwitchesEffect DEF Registering, ConnectCall
<1>2. SUFFICES ASSUME Good' PROVE LinkInv'
  BY DEF LinkInv
<1>3. LinkBody /\ "halfway" \notin mishap' /\ "mismatch" \notin mishap'
  BY <1>1, <1>2, StaysGood
<1>4. CASE call'[c] = Idle /\ (call[c].half => "halfway" \in mishap')
  BY <1>1, <1>3, <1>4, RegistrationStep, CallSteps
<1>5. ASSUME NEW s1 \in Hosts(call[c].nics), NEW s2 \in Hosts(call[c].nics), s1 # s2, {s1, s2} \subseteq There,
             MayConnect(call[c].machine, sw[s1], sw[s2], s1, s2, call[c].nics),
             "mismatch" \notin mishap' => ~Overlooked(call[c].machine, sw[s1], sw[s2], s1, s2, call[c].nics),
             call'[c].pc = "first",
             call'[c].machine = call[c].machine, call'[c].nics = call[c].nics, call'[c].half = call[c].half,
             call'[c].s1 = s1, call'[c].s2 = s2, call'[c].held = {s1, s2}
      PROVE  LinkInv'
  <2>1. s1 \in Switches /\ s2 \in Switches /\ sw[s1] \in RowType /\ sw[s2] \in RowType
    BY <1>5 DEF There, TypeInv, TypeOK
  <2>2. Physical(s1, sw[s1], call[c].nics) = Physical(s2, sw[s2], call[c].nics)
    BY <1>1, <1>3, <1>5, <2>1, ReadVacant
  <2>3. /\ Physical(s1, sw[s1], call[c].nics) = {} => PortsOf(sw[s1], call[c].machine) = {}
        /\ Physical(s2, sw[s2], call[c].nics) = {} => PortsOf(sw[s2], call[c].machine) = {}
    BY <1>5 DEF MayConnect
  <2>4. \A s \in {s1, s2} : Sees(c, s)' = Physical(s, sw[s], call[c].nics) /\ At(s, call[c].machine)' = At(s, call[c].machine)
    BY <1>1, <1>5 DEF Sees, At, PortsOf
  <2>5. \A s \in {s1, s2} : At(s, call[c].machine) = PortsOf(sw[s], call[c].machine)
    BY <1>5 DEF At, There
  <2>6. FirstOK(c)'
    BY <1>5, <2>2, <2>3, <2>4, <2>5 DEF FirstOK
  <2>7. RegOK(c) /\ StoredHosts(call[c].machine)' = StoredHosts(call[c].machine)
    BY <1>1, <1>3, <1>5 DEF LinkBody, StoredHosts
  <2>8. Hosts(call[c].nics) = {s1, s2}
    BY <1>1, <1>5, <2>7, PairOf DEF RegOK
  <2>9. RegOK(c)'
    BY <1>1, <1>5, <2>7, <2>8 DEF RegOK
  <2>10. call'[c].pc \in Registering /\ call'[c].pc # "second"
    BY <1>5 DEF Registering
  <2> QED BY <1>1, <1>5, <2>6, <2>9, <2>10, RegistrationStep
<1> QED BY <1>4, <1>5, ReadSwitchesEffect

LEMMA GivesUpLinked ==
  ASSUME TypeInv, LinkInv, NEW c \in Calls, call[c] \in WriteCall, GivesUp(c)
  PROVE  LinkInv'
<1>1. /\ Frame({c}, {}) /\ UNCHANGED <<sw, machine>> /\ Grows /\ call[c].pc \in {"first", "second"}
      /\ call[c].pc \in Registering
  BY CallSteps DEF GivesUp, Registering
<1>2. SUFFICES ASSUME Good' PROVE LinkInv'
  BY DEF LinkInv
<1>3. LinkBody /\ "halfway" \notin mishap'
  BY <1>1, <1>2, StaysGood
<1>4. CASE call'[c] = Idle /\ (call[c].half => "halfway" \in mishap')
  BY <1>1, <1>3, <1>4, RegistrationStep, CallSteps
<1>5. CASE /\ call'[c] \in NeighborsCall /\ call'[c].machine = call[c].machine /\ call'[c].nics = call[c].nics
           /\ call'[c].half = call[c].half
  <2>1. RegOK(c) /\ StoredHosts(call[c].machine)' = StoredHosts(call[c].machine)
    BY <1>1, <1>3, <1>5 DEF LinkBody, StoredHosts
  <2>2. call'[c].pc = "neighbors"
    BY <1>5, CallSteps
  <2>3. RegOK(c)' /\ FirstOK(c)'
    BY <1>1, <1>5, <2>1, <2>2 DEF RegOK, FirstOK
  <2>4. call'[c].pc \in Registering /\ call'[c].pc # "second"
    BY <2>2 DEF Registering
  <2> QED BY <1>1, <1>5, <2>3, <2>4, RegistrationStep
<1> QED BY <1>4, <1>5 DEF GivesUp

\* What a write changes, and what it leaves to the other calls.
LEMMA WriteLinked ==
  ASSUME TypeInv, NEW c \in Calls, call[c] \in WriteCall, NEW s \in {call[c].s1, call[c].s2}, Writes(c, s)
  PROVE  /\ s \in Switches /\ s \in call[c].held /\ call[c].machine \in Machines
         /\ \A x \in Switches, n \in Machines : x # s \/ n # call[c].machine => At(x, n)' = At(x, n)
         /\ At(s, call[c].machine) \subseteq Ports
         /\ \A n \in Machines : n = call[c].machine => At(s, n)' = IF Sees(c, s) = {} THEN At(s, n) ELSE Sees(c, s)
         /\ \A n \in Machines : StoredHosts(n)' = StoredHosts(n)
         /\ \A x \in Switches \ {s} : sw'[x] = sw[x]
<1>1. /\ s \in Switches /\ s \in call[c].held /\ call[c].machine \in Machines /\ sw[s] \in RowType
      /\ sw'[s] = Connect(sw[s], call[c].machine, Sees(c, s)) /\ Frame({c}, {s}) /\ UNCHANGED machine
  BY DEF Writes, WriteCall, Sees
<1>2. \A x \in Switches \ {s} : sw'[x] = sw[x]
  BY <1>1 DEF Frame
<1>3. Sees(c, s) \in SUBSET Ports
  BY <1>1, PhysicalPorts DEF Sees
<1>4. /\ sw'[s] \in RowType
      /\ \A n \in Machines \ {call[c].machine} : PortsOf(sw'[s], n) = PortsOf(sw[s], n)
      /\ PortsOf(sw'[s], call[c].machine) = IF Sees(c, s) = {} THEN PortsOf(sw[s], call[c].machine) ELSE Sees(c, s)
  <2> DEFINE ports == Sees(c, s)
  <2>1. ports \in SUBSET Ports /\ sw'[s] = Connect(sw[s], call[c].machine, ports)
    BY <1>1, <1>3
  <2> HIDE DEF ports
  <2>2. /\ sw'[s] \in RowType
        /\ \A n \in Machines \ {call[c].machine} : PortsOf(sw'[s], n) = PortsOf(sw[s], n)
        /\ PortsOf(sw'[s], call[c].machine) = IF ports = {} THEN PortsOf(sw[s], call[c].machine) ELSE ports
    BY <1>1, <2>1, ConnectRow
  <2> QED BY <2>2 DEF ports
<1>5. sw[s] # None /\ sw'[s] # None
  BY <1>1, <1>4, NamesAssumption
<1>6. /\ \A n \in Machines : At(s, n) = PortsOf(sw[s], n)
      /\ \A n \in Machines : At(s, n)' = PortsOf(sw'[s], n)
  BY <1>5 DEF At, PortsOf
<1>7. \A x \in Switches \ {s}, n \in Machines : At(x, n)' = At(x, n)
  BY <1>2 DEF At, PortsOf
<1>8. \A n \in Machines : StoredHosts(n)' = StoredHosts(n)
  BY <1>1 DEF StoredHosts
<1>9. At(s, call[c].machine) \subseteq Ports
  BY <1>1, <1>6 DEF PortsOf
<1>10. \A n \in Machines \ {call[c].machine} : At(s, n)' = At(s, n)
  BY <1>4, <1>6
<1>11. \A n \in Machines : n = call[c].machine => At(s, n)' = IF Sees(c, s) = {} THEN At(s, n) ELSE Sees(c, s)
  BY <1>1, <1>4, <1>6
<1> QED BY <1>1, <1>2, <1>7, <1>8, <1>9, <1>10, <1>11

\* Ports that a write adds are on a switch of the machine's stored nics.
LEMMA WriteHosts ==
  ASSUME TypeInv, LinkBody, NEW c \in Calls, call[c] \in WriteCall, NEW s \in {call[c].s1, call[c].s2}, Writes(c, s)
  PROVE  /\ StoredHosts(call[c].machine) = {call[c].s1, call[c].s2} /\ call[c].s1 # call[c].s2
         /\ \A d \in Calls : call[d].pc \notin Migrating
         /\ \A n \in Machines : Linked(n)
         /\ \A x \in Switches, n \in Machines : At(x, n)' # {} =>
              x \in StoredHosts(n)' /\ \E a, b \in Switches : a # b /\ StoredHosts(n)' = {a, b}
<1>1. call[c].pc \in {"first", "second"} /\ call[c].pc \in Registering /\ call[c].s1 \in Switches /\ call[c].s2 \in Switches
  BY CallSteps DEF Registering, WriteCall
<1>2. StoredHosts(call[c].machine) = {call[c].s1, call[c].s2} /\ call[c].s1 # call[c].s2
  BY <1>1 DEF LinkBody, RegOK
<1>3. \A d \in Calls : call[d].pc \notin Migrating
  BY <1>1 DEF LinkBody, Modes
<1>4. \A n \in Machines : Linked(n)
  BY <1>3 DEF LinkBody, Moves
<1>5. ASSUME NEW x \in Switches, NEW n \in Machines, At(x, n)' # {}
      PROVE  x \in StoredHosts(n)' /\ \E a, b \in Switches : a # b /\ StoredHosts(n)' = {a, b}
  <2>1. StoredHosts(n)' = StoredHosts(n)
    BY WriteLinked
  <2>2. CASE x = s /\ n = call[c].machine
    BY <1>1, <1>2, <2>1, <2>2
  <2>3. CASE x # s \/ n # call[c].machine
    <3>1. At(x, n) # {}
      BY <1>5, <2>3, WriteLinked
    <3> QED BY <1>4, <2>1, <3>1 DEF Linked
  <2> QED BY <2>2, <2>3
<1> QED BY <1>2, <1>3, <1>4, <1>5

LEMMA WriteOthers ==
  ASSUME TypeInv, LinkBody, NEW c \in Calls, call[c] \in WriteCall, NEW s \in {call[c].s1, call[c].s2}, Writes(c, s),
         NEW d \in Calls \ {c}
  PROVE  /\ RegOK(d)' /\ FirstOK(d)'
         /\ call'[d].pc = call[d].pc
         /\ call[d].pc = "second" =>
              /\ call'[d].s1 = call[d].s1 /\ call'[d].s2 = call[d].s2 /\ call'[d].machine = call[d].machine
              /\ call[d].s1 \in Switches /\ call[d].s2 \in Switches /\ call[d].machine \in Machines
              /\ call'[d].held = call[d].held \ {s}
              /\ call[d].s2 # s => Sees(d, call[d].s2)' = Sees(d, call[d].s2)
<1>1. Frame({c}, {s})
  BY DEF Writes
<1>2. SameCall(call[d], call'[d], {s}) /\ call[d] \in CallType
  BY <1>1 DEF Frame, TypeInv
<1>3. /\ call'[d].pc = call[d].pc
      /\ call[d].pc \in Registering => /\ call'[d].machine = call[d].machine /\ call'[d].nics = call[d].nics
                                       /\ call'[d].half = call[d].half /\ call[d].machine \in Machines
      /\ call[d].pc \in {"disconnect", "connect"} => call'[d].prev = call[d].prev
      /\ call[d].pc \in {"first", "second"} => /\ call'[d].s1 = call[d].s1 /\ call'[d].s2 = call[d].s2
                                               /\ call'[d].held = call[d].held \ {s}
                                               /\ call[d].s1 \in Switches /\ call[d].s2 \in Switches
  BY <1>2, SameRegistration, RegShapes, CallShapes
<1>4. RegOK(d) /\ FirstOK(d)
  BY DEF LinkBody
<1>5. \A x \in Switches \ {s} : sw'[x] = sw[x] /\ \A n \in Machines : At(x, n)' = At(x, n)
  BY WriteLinked
<1>6. \A n \in Machines : StoredHosts(n)' = StoredHosts(n)
  BY WriteLinked
<1>7. RegOK(d)'
  BY <1>3, <1>4, <1>6 DEF RegOK, Registering
<1>8. \A x \in Switches \ {s} : call[d].pc \in Registering => Sees(d, x)' = Sees(d, x)
  BY <1>3, <1>5 DEF Sees
<1>9. FirstOK(d)'
  <2>1. SUFFICES ASSUME call[d].pc = "first" PROVE FirstOK(d)'
    BY <1>3 DEF FirstOK
  <2>2. \A x \in {call[d].s1, call[d].s2} \cap call'[d].held :
          x \in call[d].held /\ x \in Switches \ {s} /\ Sees(d, x)' = Sees(d, x)
          /\ At(x, call[d].machine)' = At(x, call[d].machine)
    BY <1>3, <1>5, <1>8, <2>1 DEF Registering
  <2> QED BY <1>3, <1>4, <2>1, <2>2 DEF FirstOK, Registering
<1> QED BY <1>3, <1>7, <1>8, <1>9 DEF Registering

\* When nobody migrates before or after a step.
LEMMA NoMigration ==
  ASSUME \A d \in Calls : call'[d].pc \notin Migrating
  PROVE  Modes' /\ \A d \in Calls : MigOK(d)'
  BY DEF Modes, MigOK

LEMMA WriteFirstLinked ==
  ASSUME TypeInv, LinkInv, NEW c \in Calls, WriteFirst(c)
  PROVE  LinkInv'
<1>1. /\ call[c] \in WriteCall /\ call[c].pc = "first" /\ call[c].pc \in Registering
      /\ call[c].s1 \in Switches /\ call[c].s2 \in Switches /\ call[c].machine \in Machines
  BY WriteFirstEffect DEF WriteCall, Registering
<1>2. CASE GivesUp(c)
  BY <1>1, <1>2, GivesUpLinked
<1>3. CASE /\ Writes(c, call[c].s1)
           /\ call'[c].pc = "second" /\ call'[c].machine = call[c].machine /\ call'[c].nics = call[c].nics
           /\ call'[c].half = TRUE
           /\ call'[c].s1 = call[c].s1 /\ call'[c].s2 = call[c].s2 /\ call'[c].held = call[c].held
  <2>1. Grows /\ Frame({c}, {call[c].s1})
    BY <1>3 DEF Writes
  <2>2. SUFFICES ASSUME Good' PROVE LinkBody'
    BY DEF LinkInv
  <2>3. LinkBody
    BY <2>1, <2>2, StaysGood
  <2>4. PICK m \in Machines : m = call[c].machine
    BY <1>1
  <2>5. PICK s1 \in Switches, s2 \in Switches : s1 = call[c].s1 /\ s2 = call[c].s2
    BY <1>1
  <2>6. /\ s1 \in call[c].held
        /\ \A x \in Switches, n \in Machines : x # s1 \/ n # m => At(x, n)' = At(x, n)
        /\ At(s1, m)' = IF Sees(c, s1) = {} THEN At(s1, m) ELSE Sees(c, s1)
        /\ \A n \in Machines : StoredHosts(n)' = StoredHosts(n)
        /\ \A x \in Switches \ {s1} : sw'[x] = sw[x]
    BY <1>1, <1>3, <2>4, <2>5, WriteLinked
  <2>7. /\ s1 # s2 /\ \A d \in Calls : call[d].pc \notin Migrating
        /\ \A x \in Switches, n \in Machines : At(x, n)' # {} =>
             x \in StoredHosts(n)' /\ \E a, b \in Switches : a # b /\ StoredHosts(n)' = {a, b}
        /\ \A n \in Machines : Linked(n)
    BY <1>1, <1>3, <2>3, <2>5, WriteHosts
  <2>8. \A d \in Calls \ {c} : /\ RegOK(d)' /\ FirstOK(d)' /\ call'[d].pc = call[d].pc
                               /\ \A n \in Machines : HalfDone(n, d)' <=> HalfDone(n, d)
    BY <1>1, <1>3, <2>1, <2>3, WriteOthers, OthersHalf
  <2>9. \A d \in Calls : call'[d].pc \notin Migrating
    BY <1>3, <2>7, <2>8 DEF Migrating
  <2>10. \A n \in Machines : HalfDone(n, c)' <=> n = m
    BY <1>3, <2>4 DEF HalfDone, Registering
  <2>11. ASSUME NEW n \in Machines PROVE Linked(n)'
    <3>1. CASE n = m
      BY <2>7, <2>10, <3>1 DEF Linked
    <3>2. CASE n # m
      <4>1. StoredHosts(n) \subseteq Switches
        BY HostsFinite DEF StoredHosts, TypeInv, TypeOK, MachineType
      <4>2. Equal(n) => Equal(n)'
        BY <2>6, <3>2, <4>1 DEF Equal
      <4>3. Equal(n) \/ \E d \in Calls \ {c} : HalfDone(n, d)
        <5>1. ~HalfDone(n, c)
          BY <2>4, <3>2 DEF HalfDone
        <5> QED BY <2>7, <5>1 DEF Linked
      <4>4. (\E d \in Calls \ {c} : HalfDone(n, d)) => \E d \in Calls : HalfDone(n, d)'
        BY <2>8
      <4> QED BY <2>7, <4>2, <4>3, <4>4 DEF Linked
    <3> QED BY <3>1, <3>2
  <2>12. ASSUME NEW d \in Calls \ {c} PROVE SecondOK(d)'
    <3>1. SUFFICES ASSUME call[d].pc = "second", call'[d].s2 \in call'[d].held PROVE SecondOK(d)'
      BY <2>8 DEF SecondOK
    <3>2. /\ call'[d].s1 = call[d].s1 /\ call'[d].s2 = call[d].s2 /\ call'[d].machine = call[d].machine
          /\ call[d].s1 \in Switches /\ call[d].s2 \in Switches \ {s1} /\ call[d].machine \in Machines
          /\ call[d].s2 \in call[d].held
          /\ Sees(d, call[d].s2)' = Sees(d, call[d].s2)
      BY <1>1, <1>3, <2>3, <2>5, <3>1, WriteOthers
    <3>3. SecondOK(d)
      BY <2>3 DEF LinkBody
    <3>4. At(call[d].s2, call[d].machine)' = At(call[d].s2, call[d].machine)
      BY <2>6, <3>2
    <3>5. CASE call[d].machine = m
      BY <2>10, <3>2, <3>3, <3>4, <3>5, <3>1 DEF SecondOK
    <3>6. CASE call[d].machine # m
      <4>1. At(call[d].s1, call[d].machine)' = At(call[d].s1, call[d].machine)
        BY <2>6, <3>2, <3>6
      <4>2. ~HalfDone(call[d].machine, c)
        BY <2>4, <3>6 DEF HalfDone
      <4> QED BY <2>8, <3>1, <3>2, <3>3, <3>4, <4>1, <4>2 DEF SecondOK
    <3> QED BY <3>5, <3>6
  <2>13. Sees(c, s2)' = Sees(c, s2) /\ At(s2, m)' = At(s2, m)
    BY <1>3, <2>6, <2>7 DEF Sees
  <2>14. SecondOK(c)'
    <3>1. FirstOK(c)
      BY <2>3 DEF LinkBody
    <3>2. s2 \in call[c].held => Sees(c, s1) = Sees(c, s2) /\ (Sees(c, s2) = {} => At(s2, m) = {})
      BY <1>1, <2>4, <2>5, <2>6, <3>1 DEF FirstOK
    <3>3. Sees(c, s1) = {} => At(s1, m) = {}
      BY <1>1, <2>4, <2>5, <2>6, <3>1 DEF FirstOK
    <3>4. s2 \in call[c].held => At(s1, m)' = Sees(c, s2)
      BY <2>6, <3>2, <3>3
    <3>5. /\ call'[c].machine = m /\ call'[c].s1 = s1 /\ call'[c].s2 = s2 /\ call'[c].held = call[c].held
      BY <1>3, <2>4, <2>5
    <3> QED BY <2>13, <3>2, <3>4, <3>5 DEF SecondOK
  <2>15. RegOK(c)' /\ FirstOK(c)'
    <3>1. RegOK(c) /\ StoredHosts(call[c].machine)' = StoredHosts(call[c].machine)
      BY <1>3, <2>3, <2>4, <2>6 DEF LinkBody, StoredHosts
    <3> QED BY <1>1, <1>3, <3>1 DEF RegOK, FirstOK
  <2>16. ASSUME NEW a \in Calls, NEW b \in Calls, a # b PROVE ~Crossed(a, b)'
    <3>1. \A d \in Calls \ {c} : call'[d].pc = "second" => call'[d].held = call[d].held \ {s1}
      BY <1>1, <1>3, <2>3, <2>5, WriteOthers
    <3>2. CASE a = c
      BY <1>3, <2>5, <2>16, <3>1, <3>2 DEF Crossed
    <3>3. CASE b = c
      BY <1>3, <2>5, <2>16, <3>1, <3>3 DEF Crossed
    <3>4. CASE a # c /\ b # c
      <4>1. \A x, y \in Calls \ {c} : Crossed(x, y)' => Crossed(x, y)
        BY <1>1, <2>1, OthersMove
      <4> QED BY <2>3, <2>16, <3>4, <4>1 DEF LinkBody
    <3> QED BY <3>2, <3>3, <3>4
  <2> QED BY <2>8, <2>9, <2>11, <2>12, <2>14, <2>15, <2>16, NoMigration DEF LinkBody
<1> QED BY <1>1, <1>2, <1>3, WriteFirstEffect

LEMMA WriteSecondLinked ==
  ASSUME TypeInv, LinkInv, NEW c \in Calls, WriteSecond(c)
  PROVE  LinkInv'
<1>1. /\ call[c] \in WriteCall /\ call[c].pc = "second" /\ call[c].pc \in Registering
      /\ call[c].s1 \in Switches /\ call[c].s2 \in Switches /\ call[c].machine \in Machines
  BY WriteSecondEffect DEF WriteCall, Registering
<1>2. CASE GivesUp(c)
  BY <1>1, <1>2, GivesUpLinked
<1>3. CASE Writes(c, call[c].s2) /\ call'[c] = Idle
  <2>1. Grows /\ Frame({c}, {call[c].s2}) /\ call'[c].pc = "idle"
    BY <1>3, CallSteps DEF Writes
  <2>2. SUFFICES ASSUME Good' PROVE LinkBody'
    BY DEF LinkInv
  <2>3. LinkBody
    BY <2>1, <2>2, StaysGood
  <2>4. PICK m \in Machines : m = call[c].machine
    BY <1>1
  <2>5. PICK s1 \in Switches, s2 \in Switches : s1 = call[c].s1 /\ s2 = call[c].s2
    BY <1>1
  <2>6. /\ s2 \in call[c].held
        /\ \A x \in Switches, n \in Machines : x # s2 \/ n # m => At(x, n)' = At(x, n)
        /\ At(s2, m)' = IF Sees(c, s2) = {} THEN At(s2, m) ELSE Sees(c, s2)
        /\ \A n \in Machines : StoredHosts(n)' = StoredHosts(n)
        /\ \A x \in Switches \ {s2} : sw'[x] = sw[x]
    BY <1>1, <1>3, <2>4, <2>5, WriteLinked
  <2>7. /\ s1 # s2 /\ StoredHosts(m) = {s1, s2} /\ \A d \in Calls : call[d].pc \notin Migrating
        /\ \A x \in Switches, n \in Machines : At(x, n)' # {} =>
             x \in StoredHosts(n)' /\ \E a, b \in Switches : a # b /\ StoredHosts(n)' = {a, b}
        /\ \A n \in Machines : Linked(n)
    BY <1>1, <1>3, <2>3, <2>4, <2>5, WriteHosts
  <2>8. \A d \in Calls \ {c} : /\ RegOK(d)' /\ FirstOK(d)' /\ call'[d].pc = call[d].pc
                               /\ \A n \in Machines : HalfDone(n, d)' <=> HalfDone(n, d)
    BY <1>1, <1>3, <2>1, <2>3, WriteOthers, OthersHalf
  <2>9. \A d \in Calls : call'[d].pc \notin Migrating
    BY <2>1, <2>7, <2>8 DEF Migrating
  <2>10. (\E d \in Calls \ {c} : HalfDone(m, d)) \/ At(s1, m) = Sees(c, s2)
    BY <1>1, <2>3, <2>4, <2>5, <2>6 DEF LinkBody, SecondOK
  <2>11. Sees(c, s2) = {} => At(s2, m) = {}
    BY <1>1, <2>3, <2>4, <2>5, <2>6 DEF LinkBody, SecondOK
  <2>12. ASSUME NEW n \in Machines PROVE Linked(n)'
    <3>1. \A d \in Calls \ {c} : HalfDone(n, d) => \E e \in Calls : HalfDone(n, e)'
      BY <2>8
    <3>2. CASE n = m
      <4>1. At(s1, m) = Sees(c, s2) => Equal(m)'
        <5>1. At(s1, m)' = At(s1, m)
          BY <2>6, <2>7
        <5>2. StoredHosts(m)' = {s1, s2}
          BY <2>6, <2>7
        <5> QED BY <2>6, <2>11, <5>1, <5>2 DEF Equal
      <4> QED BY <2>7, <2>10, <3>1, <3>2, <4>1 DEF Linked
    <3>3. CASE n # m
      <4>1. StoredHosts(n) \subseteq Switches
        BY HostsFinite DEF StoredHosts, TypeInv, TypeOK, MachineType
      <4>2. Equal(n) => Equal(n)'
        BY <2>6, <3>3, <4>1 DEF Equal
      <4>3. ~HalfDone(n, c)
        BY <2>4, <3>3 DEF HalfDone
      <4>4. Equal(n) \/ \E d \in Calls \ {c} : HalfDone(n, d)
        BY <2>7, <4>3 DEF Linked
      <4> QED BY <2>7, <3>1, <4>2, <4>4 DEF Linked
    <3> QED BY <3>2, <3>3
  <2>13. ASSUME NEW d \in Calls \ {c} PROVE SecondOK(d)'
    <3>1. SUFFICES ASSUME call[d].pc = "second", call'[d].s2 \in call'[d].held PROVE SecondOK(d)'
      BY <2>8 DEF SecondOK
    <3>2. /\ call'[d].s1 = call[d].s1 /\ call'[d].s2 = call[d].s2 /\ call'[d].machine = call[d].machine
          /\ call[d].s1 \in Switches /\ call[d].s2 \in Switches \ {s2} /\ call[d].machine \in Machines
          /\ call[d].s2 \in call[d].held
          /\ Sees(d, call[d].s2)' = Sees(d, call[d].s2)
      BY <1>1, <1>3, <2>3, <2>5, <3>1, WriteOthers
    <3>3. SecondOK(d) /\ RegOK(d) /\ ~Crossed(c, d)
      BY <2>3 DEF LinkBody
    <3>4. call[d].machine # m
      <4>1. SUFFICES ASSUME call[d].machine = m PROVE FALSE
        OBVIOUS
      <4>2. Hosts(call[d].nics) = {call[d].s1, call[d].s2} /\ Hosts(call[d].nics) \in {{}, StoredHosts(m)}
            /\ call[d].s1 # call[d].s2
        BY <3>1, <3>3, <4>1 DEF RegOK, Registering
      <4>3. {call[d].s1, call[d].s2} = {s1, s2}
        BY <2>7, <4>2
      <4>4. call[d].s2 = s1 /\ call[d].s1 = s2
        BY <3>2, <4>2, <4>3
      <4> QED BY <1>1, <2>4, <2>5, <2>6, <3>1, <3>2, <3>3, <4>1, <4>4 DEF Crossed
    <3>5. /\ At(call[d].s1, call[d].machine)' = At(call[d].s1, call[d].machine)
          /\ At(call[d].s2, call[d].machine)' = At(call[d].s2, call[d].machine)
      BY <2>6, <3>2, <3>4
    <3>6. ~HalfDone(call[d].machine, c)
      BY <2>4, <3>4 DEF HalfDone
    <3>7. (\E e \in Calls \ {d} : HalfDone(call[d].machine, e)) => \E e \in Calls \ {d} : HalfDone(call[d].machine, e)'
      BY <2>8, <3>2, <3>6
    <3> QED BY <3>1, <3>2, <3>3, <3>5, <3>7 DEF SecondOK
  <2>14. RegOK(c)' /\ FirstOK(c)' /\ SecondOK(c)'
    BY <2>1 DEF RegOK, FirstOK, SecondOK, Registering
  <2>15. ASSUME NEW a \in Calls, NEW b \in Calls, a # b PROVE ~Crossed(a, b)'
    <3>1. CASE a = c \/ b = c
      BY <2>1, <3>1 DEF Crossed
    <3>2. CASE a # c /\ b # c
      <4>1. \A x, y \in Calls \ {c} : Crossed(x, y)' => Crossed(x, y)
        BY <1>1, <2>1, OthersMove
      <4> QED BY <2>3, <2>15, <3>2, <4>1 DEF LinkBody
    <3> QED BY <3>1, <3>2
  <2> QED BY <2>8, <2>9, <2>12, <2>13, <2>14, <2>15, NoMigration DEF LinkBody
<1> QED BY <1>1, <1>2, <1>3, WriteSecondEffect

\* What is left to show of a step during a migration: nobody registers, and nobody else migrates.
LEMMA MigrationStep ==
  ASSUME NEW c \in Calls, call'[c].pc \notin Registering,
         \A d \in Calls \ {c} : call'[d].pc \notin Registering \cup Migrating,
         MigOK(c)', \A m \in Machines : ~Moves(m)' => Linked(m)'
  PROVE  LinkBody'
<1>1. \A d \in Calls : call'[d].pc \notin Registering
  OBVIOUS
<1>2. \A d \in Calls : RegOK(d)' /\ FirstOK(d)' /\ SecondOK(d)'
  BY <1>1 DEF RegOK, FirstOK, SecondOK, Registering
<1>3. \A d \in Calls : MigOK(d)'
  BY DEF MigOK
<1>4. Modes' /\ \A a, b \in Calls : ~Crossed(a, b)'
  BY <1>1 DEF Modes, Crossed, Registering
<1> QED BY <1>2, <1>3, <1>4 DEF LinkBody

LEMMA MigrationAlone ==
  ASSUME TypeInv, LinkBody, NEW c \in Calls, call[c].pc \in Migrating, NEW S \in SUBSET Switches, Frame({c}, S)
  PROVE  /\ call[c].pc \notin Registering
         /\ \A d \in Calls \ {c} : call'[d].pc \notin Registering \cup Migrating
         /\ \A m \in Machines : Moves(m) <=> Taken(c, m) # {}
         /\ \A m \in Machines : Taken(c, m) = {} => Linked(m) /\ Equal(m)
         /\ call[c].old \in Switches /\ call[c].new \in Switches /\ call[c].oldRow \in RowType
         /\ call[c].todo \subseteq Machines
<1>1. call[c].pc \notin Registering
  BY OutOfMigration
<1>2. \A d \in Calls \ {c} : call[d].pc \notin Registering \cup Migrating
  BY DEF LinkBody, Modes
<1>3. \A d \in Calls \ {c} : call'[d].pc \notin Registering \cup Migrating
  BY <1>2, OthersHalf
<1>4. \A m \in Machines : Moves(m) <=> Taken(c, m) # {}
  BY <1>2 DEF Moves
<1>5. \A m \in Machines, d \in Calls : ~HalfDone(m, d)
  BY <1>1, <1>2 DEF HalfDone
<1>6. \A m \in Machines : Taken(c, m) = {} => Linked(m) /\ Equal(m)
  BY <1>4, <1>5 DEF LinkBody, Linked
<1>7. call[c] \in MigrateCall
  BY CallShapes DEF TypeInv
<1> QED BY <1>1, <1>3, <1>4, <1>6, <1>7 DEF MigrateCall

\* Equally connected machines stay so when nothing of them changes.
LEMMA StaysEqual ==
  ASSUME TypeInv, NEW m \in Machines, Linked(m), Equal(m), StoredHosts(m)' = StoredHosts(m),
         \A s \in Switches : At(s, m)' = At(s, m)
  PROVE  Linked(m)'
<1>1. StoredHosts(m) \subseteq Switches
  BY HostsFinite DEF StoredHosts, TypeInv, TypeOK, MachineType
<1>2. Equal(m)'
  BY <1>1 DEF Equal
<1> QED BY <1>2 DEF Linked

LEMMA MigrateLinked ==
  ASSUME TypeInv, LinkInv, NEW c \in Calls, NEW old \in Switches, NEW new \in Switches, Migrate(c, old, new)
  PROVE  LinkInv'
<1>1. /\ call[c] = Idle /\ Frame({c}, {}) /\ UNCHANGED <<sw, machine>> /\ Grows
      /\ old # new /\ old \in There /\ new \in There /\ sw[old] \in RowType
      /\ sw[new].conns = {}
      /\ call'[c] \in MigrateCall /\ call'[c].pc = "neigh" /\ call'[c].old = old /\ call'[c].new = new
      /\ call'[c].oldRow = sw[old] /\ call'[c].todo = {x[1] : x \in sw[old].conns}
      /\ "moved" \notin mishap' =>
           /\ ~Someone(Registering \cup Migrating)
           /\ \A m \in Machines : PortsOf(sw[old], m) \in {{}, StoredOn(machine[m].nics, old)}
  <2>1. /\ call[c] = Idle /\ Frame({c}, {}) /\ UNCHANGED <<sw, machine, cable>> /\ Grows
        /\ old # new /\ old \in There /\ new \in There /\ sw[old] \in RowType /\ sw[new] \in RowType
        /\ sw[new].conns = {} /\ DOMAIN sw[old].nics \subseteq DOMAIN sw[new].nics
        /\ call'[c] \in MigrateCall /\ call'[c].pc = "neigh" /\ call'[c].old = old /\ call'[c].new = new
        /\ call'[c].oldRow = sw[old] /\ call'[c].held = {old, new} /\ call'[c].todo = {x[1] : x \in sw[old].conns}
        /\ "moved" \notin mishap' =>
             /\ ~Someone(Registering \cup Migrating)
             /\ \A m \in Machines : PortsOf(sw[old], m) \in {{}, StoredOn(machine[m].nics, old)}
    BY MigrateEffect
  <2> QED BY <2>1
<1>2. SUFFICES ASSUME Good' PROVE LinkBody'
  BY DEF LinkInv
<1>3. /\ LinkBody /\ \A d \in Calls : call[d].pc \notin Registering \cup Migrating
      /\ \A m \in Machines : PortsOf(sw[old], m) \in {{}, StoredOn(machine[m].nics, old)}
  BY <1>1, <1>2, StaysGood DEF Someone
<1>4. \A d \in Calls \ {c} : call'[d].pc \notin Registering \cup Migrating
  <2>1. \A d \in Calls \ {c} : call'[d].pc = call[d].pc
    BY <1>1, OthersHalf
  <2> QED BY <1>3, <2>1
<1>5. call'[c].pc \notin Registering
  BY <1>1 DEF Registering
<1>6. \A m \in Machines : Linked(m) /\ Equal(m)
  BY <1>3 DEF LinkBody, Moves, Linked, HalfDone
<1>7. /\ \A s \in Switches, m \in Machines : At(s, m)' = At(s, m)
      /\ \A m \in Machines : StoredHosts(m)' = StoredHosts(m)
      /\ \A m \in Machines : At(old, m) = PortsOf(sw[old], m) /\ At(new, m) = {}
      /\ \A m \in Machines : Taken(c, m)' = PortsOf(sw[old], m)
  BY <1>1 DEF At, PortsOf, StoredHosts, There, Taken
<1>8. \A m \in Machines : Linked(m)'
  BY <1>6, <1>7, StaysEqual
<1>9. \A m \in Machines : m \in call'[c].todo <=> PortsOf(sw[old], m) # {}
  <2>1. sw[old].conns \in SUBSET (Machines \X Ports)
    BY <1>1 DEF RowType
  <2>2. \A m \in Machines : PortsOf(sw[old], m) # {} => m \in {x[1] : x \in sw[old].conns}
    <3>1. \A m \in Machines : \A p \in PortsOf(sw[old], m) : <<m, p>> \in sw[old].conns /\ <<m, p>>[1] = m
      BY DEF PortsOf
    <3> QED BY <3>1
  <2>3. \A x \in sw[old].conns : x[1] \in Machines /\ x[2] \in PortsOf(sw[old], x[1])
    BY <2>1 DEF PortsOf
  <2> QED BY <1>1, <2>2, <2>3
<1>10. ASSUME NEW m \in Machines, PortsOf(sw[old], m) # {}
       PROVE  \E x \in Switches \ {old, new} :
                /\ At(x, m) = PortsOf(sw[old], m)
                /\ \A s \in Switches \ {old, x} : At(s, m) = {}
                /\ StoredHosts(m) = {old, x} /\ StoredOn(machine[m].nics, old) = PortsOf(sw[old], m)
  <2>1. old \in StoredHosts(m) /\ \E a, b \in Switches : a # b /\ StoredHosts(m) = {a, b}
    BY <1>6, <1>7, <1>10 DEF Linked
  <2>2. PICK x \in Switches : x # old /\ StoredHosts(m) = {old, x}
    BY <2>1
  <2>3. At(x, m) = PortsOf(sw[old], m)
    BY <1>6, <1>7, <2>2 DEF Equal
  <2>4. x # new
    BY <1>7, <1>10, <2>3
  <2>5. \A s \in Switches \ {old, x} : At(s, m) = {}
    BY <1>6, <2>2 DEF Linked
  <2>6. StoredOn(machine[m].nics, old) = PortsOf(sw[old], m)
    BY <1>3, <1>10
  <2> QED BY <2>2, <2>3, <2>4, <2>5, <2>6
<1>11. MigOK(c)'
  <2>1. \A m \in call'[c].todo : m \in Machines
    BY <1>1 DEF MigrateCall
  <2>2. \A m \in Machines : StoredOn(machine[m].nics, old)' = StoredOn(machine[m].nics, old)
    BY <1>1 DEF StoredOn
  <2>3. \A m \in Machines : StoredOn(machine'[m].nics, old) = StoredOn(machine[m].nics, old)
    BY <1>1
  <2>4. ASSUME NEW m \in Machines
        PROVE  /\ At(call[c].new, m)' = {}
               /\ At(call[c].old, m)' = Taken(c, m)'
    <3>1. At(call[c].new, m)' = At(new, m)' /\ At(call[c].old, m)' = At(old, m)'
      BY <1>1 DEF At
    <3> QED BY <1>7, <3>1
  <2>5. ASSUME NEW m \in Machines, Taken(c, m)' # {}
        PROVE  \E x \in Switches \ {old, new} :
                /\ At(x, m)' = Taken(c, m)'
                /\ \A s \in Switches \ {old, x} : At(s, m)' = {}
                /\ StoredHosts(m)' = {old, x} /\ StoredOn(machine'[m].nics, old) = Taken(c, m)'
    BY <1>7, <1>10, <2>3, <2>5
  <2>6. \A m \in call'[c].todo : Taken(c, m)' # {}
    BY <1>7, <1>9, <2>1
  <2>7. \A m \in Machines : Taken(c, m)' # {} => m \in call'[c].todo
    BY <1>7, <1>9
  <2> QED BY <1>1, <2>4, <2>5, <2>6, <2>7 DEF MigOK
<1> QED BY <1>4, <1>5, <1>8, <1>11, MigrationStep

LEMMA MigrateMachineLinked ==
  ASSUME TypeInv, PortInv, LinkInv, NEW c \in Calls, MigrateMachine(c)
  PROVE  LinkInv'
<1>1. /\ Frame({c}, {}) /\ UNCHANGED <<sw, mishap>> /\ call[c].pc = "neigh" /\ call[c].pc \in Migrating
      /\ call'[c].old = call[c].old /\ call'[c].new = call[c].new /\ call'[c].oldRow = call[c].oldRow
  BY MigrateMachineEffect DEF SameMigration, Migrating
<1>2. Grows
  BY <1>1 DEF Grows, TypeInv, TypeOK
<1>3. SUFFICES ASSUME Good' PROVE LinkBody'
  BY DEF LinkInv
<1>4. LinkBody
  BY <1>2, <1>3, StaysGood
<1>5. /\ \A d \in Calls \ {c} : call'[d].pc \notin Registering \cup Migrating
      /\ \A m \in Machines : Moves(m) <=> Taken(c, m) # {}
      /\ \A m \in Machines : Taken(c, m) = {} => Linked(m) /\ Equal(m)
      /\ call[c].old \in Switches /\ call[c].new \in Switches /\ call[c].todo \subseteq Machines
  BY <1>1, <1>4, MigrationAlone
<1>6. PICK old \in Switches, new \in Switches : old = call[c].old /\ new = call[c].new
  BY <1>5
<1>7. /\ \A s \in Switches, m \in Machines : At(s, m)' = At(s, m)
      /\ \A m \in Machines : Taken(c, m)' = Taken(c, m)
  BY <1>1 DEF At, PortsOf, Taken
<1>8. MigOK(c)
  BY <1>4 DEF LinkBody
<1>9. \A m \in Machines : At(new, m) = {} /\ At(old, m) = Taken(c, m)
  BY <1>1, <1>6, <1>8 DEF MigOK
<1>10. \A m \in Machines : Taken(c, m) # {} =>
         \E x \in Switches \ {old, new} :
           /\ At(x, m) = Taken(c, m)
           /\ \A s \in Switches \ {old, x} : At(s, m) = {}
           /\ m \in call[c].todo => StoredHosts(m) = {old, x} /\ StoredOn(machine[m].nics, old) = Taken(c, m)
           /\ m \notin call[c].todo => StoredHosts(m) = {new, x}
  BY <1>1, <1>6, <1>8 DEF MigOK
<1>11. \A m \in call[c].todo : m \in Machines /\ Taken(c, m) # {}
  BY <1>1, <1>5, <1>8 DEF MigOK
<1>12. CASE call[c].todo = {} /\ call'[c].todo = {} /\ call'[c].pc = "migrateOld" /\ machine' = machine
  <2>1. \A m \in Machines : StoredHosts(m)' = StoredHosts(m)
    BY <1>12 DEF StoredHosts
  <2>2. \A m \in Machines : ~Moves(m)' => Linked(m)'
    <3>1. \A m \in Machines : ~Moves(m)' => Taken(c, m) = {}
      BY <1>7, <1>12 DEF Moves, Migrating
    <3> QED BY <1>5, <1>7, <2>1, <3>1, StaysEqual
  <2>3. \A m \in Machines : At(call[c].new, m)' = {} /\ At(call[c].old, m)' = Taken(c, m)'
    <3>1. \A m \in Machines : At(call[c].new, m)' = At(new, m)' /\ At(call[c].old, m)' = At(old, m)'
      BY <1>1, <1>6 DEF At
    <3> QED BY <1>7, <1>9, <3>1
  <2>4. MigOK(c)'
    BY <1>1, <1>6, <1>7, <1>10, <1>12, <2>1, <2>3 DEF MigOK
  <2>5. call'[c].pc \notin Registering
    BY <1>12 DEF Registering
  <2> QED BY <1>5, <2>2, <2>4, <2>5, MigrationStep
<1>13. ASSUME NEW m \in call[c].todo, call'[c].pc = "neigh", call'[c].todo = call[c].todo \ {m},
              \A n \in Machines \ {m} : machine'[n].nics = machine[n].nics,
              machine'[m].nics = {IF x[1] = call[c].old /\ x[2] \in PortsOf(call[c].oldRow, m)
                                  THEN <<call[c].new, x[2]>> ELSE x : x \in machine[m].nics}
       PROVE  LinkBody'
  <2>1. m \in Machines /\ Taken(c, m) # {} /\ machine[m].nics \in SUBSET Plugs
    BY <1>11, <1>13 DEF TypeInv, TypeOK, MachineType
  <2>2. \A n \in Machines \ {m} : StoredHosts(n)' = StoredHosts(n)
    BY <1>13 DEF StoredHosts
  <2>3. PICK x \in Switches \ {old, new} :
           /\ At(x, m) = Taken(c, m)
           /\ \A s \in Switches \ {old, x} : At(s, m) = {}
           /\ StoredHosts(m) = {old, x} /\ StoredOn(machine[m].nics, old) = Taken(c, m)
    BY <1>10, <1>13, <2>1
  <2>4. StoredHosts(m)' = {new, x}
    <3>1. machine'[m].nics = {IF y[1] = old /\ y[2] \in Taken(c, m) THEN <<new, y[2]>> ELSE y : y \in machine[m].nics}
      BY <1>6, <1>13 DEF Taken
    <3>2. Hosts(machine[m].nics) = {old, x} /\ x # old
      BY <2>3 DEF StoredHosts
    <3>3. Hosts(machine'[m].nics) = {new, x}
      <4>1. PICK nics, ports, moved : nics \in SUBSET Plugs /\ nics = machine[m].nics /\ ports = Taken(c, m) /\ moved = machine'[m].nics
        BY <2>1
      <4>2. Hosts(nics) = {old, x} /\ x # old /\ StoredOn(nics, old) = ports
        BY <2>3, <3>2, <4>1
      <4>3. moved = {IF y[1] = old /\ y[2] \in ports THEN <<new, y[2]>> ELSE y : y \in nics}
        BY <3>1, <4>1
      <4>4. /\ \A y \in nics : y[1] = old /\ y[2] \in ports => \E z \in moved : z[1] = new
            /\ \A y \in nics : ~(y[1] = old /\ y[2] \in ports) => y \in moved
            /\ \A z \in moved : z[1] = new \/ (z \in nics /\ ~(z[1] = old /\ z[2] \in ports))
        <5>1. \A y \in nics : <<new, y[2]>>[1] = new
          OBVIOUS
        <5>2. \A y \in nics : y[1] = old /\ y[2] \in ports => <<new, y[2]>> \in moved
          BY ONLY <4>3
        <5>3. \A y \in nics : ~(y[1] = old /\ y[2] \in ports) => y \in moved
          BY ONLY <4>3
        <5>4. \A z \in moved : (\E y \in nics : z = <<new, y[2]>>) \/ (z \in nics /\ ~(z[1] = old /\ z[2] \in ports))
          BY ONLY <4>3
        <5> QED BY ONLY <5>1, <5>2, <5>3, <5>4
      <4>5. Hosts(moved) = {new, x}
        <5>1. \A y \in nics : y[1] \in {old, x} /\ (y[1] = old => y[2] \in ports)
          BY ONLY <4>1, <4>2 DEF Hosts, StoredOn, Plugs
        <5>2. (\E y \in nics : y[1] = old) /\ \E y \in nics : y[1] = x
          BY ONLY <4>2 DEF Hosts
        <5>3. \A z \in moved : z[1] \in {new, x}
          BY ONLY <4>4, <5>1
        <5>4. (\E z \in moved : z[1] = new) /\ \E z \in moved : z[1] = x
          BY ONLY <4>2, <4>4, <5>1, <5>2
        <5> QED BY ONLY <5>3, <5>4 DEF Hosts
      <4> QED BY <4>1, <4>5
    <3> QED BY <3>3 DEF StoredHosts
  <2>5. \A n \in Machines : ~Moves(n)' => Linked(n)'
    <3>1. \A n \in Machines : ~Moves(n)' => Taken(c, n) = {} /\ n # m
      BY <1>7, <1>13, <2>1 DEF Moves, Migrating
    <3> QED BY <1>5, <1>7, <2>2, <3>1, StaysEqual
  <2>6. \A n \in Machines : At(call[c].new, n)' = {} /\ At(call[c].old, n)' = Taken(c, n)'
    <3>1. \A n \in Machines : At(call[c].new, n)' = At(new, n)' /\ At(call[c].old, n)' = At(old, n)'
      BY <1>1, <1>6 DEF At
    <3> QED BY <1>7, <1>9, <3>1
  <2>7. ASSUME NEW n \in Machines, Taken(c, n) # {}
        PROVE  \E y \in Switches \ {old, new} :
                 /\ At(y, n)' = Taken(c, n)
                 /\ \A s \in Switches \ {old, y} : At(s, n)' = {}
                 /\ n \in call'[c].todo => StoredHosts(n)' = {old, y} /\ StoredOn(machine'[n].nics, old) = Taken(c, n)
                 /\ n \notin call'[c].todo => StoredHosts(n)' = {new, y}
    <3>1. CASE n = m
      BY <1>7, <1>13, <2>1, <2>3, <2>4, <3>1
    <3>2. CASE n # m
      <4>1. n \in call'[c].todo <=> n \in call[c].todo
        BY <1>13, <3>2
      <4>2. machine'[n].nics = machine[n].nics
        BY <1>13, <3>2
      <4>3. PICK y \in Switches \ {old, new} :
             /\ At(y, n) = Taken(c, n)
             /\ \A s \in Switches \ {old, y} : At(s, n) = {}
             /\ n \in call[c].todo => StoredHosts(n) = {old, y} /\ StoredOn(machine[n].nics, old) = Taken(c, n)
             /\ n \notin call[c].todo => StoredHosts(n) = {new, y}
        BY <1>10, <2>7
      <4>4. At(y, n)' = Taken(c, n) /\ \A s \in Switches \ {old, y} : At(s, n)' = {}
        BY <1>7, <4>3
      <4> QED BY <2>2, <3>2, <4>1, <4>2, <4>3, <4>4
    <3> QED BY <3>1, <3>2
  <2>8. MigOK(c)'
    <3>1. \A n \in call'[c].todo : Taken(c, n)' # {}
      BY <1>7, <1>11, <1>13
    <3> QED BY <1>1, <1>6, <1>7, <1>13, <2>6, <2>7, <3>1 DEF MigOK
  <2>9. call'[c].pc \notin Registering
    BY <1>13 DEF Registering
  <2> QED BY <1>5, <2>5, <2>8, <2>9, MigrationStep
<1> QED BY <1>12, <1>13, MigrateMachineEffect

LEMMA AbandonsLinked ==
  ASSUME LinkInv, NEW c \in Calls, Abandons(c)
  PROVE  LinkInv'
  BY DEF Abandons, LinkInv, Good, Unless

LEMMA MigrateOldLinked ==
  ASSUME TypeInv, PortInv, LinkInv, NEW c \in Calls, MigrateOld(c)
  PROVE  LinkInv'
<1>1. call[c] \in MigrateCall /\ call[c].pc = "migrateOld" /\ call[c].pc \in Migrating
  BY MigrateOldEffect DEF Migrating
<1>2. CASE /\ Frame({c}, {call[c].old}) /\ UNCHANGED <<machine, mishap>>
           /\ sw[call[c].old] \in RowType /\ sw'[call[c].old] \in RowType /\ sw'[call[c].old].conns = {}
           /\ SameMigration(call[c], call'[c]) /\ call'[c].pc = "migrateNew" /\ call'[c].todo = call[c].todo
  <2>1. Grows
    BY <1>2 DEF Grows, TypeInv, TypeOK
  <2>2. SUFFICES ASSUME Good' PROVE LinkBody'
    BY DEF LinkInv
  <2>3. LinkBody
    BY <2>1, <2>2, StaysGood
  <2>4. PICK old \in Switches, new \in Switches : old = call[c].old /\ new = call[c].new
    BY <1>1 DEF MigrateCall
  <2>5. Frame({c}, {old}) /\ {old} \in SUBSET Switches /\ old # new
    BY <1>1, <1>2, <2>4 DEF PortInv, CallFits
  <2>6. /\ \A d \in Calls \ {c} : call'[d].pc \notin Registering \cup Migrating
        /\ \A m \in Machines : Taken(c, m) = {} => Linked(m) /\ Equal(m)
    BY <1>1, <2>3, <2>5, MigrationAlone
  <2>7. /\ call'[c].old = old /\ call'[c].new = new /\ call'[c].oldRow = call[c].oldRow
        /\ \A m \in Machines : Taken(c, m)' = Taken(c, m)
    BY <1>2, <2>4 DEF SameMigration, Taken
  <2>8. MigOK(c)
    BY <2>3 DEF LinkBody
  <2>9. /\ \A m \in Machines : At(new, m) = {} /\ At(old, m) = Taken(c, m)
        /\ call[c].todo = {}
    BY <1>1, <2>4, <2>8 DEF MigOK
  <2>10. \A m \in Machines : Taken(c, m) # {} =>
           \E x \in Switches \ {old, new} :
             /\ At(x, m) = Taken(c, m)
             /\ \A s \in Switches \ {old, x} : At(s, m) = {}
             /\ StoredHosts(m) = {new, x}
    BY <1>1, <2>4, <2>8, <2>9 DEF MigOK
  <2>11. /\ \A m \in Machines : StoredHosts(m)' = StoredHosts(m)
         /\ \A s \in Switches \ {old}, m \in Machines : At(s, m)' = At(s, m)
         /\ \A m \in Machines : At(old, m)' = {}
    <3>1. sw'[old].conns = {} /\ \A s \in Switches \ {old} : sw'[s] = sw[s]
      BY <1>2, <2>4, <2>5 DEF Frame
    <3>2. \A m \in Machines : StoredHosts(m)' = StoredHosts(m)
      BY <1>2 DEF StoredHosts
    <3>3. \A s \in Switches \ {old}, m \in Machines : At(s, m)' = At(s, m)
      BY <3>1 DEF At, PortsOf
    <3>4. \A m \in Machines : At(old, m)' = {}
      BY <3>1 DEF At, PortsOf
    <3> QED BY <3>2, <3>3, <3>4
  <2>12. \A m \in Machines : ~Moves(m)' => Linked(m)'
    <3>1. \A m \in Machines : ~Moves(m)' => Taken(c, m) = {}
      BY <1>2, <2>7 DEF Moves, Migrating
    <3>2. \A m \in Machines : Taken(c, m) = {} => \A s \in Switches : At(s, m)' = At(s, m)
      BY <2>9, <2>11
    <3> QED BY <2>6, <2>11, <3>1, <3>2, StaysEqual
  <2>13. ASSUME NEW m \in Machines, Taken(c, m) # {}
         PROVE  \E x \in Switches \ {old, new} :
                  /\ At(x, m)' = Taken(c, m)
                  /\ \A s \in Switches \ {old, x} : At(s, m)' = {}
                  /\ StoredHosts(m)' = {new, x}
    BY <2>10, <2>11, <2>13
  <2>14. \A m \in Machines : At(call[c].new, m)' = {} /\ At(call[c].old, m)' = {}
    <3>1. \A m \in Machines : At(call[c].new, m)' = At(new, m)' /\ At(call[c].old, m)' = At(old, m)'
      BY <2>7 DEF At
    <3> QED BY <2>5, <2>9, <2>11, <3>1
  <2>15. MigOK(c)'
    BY <1>2, <2>7, <2>9, <2>13, <2>14 DEF MigOK
  <2>16. call'[c].pc \notin Registering
    BY <1>2 DEF Registering
  <2> QED BY <2>6, <2>12, <2>15, <2>16, MigrationStep
<1> QED BY <1>1, <1>2, AbandonsLinked, MigrateOldEffect

LEMMA MigrateNewLinked ==
  ASSUME TypeInv, PortInv, LinkInv, NEW c \in Calls, MigrateNew(c)
  PROVE  LinkInv'
<1>1. call[c] \in MigrateCall /\ call[c].pc = "migrateNew" /\ call[c].pc \in Migrating
  BY MigrateNewEffect DEF Migrating
<1>2. CASE /\ Frame({c}, {call[c].new}) /\ UNCHANGED machine /\ Grows /\ call'[c] = Idle
           /\ sw[call[c].new] \in RowType /\ sw'[call[c].new] \in RowType
           /\ sw'[call[c].new].conns = call[c].oldRow.conns
  <2>1. Grows /\ call'[c].pc = "idle"
    BY <1>2, CallSteps DEF Grows, TypeInv, TypeOK
  <2>2. SUFFICES ASSUME Good' PROVE LinkBody'
    BY DEF LinkInv
  <2>3. LinkBody
    BY <2>1, <2>2, StaysGood
  <2>4. PICK old \in Switches, new \in Switches : old = call[c].old /\ new = call[c].new
    BY <1>1 DEF MigrateCall
  <2>5. Frame({c}, {new}) /\ {new} \in SUBSET Switches /\ old # new
    BY <1>1, <1>2, <2>4 DEF PortInv, CallFits
  <2>6. /\ \A d \in Calls \ {c} : call'[d].pc \notin Registering \cup Migrating
        /\ \A m \in Machines : Taken(c, m) = {} => Linked(m) /\ Equal(m)
    BY <1>1, <2>3, <2>5, MigrationAlone
  <2>7. MigOK(c)
    BY <2>3 DEF LinkBody
  <2>8. /\ \A m \in Machines : At(new, m) = {} /\ At(old, m) = {}
        /\ call[c].todo = {}
    BY <1>1, <2>4, <2>7 DEF MigOK
  <2>9. \A m \in Machines : Taken(c, m) # {} =>
           \E x \in Switches \ {old, new} :
             /\ At(x, m) = Taken(c, m)
             /\ \A s \in Switches \ {old, x} : At(s, m) = {}
             /\ StoredHosts(m) = {new, x}
    BY <1>1, <2>4, <2>7, <2>8 DEF MigOK
  <2>10. /\ \A m \in Machines : StoredHosts(m)' = StoredHosts(m)
         /\ \A s \in Switches \ {new}, m \in Machines : At(s, m)' = At(s, m)
         /\ \A m \in Machines : At(new, m)' = Taken(c, m)
    <3>1. /\ sw'[new].conns = call[c].oldRow.conns /\ sw'[new] # None
          /\ \A s \in Switches \ {new} : sw'[s] = sw[s]
      BY <1>2, <2>4, <2>5, NamesAssumption DEF Frame
    <3>2. \A m \in Machines : StoredHosts(m)' = StoredHosts(m)
      BY <1>2 DEF StoredHosts
    <3>3. \A s \in Switches \ {new}, m \in Machines : At(s, m)' = At(s, m)
      BY <3>1 DEF At, PortsOf
    <3>4. \A m \in Machines : At(new, m)' = Taken(c, m)
      BY <3>1 DEF At, PortsOf, Taken
    <3> QED BY <3>2, <3>3, <3>4
  <2>11. ASSUME NEW m \in Machines PROVE Linked(m)'
    <3>1. CASE Taken(c, m) = {}
      <4>1. \A s \in Switches : At(s, m)' = At(s, m)
        BY <2>8, <2>10, <3>1
      <4> QED BY <2>6, <2>10, <3>1, <4>1, StaysEqual
    <3>2. CASE Taken(c, m) # {}
      <4>1. PICK x \in Switches \ {old, new} :
             /\ At(x, m) = Taken(c, m)
             /\ \A s \in Switches \ {old, x} : At(s, m) = {}
             /\ StoredHosts(m) = {new, x}
        BY <2>9, <3>2
      <4>2. At(x, m)' = Taken(c, m) /\ At(new, m)' = Taken(c, m) /\ \A s \in Switches \ {new, x} : At(s, m)' = {}
        BY <2>8, <2>10, <4>1
      <4>3. StoredHosts(m)' = {new, x} /\ new # x
        BY <2>10, <4>1
      <4>4. Equal(m)'
        BY <4>2, <4>3 DEF Equal
      <4>5. \A s \in Switches : At(s, m)' # {} => s \in StoredHosts(m)'
        BY <4>2, <4>3
      <4> QED BY <4>3, <4>4, <4>5 DEF Linked
    <3> QED BY <3>1, <3>2
  <2>12. MigOK(c)' /\ call'[c].pc \notin Registering
    BY <2>1 DEF MigOK, Migrating, Registering
  <2> QED BY <2>6, <2>11, <2>12, MigrationStep
<1> QED BY <1>1, <1>2, AbandonsLinked, MigrateNewEffect

LEMMA LinkInvNext ==
  ASSUME TypeInv, PortInv, LinkInv, Steps
  PROVE  LinkInv'
  BY AsideLinked, RegisterMachineLinked, FormerSwitchesLinked, DisconnectLinked, ReadSwitchesLinked, WriteFirstLinked,
     WriteSecondLinked, MigrateMachineLinked, MigrateOldLinked, MigrateNewLinked, MigrateLinked DEF Steps

LEMMA LinkInvInit ==
  ASSUME Init
  PROVE  LinkInv
<1>1. PICK s \in Scenarios :
        /\ machine = [m \in Machines |-> [nics |-> s.cable[m], vrf |-> None, up |-> FALSE, stuck |-> {}]]
        /\ sw = [x \in Switches |-> IF x \in s.there THEN
                   [NewSwitch(Ports) EXCEPT !.conns = {c \in Machines \X Ports : <<x, c[2]>> \in s.cable[c[1]]}] ELSE None]
        /\ call = [c \in Calls |-> Idle]
  BY DEF Init
<1>2. \A c \in Calls : call[c].pc = "idle"
  BY <1>1, CallSteps
<1>3. \A x \in Switches, m \in Machines : At(x, m) \subseteq {p \in Ports : <<x, p>> \in s.cable[m]}
  <2>1. ASSUME NEW x \in Switches, NEW m \in Machines, sw[x] # None
        PROVE  PortsOf(sw[x], m) \subseteq {p \in Ports : <<x, p>> \in s.cable[m]}
    <3>1. sw[x].conns = {c \in Machines \X Ports : <<x, c[2]>> \in s.cable[c[1]]}
      BY <1>1, <2>1 DEF NewSwitch
    <3> QED BY <3>1 DEF PortsOf
  <2> QED BY <2>1 DEF At
<1>4. \A x \in s.there, m \in Machines : At(x, m) = {p \in Ports : <<x, p>> \in s.cable[m]}
  <2>1. ASSUME NEW x \in s.there, NEW m \in Machines
        PROVE  At(x, m) = {p \in Ports : <<x, p>> \in s.cable[m]}
    <3>1. x \in Switches
      BY <2>1, ScenarioAssumption
    <3>2. /\ sw[x] = [NewSwitch(Ports) EXCEPT !.conns = {c \in Machines \X Ports : <<x, c[2]>> \in s.cable[c[1]]}]
          /\ sw[x].conns = {c \in Machines \X Ports : <<x, c[2]>> \in s.cable[c[1]]}
      BY <1>1, <2>1, <3>1 DEF NewSwitch
    <3>3. sw[x] # None
      <4>1. NewSwitch(Ports) \in RowType
        BY NewRows
      <4>2. \A conns \in SUBSET (Machines \X Ports) : [NewSwitch(Ports) EXCEPT !.conns = conns] \in RowType
        BY <4>1 DEF RowType
      <4>3. {c \in Machines \X Ports : <<x, c[2]>> \in s.cable[c[1]]} \in SUBSET (Machines \X Ports)
        OBVIOUS
      <4>4. [NewSwitch(Ports) EXCEPT !.conns = {c \in Machines \X Ports : <<x, c[2]>> \in s.cable[c[1]]}] \in RowType
        BY ONLY <4>2, <4>3
      <4>5. sw[x] \in RowType
        BY ONLY <3>2, <4>4
      <4> QED BY <4>5, NamesAssumption
    <3> QED BY <3>2, <3>3 DEF At, PortsOf
  <2> QED BY <2>1
<1>5. \A m \in Machines : StoredHosts(m) = Hosts(s.cable[m])
  BY <1>1 DEF StoredHosts
<1>6. ASSUME NEW m \in Machines PROVE Linked(m)
  <2>1. CASE s.cable[m] = {}
    <3>1. StoredHosts(m) = {} /\ \A x \in Switches : At(x, m) = {}
      BY <1>3, <1>5, <2>1 DEF Hosts
    <3> QED BY <3>1 DEF Linked, Equal
  <2>2. ASSUME NEW x \in s.there, NEW y \in s.there, NEW ports \in SUBSET Ports, x # y, s.cable[m] = {x, y} \X ports
        PROVE  Linked(m)
    <3>1. x \in Switches /\ y \in Switches
      BY ScenarioAssumption
    <3>2. At(x, m) = ports /\ At(y, m) = ports
      BY <1>4, <2>2
    <3>3. \A z \in Switches : At(z, m) # {} => z \in {x, y} /\ ports # {}
      BY <1>3, <2>2
    <3>4. ASSUME ports # {} PROVE StoredHosts(m) = {x, y}
      <4>1. PICK p \in ports : TRUE
        BY <3>4
      <4>2. <<x, p>> \in s.cable[m] /\ <<y, p>> \in s.cable[m] /\ \A z \in s.cable[m] : z[1] \in {x, y}
        BY <2>2
      <4>3. <<x, p>>[1] = x /\ <<y, p>>[1] = y
        OBVIOUS
      <4>4. x \in Hosts(s.cable[m]) /\ y \in Hosts(s.cable[m])
        BY <4>2, <4>3 DEF Hosts
      <4>5. Hosts(s.cable[m]) \subseteq {x, y}
        BY <4>2 DEF Hosts
      <4> QED BY <1>5, <4>4, <4>5
    <3>5. StoredHosts(m) \subseteq {x, y}
      BY <1>5, <2>2 DEF Hosts
    <3>6. Equal(m)
      BY <3>2, <3>5 DEF Equal
    <3> QED BY <2>2, <3>1, <3>3, <3>4, <3>6 DEF Linked
  <2> QED BY <2>1, <2>2, ScenarioAssumption
<1>7. \A c \in Calls : RegOK(c) /\ FirstOK(c) /\ SecondOK(c) /\ MigOK(c)
  BY <1>2 DEF RegOK, FirstOK, SecondOK, MigOK, Registering, Migrating
<1>8. Modes
  BY <1>2 DEF Modes, Migrating
<1>9. \A c, d \in Calls : ~Crossed(c, d)
  BY <1>2 DEF Crossed
<1> QED BY <1>6, <1>7, <1>8, <1>9 DEF LinkInv, LinkBody

LEMMA LinkedTwoSwitches ==
  ASSUME TypeInv, LinkInv
  PROVE  TwoSwitches
<1>1. SUFFICES ASSUME Good, NEW m \in Machines, Settled(m)
               PROVE  /\ Cardinality(Connected(m)) \in {0, 2}
                      /\ \A s, t \in Connected(m) : PortsOf(sw[s], m) = PortsOf(sw[t], m)
  BY DEF TwoSwitches, Good
<1>2. \A c \in Calls : call[c].pc \notin Migrating /\ ~HalfDone(m, c)
  BY <1>1 DEF Settled, HalfDone
<1>3. Linked(m) /\ Equal(m)
  BY <1>1, <1>2 DEF LinkInv, LinkBody, Moves, Linked
<1>4. /\ \A s \in Switches : s \in Connected(m) <=> At(s, m) # {}
      /\ \A s \in Connected(m) : s \in Switches /\ At(s, m) = PortsOf(sw[s], m)
  BY DEF Connected, There, At
<1>5. Connected(m) \subseteq StoredHosts(m)
  BY <1>3, <1>4 DEF Linked
<1>6. \A s, t \in Connected(m) : PortsOf(sw[s], m) = PortsOf(sw[t], m)
  BY <1>3, <1>4, <1>5 DEF Equal
<1>7. CASE Connected(m) = {}
  BY <1>6, <1>7, FS_EmptySet
<1>8. ASSUME NEW s \in Connected(m)
      PROVE  Cardinality(Connected(m)) = 2
  <2>1. PICK a, b \in Switches : a # b /\ StoredHosts(m) = {a, b}
    BY <1>3, <1>4 DEF Linked
  <2>2. At(a, m) = At(s, m) /\ At(b, m) = At(s, m)
    BY <1>3, <1>5, <2>1 DEF Equal
  <2>3. Connected(m) = {a} \cup {b}
    BY <1>4, <1>5, <2>1, <2>2
  <2>4. IsFiniteSet({a}) /\ Cardinality({a}) = 1
    BY FS_Singleton
  <2>5. b \notin {a} /\ Cardinality({a} \cup {b}) = Cardinality({a}) + 1
    BY ONLY <2>1, <2>4, FS_AddElement
  <2> QED BY ONLY <2>3, <2>4, <2>5
<1> QED BY <1>6, <1>7, <1>8

\* A machine is connected to the same ports of two switches, or to none: after registrations that overlap and
\* conflict in any order, a replacement by the twin and a migration (ConnectMachineWithSwitches, Migrate).
THEOREM SamePortsOnTwoSwitches == Spec => []TwoSwitches
<1>1. Init => TypeInv /\ PortInv /\ LinkInv
  BY TypeInit, PortInvInit, LinkInvInit
<1>2. TypeInv /\ PortInv /\ LinkInv /\ [Next]_vars => (TypeInv /\ PortInv /\ LinkInv)'
  BY NextSteps, StepsStay, PortInvNext, LinkInvNext
<1>3. TypeInv /\ PortInv /\ LinkInv => TwoSwitches
  BY LinkedTwoSwitches
<1> QED BY <1>1, <1>2, <1>3, PTL DEF Spec

-----------------------------------------------------------------------------
(* The vrf of a port is that of the machine connected to it.                 *)

\* Resets by the delete task may overlap the next allocation, as long as no other mishap happens.
Calm == Unless(Mishaps \ {"overtaken"})
Exact == Unless({"overtaken"})

\* The row of a switch, and the row that a migration is about to write to it.
RowsAt(s) ==
    {x \in {sw[s]} : x # None}
      \cup {call[c].oldRow : c \in {d \in Calls : /\ call[d].pc = "migrateNew" /\ call[d].new = s
                                                 /\ s \in call[d].held}}

InVrf(x, m, vrf) == \A p \in PortsOf(x, m) : x.nics[p].vrf = vrf
NoMachine(x, p) == \A m \in Machines : p \notin PortsOf(x, m)

Current(c) == call[c].pc = "set" /\ call[c].todo \subseteq call[c].held
\* A reset of vrf v of machine m that has not been to switch s yet, or will come back.
Pending(c, s, m, v) ==
    /\ call[c].pc \in Setting /\ call[c].machine = m /\ call[c].vrf = None /\ call[c].was = v
    /\ ~(Current(c) /\ s \notin call[c].todo)

\* Ports may be in an old vrf while a call is about to reset them, and when it gave up.
MachineVrf(s, x, m) ==
    /\ \A p \in PortsOf(x, m) : \/ x.nics[p].vrf \in {None, machine[m].vrf} \cup machine[m].stuck
                                \/ \E c \in Calls : Pending(c, s, m, x.nics[p].vrf)
    /\ Exact /\ machine[m].up => InVrf(x, m, machine[m].vrf)
VacantVrf(x) == x.conns # {} => \A p \in DOMAIN x.nics : NoMachine(x, p) => x.nics[p].vrf = None
RowVrf(s, x) == VacantVrf(x) /\ \A m \in Machines : MachineVrf(s, x, m)

\* A call that sets the vrf has written all switches but those that are left to do.
SetOK(c) ==
    /\ call[c].pc \in Setting => call[c].vrf \in {None, machine[call[c].machine].vrf}
    /\ Exact /\ call[c].pc \in Setting => call[c].vrf = machine[call[c].machine].vrf
    /\ Exact /\ Current(c) =>
         \A s \in Switches \ call[c].todo : \A x \in RowsAt(s) : InVrf(x, call[c].machine, call[c].vrf)

\* The copy y has the connections of x and the vrfs of its ports.
CopyOf(x, y) ==
    /\ y.conns = x.conns
    /\ \A p \in DOMAIN y.nics : y.nics[p].vrf = IF p \in DOMAIN x.nics THEN x.nics[p].vrf ELSE None

\* A replacement that nobody disturbed copies its twin, and no call has set a vrf on the replaced switch only.
ReplaceOK(c) == call[c].pc = "replace" /\ {call[c].switch, call[c].twin} \subseteq call[c].held =>
    /\ CopyOf(sw[call[c].twin], call[c].new)
    /\ \A d \in Calls : Current(d) /\ At(call[c].switch, call[d].machine) # {} => call[c].switch \in call[d].todo
BeatOK(c) == call[c].pc = "beat" =>
    /\ DOMAIN call[c].next = DOMAIN call[c].read
    /\ \A p \in DOMAIN call[c].read : call[c].next[p].vrf = call[c].read[p].vrf
CarryOK(c) == call[c].pc \in {"neigh", "migrateOld"} /\ call[c].old \in call[c].held => sw[call[c].old] = call[c].oldRow

VrfBody ==
    /\ \A m \in Machines : machine[m].up => machine[m].vrf # None
    /\ \A s \in Switches : \A x \in RowsAt(s) : RowVrf(s, x)
    /\ \A c \in Calls : SetOK(c) /\ ReplaceOK(c) /\ BeatOK(c) /\ CarryOK(c)
VrfInv == Calm => VrfBody

LEMMA SameWork ==
  ASSUME NEW k \in CallType, NEW l, NEW S, SameCall(k, l, S)
  PROVE  /\ l.pc = k.pc
         /\ k.pc \in Setting => l.machine = k.machine /\ l.vrf = k.vrf /\ l.was = k.was /\ k.machine \in Machines
         /\ k.pc = "set" => l.todo = k.todo /\ l.held = k.held \ S /\ k.todo \subseteq Switches
         /\ k.pc = "replace" => /\ l.switch = k.switch /\ l.twin = k.twin /\ l.new = k.new /\ l.held = k.held \ S
                                /\ k.switch \in Switches /\ k.twin \in Switches
         /\ k.pc = "beat" => l = k
         /\ k.pc \in Migrating => /\ l.old = k.old /\ l.new = k.new /\ l.oldRow = k.oldRow /\ l.held = k.held \ S
                                  /\ k.old \in Switches /\ k.new \in Switches /\ k.oldRow \in RowType
<1>1. l.pc = k.pc
  BY DEF SameCall
<1>2. k.pc \in {"bmc", "list"} => l = k /\ k.machine \in Machines
  BY CallShapes DEF SameCall, FreeCalls, ListCall
<1>3. k.pc = "set" => /\ l.machine = k.machine /\ l.vrf = k.vrf /\ l.was = k.was /\ k.machine \in Machines
                      /\ l.todo = k.todo /\ l.held = k.held \ S /\ k.todo \subseteq Switches
  BY CallShapes DEF SameCall, HeldCalls, SetCall
<1>4. k.pc = "replace" => /\ l.switch = k.switch /\ l.twin = k.twin /\ l.new = k.new /\ l.held = k.held \ S
                          /\ k.switch \in Switches /\ k.twin \in Switches
  BY CallShapes DEF SameCall, HeldCalls, ReplaceCall
<1>5. k.pc = "beat" => l = k
  BY CallShapes DEF SameCall, FreeCalls
<1>6. k.pc \in Migrating => /\ l.old = k.old /\ l.new = k.new /\ l.oldRow = k.oldRow /\ l.held = k.held \ S
                            /\ k.old \in Switches /\ k.new \in Switches /\ k.oldRow \in RowType
  BY CallShapes DEF SameCall, HeldCalls, MigrateCall
<1> QED BY <1>1, <1>2, <1>3, <1>4, <1>5, <1>6 DEF Setting

\* A reset by another call stays pending, also for a row that moves to a switch which is not ahead of the old one.
LEMMA PendingStays ==
  ASSUME TypeInv, NEW W \in SUBSET Calls, NEW S \in SUBSET Switches, Frame(W, S), NEW d \in Calls \ W,
         NEW s \in Switches, NEW t \in Switches, NEW m, NEW v, Pending(d, t, m, v),
         Current(d) /\ call[d].todo \cap S = {} /\ s \notin call[d].todo => t \notin call[d].todo
  PROVE  Pending(d, s, m, v)'
<1>1. SameCall(call[d], call'[d], S) /\ call[d] \in CallType
  BY DEF Frame, TypeInv
<1>2. call'[d].pc \in Setting /\ call'[d].machine = m /\ call'[d].vrf = None /\ call'[d].was = v
  BY <1>1, SameWork DEF Pending
<1>3. ASSUME Current(d)', s \notin call'[d].todo PROVE FALSE
  <2>1. call[d].pc = "set" /\ call'[d].todo = call[d].todo /\ call'[d].held = call[d].held \ S
    BY <1>1, <1>3, SameWork DEF Current
  <2>2. Current(d) /\ call[d].todo \cap S = {} /\ s \notin call[d].todo
    BY <1>3, <2>1 DEF Current
  <2> QED BY <2>2 DEF Pending
<1> QED BY <1>2, <1>3 DEF Pending

LEMMA RowsFit ==
  ASSUME TypeInv, PortInv, NEW s \in Switches, NEW x \in RowsAt(s)
  PROVE  x \in RowType /\ Fits(x)
<1>1. CASE x = sw[s] /\ x # None
  <2>1. s \in There /\ sw[s] \in RowType
    BY <1>1 DEF There, TypeInv, TypeOK
  <2> QED BY <1>1, <2>1 DEF PortInv
<1>2. ASSUME NEW d \in Calls, call[d].pc = "migrateNew", x = call[d].oldRow PROVE x \in RowType /\ Fits(x)
  <2>1. call[d] \in MigrateCall
    BY <1>2, CallShapes DEF TypeInv, Migrating
  <2> QED BY <1>2, <2>1 DEF PortInv, CallFits, MigrateCall
<1> QED BY <1>1, <1>2 DEF RowsAt

LEMMA CopyVrf ==
  ASSUME NEW x \in RowType, NEW y \in RowType, Fits(x), Fits(y), CopyOf(x, y)
  PROVE  /\ \A m \in Machines : PortsOf(y, m) = PortsOf(x, m)
         /\ \A m \in Machines : \A p \in PortsOf(y, m) : y.nics[p].vrf = x.nics[p].vrf
         /\ VacantVrf(x) => VacantVrf(y)
<1>1. y.conns = x.conns /\ \A p \in DOMAIN y.nics : y.nics[p].vrf = IF p \in DOMAIN x.nics THEN x.nics[p].vrf ELSE None
  BY DEF CopyOf
<1>2. \A m \in Machines : PortsOf(y, m) = PortsOf(x, m)
  BY <1>1 DEF PortsOf
<1>3. \A m \in Machines : \A p \in PortsOf(y, m) : p \in DOMAIN x.nics /\ p \in DOMAIN y.nics
  BY <1>2, FitsPorts
<1>4. \A p : NoMachine(y, p) <=> NoMachine(x, p)
  BY <1>2 DEF NoMachine
<1> QED BY <1>1, <1>2, <1>3, <1>4 DEF VacantVrf

LEMMA CopyItself == \A x : CopyOf(x, x)
  BY DEF CopyOf

LEMMA NoConnsVrf ==
  ASSUME NEW x, x.conns = {}
  PROVE  /\ VacantVrf(x)
         /\ \A m \in Machines : PortsOf(x, m) = {}
  BY NoConns DEF VacantVrf

\* Rows after a step are rows from before it, or written by the step.
LEMMA RowsFrom ==
  ASSUME TypeInv, NEW W \in SUBSET Calls, NEW S \in SUBSET Switches, Frame(W, S), NEW s \in Switches, NEW y \in RowsAt(s)'
  PROVE  \/ y \in RowsAt(s) /\ s \notin S
         \/ s \in S /\ y = sw'[s] /\ y # None
         \/ \E c \in W : call'[c].pc = "migrateNew" /\ call'[c].new = s /\ s \in call'[c].held /\ y = call'[c].oldRow
<1>1. CASE y = sw'[s] /\ y # None
  BY <1>1 DEF Frame, RowsAt
<1>2. ASSUME NEW d \in Calls \ W, call'[d].pc = "migrateNew", call'[d].new = s, s \in call'[d].held, y = call'[d].oldRow
      PROVE  y \in RowsAt(s) /\ s \notin S
  <2>1. SameCall(call[d], call'[d], S) /\ call[d] \in CallType
    BY DEF Frame, TypeInv
  <2>2. call[d].pc = "migrateNew" /\ call[d].new = s /\ s \in call[d].held \ S /\ y = call[d].oldRow
    BY <1>2, <2>1, SameWork DEF Migrating
  <2> QED BY <2>2 DEF RowsAt
<1> QED BY <1>1, <1>2 DEF RowsAt

\* The vrf that a call sets is still that of the machine, or none.
Vowed(d) ==
    call[d].pc \in Setting => /\ call[d].vrf \in {None, machine'[call[d].machine].vrf}
                              /\ Exact' => call[d].vrf = machine'[call[d].machine].vrf

LEMMA VowKept ==
  ASSUME VrfBody, mishap \subseteq mishap', NEW d \in Calls, machine'[call[d].machine].vrf = machine[call[d].machine].vrf
  PROVE  Vowed(d)
<1>1. SetOK(d) /\ (Exact' => Exact)
  BY DEF VrfBody, Exact, Unless
<1> QED BY <1>1 DEF Vowed, SetOK

\* What the steps of some calls leave true of the others.
LEMMA OthersVrf ==
  ASSUME TypeInv, VrfBody, NEW W \in SUBSET Calls, NEW S \in SUBSET Switches, Frame(W, S),
         \A d \in Calls \ W : Vowed(d),
         \A d \in Calls \ W : Exact' /\ Current(d) /\ call[d].todo \cap S = {} =>
           \A s \in Switches \ call[d].todo : \A y \in RowsAt(s)' : InVrf(y, call[d].machine, call[d].vrf),
         \A e \in W : Current(e)' => \A s \in Switches \ S : At(s, call'[e].machine) # {} =>
           \/ s \in call'[e].todo
           \/ Current(e) /\ call'[e].machine = call[e].machine /\ s \notin call[e].todo
  PROVE  \A d \in Calls \ W : SetOK(d)' /\ ReplaceOK(d)' /\ BeatOK(d)' /\ CarryOK(d)'
<1>1. \A d \in Calls \ W : SameCall(call[d], call'[d], S) /\ call[d] \in CallType
  BY DEF Frame, TypeInv
<1>2. \A s \in Switches \ S : sw'[s] = sw[s] /\ \A m : At(s, m)' = At(s, m)
  BY DEF Frame, At, PortsOf
<1>3. ASSUME NEW d \in Calls \ W, Current(d)'
      PROVE  /\ Current(d) /\ call[d].todo \cap S = {} /\ call'[d].todo = call[d].todo
             /\ call'[d].machine = call[d].machine /\ call'[d].vrf = call[d].vrf
  <2>1. call[d].pc = "set" /\ "set" \in Setting
    BY <1>1, <1>3, SameWork DEF Current, Setting
  <2> QED BY <1>1, <1>3, <2>1, SameWork DEF Current
<1>4. ASSUME NEW d \in Calls \ W PROVE SetOK(d)'
  <2>1. call'[d].pc \in Setting => /\ call'[d].vrf \in {None, machine'[call'[d].machine].vrf}
                                   /\ Exact' => call'[d].vrf = machine'[call'[d].machine].vrf
    BY <1>1, SameWork DEF Vowed
  <2> QED BY <1>3, <2>1 DEF SetOK
<1>5. ASSUME NEW d \in Calls \ W PROVE ReplaceOK(d)'
  <2>1. SUFFICES ASSUME call'[d].pc = "replace", {call'[d].switch, call'[d].twin} \subseteq call'[d].held
                 PROVE  ReplaceOK(d)'
    BY DEF ReplaceOK
  <2>2. /\ call[d].pc = "replace" /\ call'[d].switch = call[d].switch /\ call'[d].twin = call[d].twin
        /\ call'[d].new = call[d].new /\ {call[d].switch, call[d].twin} \subseteq call[d].held
        /\ call[d].switch \in Switches \ S /\ call[d].twin \in Switches \ S
    BY <1>1, <2>1, SameWork
  <2>3. /\ CopyOf(sw[call[d].twin], call[d].new)
        /\ \A e \in Calls : Current(e) /\ At(call[d].switch, call[e].machine) # {} => call[d].switch \in call[e].todo
    BY <2>2 DEF VrfBody, ReplaceOK
  <2>4. CopyOf(sw[call[d].twin], call[d].new)'
    BY <1>2, <2>2, <2>3 DEF CopyOf
  <2>5. ASSUME NEW e \in Calls, Current(e)', (At(call[d].switch, call[e].machine) # {})'
        PROVE  call[d].switch \in call'[e].todo
    <3>1. At(call[d].switch, call'[e].machine) # {}
      BY <1>2, <2>2, <2>5 DEF At, PortsOf
    <3>2. CASE e \in Calls \ W
      BY <1>3, <2>3, <2>5, <3>1, <3>2
    <3>3. CASE e \in W
      BY <2>2, <2>3, <2>5, <3>1, <3>3
    <3> QED BY <3>2, <3>3
  <2>6. \A e \in Calls : (Current(e) /\ At(call[d].switch, call[e].machine) # {} => call[d].switch \in call[e].todo)'
    BY <2>2, <2>5
  <2> QED BY <2>4, <2>6 DEF ReplaceOK
<1>6. ASSUME NEW d \in Calls \ W PROVE BeatOK(d)' /\ CarryOK(d)'
  <2>1. BeatOK(d) /\ CarryOK(d)
    BY DEF VrfBody
  <2>2. BeatOK(d)'
    BY <1>1, <2>1, SameWork DEF BeatOK
  <2>3. CarryOK(d)'
    BY <1>1, <1>2, <2>1, SameWork DEF CarryOK, Migrating
  <2> QED BY <2>2, <2>3
<1> QED BY <1>4, <1>5, <1>6

LEMMA RowsFitNext ==
  ASSUME TypeInv', PortInv', NEW s \in Switches, NEW x \in RowsAt(s)'
  PROVE  x \in RowType /\ Fits(x)
<1>1. CASE x = sw'[s] /\ x # None
  <2>1. s \in There' /\ sw'[s] \in RowType
    BY <1>1 DEF There, TypeInv, TypeOK
  <2> QED BY <1>1, <2>1 DEF PortInv
<1>2. ASSUME NEW d \in Calls, call'[d].pc = "migrateNew", x = call'[d].oldRow PROVE x \in RowType /\ Fits(x)
  <2>1. call'[d] \in MigrateCall
    BY <1>2, CallShapes DEF TypeInv, Migrating
  <2> QED BY <1>2, <2>1 DEF PortInv, CallFits, MigrateCall
<1> QED BY <1>1, <1>2 DEF RowsAt

SameVrfs ==
    \A m \in Machines : machine'[m].vrf = machine[m].vrf /\ machine'[m].up = machine[m].up /\ machine'[m].stuck = machine[m].stuck

\* The vrfs of a machine that changes neither ports nor vrf, and whose resets stay pending.
LEMMA MachineVrfStays ==
  ASSUME mishap \subseteq mishap', NEW s, NEW t, NEW x, NEW y, NEW m \in Machines, MachineVrf(t, x, m),
         PortsOf(y, m) = PortsOf(x, m), \A p \in PortsOf(y, m) : y.nics[p].vrf = x.nics[p].vrf,
         machine'[m].vrf = machine[m].vrf, machine[m].stuck \subseteq machine'[m].stuck,
         Exact' /\ machine'[m].up => machine[m].up \/ InVrf(x, m, machine[m].vrf),
         \A v : PortsOf(x, m) # {} => \A d \in Calls : Pending(d, t, m, v) =>
                   v \in machine'[m].stuck \/ \E e \in Calls : Pending(e, s, m, v)'
  PROVE  MachineVrf(s, y, m)'
<1>1. Exact' => Exact
  BY DEF Exact, Unless
<1>2. ASSUME NEW p \in PortsOf(y, m)
      PROVE  \/ y.nics[p].vrf \in {None, machine'[m].vrf} \cup machine'[m].stuck
             \/ \E c \in Calls : Pending(c, s, m, y.nics[p].vrf)'
  <2>1. \/ x.nics[p].vrf \in {None, machine[m].vrf} \cup machine[m].stuck
        \/ \E c \in Calls : Pending(c, t, m, x.nics[p].vrf)
    BY <1>2 DEF MachineVrf
  <2> QED BY <1>2, <2>1
<1>3. Exact' /\ machine'[m].up => InVrf(y, m, machine'[m].vrf)
  BY <1>1 DEF MachineVrf, InVrf
<1>4. /\ PortsOf(y, m)' = PortsOf(y, m) /\ (InVrf(y, m, machine[m].vrf) <=> InVrf(y, m, machine[m].vrf)')
  BY DEF PortsOf, InVrf
<1> QED BY <1>2, <1>3, <1>4 DEF MachineVrf

LEMMA CopySound ==
  ASSUME SameVrfs, mishap \subseteq mishap', NEW s, NEW t,
         NEW x \in RowType, NEW y \in RowType, Fits(x), Fits(y), CopyOf(x, y), RowVrf(t, x),
         \A m \in Machines : \A v : PortsOf(x, m) # {} => \A d \in Calls : Pending(d, t, m, v) => Pending(d, s, m, v)'
  PROVE  RowVrf(s, y)'
<1>1. /\ \A m \in Machines : PortsOf(y, m) = PortsOf(x, m)
      /\ \A m \in Machines : \A p \in PortsOf(y, m) : y.nics[p].vrf = x.nics[p].vrf
      /\ VacantVrf(x) => VacantVrf(y)
  BY CopyVrf
<1>2. ASSUME NEW m \in Machines PROVE MachineVrf(s, y, m)'
  <2>1. MachineVrf(t, x, m)
    BY DEF RowVrf
  <2>2. /\ PortsOf(y, m) = PortsOf(x, m)
        /\ \A p \in PortsOf(y, m) : y.nics[p].vrf = x.nics[p].vrf
    BY <1>1
  <2>3. /\ machine'[m].vrf = machine[m].vrf /\ machine[m].stuck \subseteq machine'[m].stuck
        /\ Exact' /\ machine'[m].up => machine[m].up \/ InVrf(x, m, machine[m].vrf)
    BY DEF SameVrfs
  <2>4. \A v : PortsOf(x, m) # {} => \A d \in Calls : Pending(d, t, m, v) =>
                 v \in machine'[m].stuck \/ \E e \in Calls : Pending(e, s, m, v)'
    OBVIOUS
  <2> QED BY <2>1, <2>2, <2>3, <2>4, MachineVrfStays
<1>3. VacantVrf(y)'
  BY <1>1 DEF RowVrf, VacantVrf, NoMachine
<1> QED BY <1>2, <1>3 DEF RowVrf

LEMMA EmptySound ==
  ASSUME NEW s, NEW y, y.conns = {}
  PROVE  RowVrf(s, y)'
  BY NoConnsVrf DEF RowVrf, VacantVrf, MachineVrf, InVrf

\* The row y of switch s is not connected, or a copy of a row that had these vrfs before a step wrote S.
Comes(s, y, S) ==
    \/ y.conns = {}
    \/ \E t \in Switches : \E x \in RowsAt(t) :
         /\ CopyOf(x, y)
         /\ \A d \in Calls : Current(d) /\ call[d].todo \cap S = {} /\ s \notin call[d].todo =>
              t \notin call[d].todo \/ PortsOf(y, call[d].machine) = {}

\* Steps of calls that set no vrf.
LEMMA QuietVrf ==
  ASSUME TypeInv, PortInv, TypeInv', PortInv', VrfBody, mishap \subseteq mishap', SameVrfs,
         NEW W \in SUBSET Calls, NEW S \in SUBSET Switches, Frame(W, S),
         \A c \in W : /\ call[c].pc \notin Setting /\ call'[c].pc \notin Setting
                      /\ ReplaceOK(c)' /\ BeatOK(c)' /\ CarryOK(c)'
                      /\ call'[c].pc = "migrateNew" /\ call'[c].new \in call'[c].held =>
                           Comes(call'[c].new, call'[c].oldRow, S),
         \A s \in S : sw'[s] # None => Comes(s, sw'[s], S)
  PROVE  VrfBody'
<1>1. \A d \in Calls \ W : SameCall(call[d], call'[d], S) /\ call[d] \in CallType
  BY DEF Frame, TypeInv
<1>2. \A c \in W : \A s, m, v : ~Pending(c, s, m, v)
  BY DEF Pending
<1>3. ASSUME NEW s \in Switches, NEW y \in RowsAt(s)' PROVE Comes(s, y, S)
  <2>1. CASE y \in RowsAt(s)
    <3>1. CopyOf(y, y)
      BY CopyItself
    <3> QED BY <2>1, <3>1 DEF Comes
  <2>2. CASE s \in S /\ y = sw'[s] /\ y # None
    BY <2>2
  <2>3. ASSUME NEW c \in W, call'[c].pc = "migrateNew", call'[c].new = s, s \in call'[c].held, y = call'[c].oldRow
        PROVE  Comes(s, y, S)
    BY <2>3
  <2> QED BY <2>1, <2>2, <2>3, RowsFrom
<1>4. ASSUME NEW s \in Switches, NEW y \in RowsAt(s)'
      PROVE  /\ RowVrf(s, y)'
             /\ \A d \in Calls : Exact /\ Current(d) /\ call[d].todo \cap S = {} /\ s \notin call[d].todo =>
                  InVrf(y, call[d].machine, call[d].vrf)
  <2>1. y \in RowType /\ Fits(y) /\ Comes(s, y, S)
    BY <1>3, RowsFitNext
  <2>2. \A d \in Calls : Current(d) => call[d].machine \in Machines
    BY CallShapes DEF Current, TypeInv, SetCall
  <2>3. CASE y.conns = {}
    <3>1. \A m \in Machines : PortsOf(y, m) = {}
      BY <2>3, NoConnsVrf
    <3> QED BY <2>2, <2>3, <3>1, EmptySound DEF InVrf
  <2>4. ASSUME NEW t \in Switches, NEW x \in RowsAt(t), CopyOf(x, y),
               \A d \in Calls : Current(d) /\ call[d].todo \cap S = {} /\ s \notin call[d].todo =>
                 t \notin call[d].todo \/ PortsOf(y, call[d].machine) = {}
        PROVE  /\ RowVrf(s, y)'
               /\ \A d \in Calls : Exact /\ Current(d) /\ call[d].todo \cap S = {} /\ s \notin call[d].todo =>
                    InVrf(y, call[d].machine, call[d].vrf)
    <3>1. x \in RowType /\ Fits(x) /\ RowVrf(t, x)
      BY RowsFit DEF VrfBody
    <3>2. RowVrf(s, y)'
      <4>1. \A m \in Machines : PortsOf(y, m) = PortsOf(x, m)
        BY <2>1, <2>4, <3>1, CopyVrf
      <4>2. ASSUME NEW m \in Machines, NEW v, PortsOf(x, m) # {}, NEW d \in Calls, Pending(d, t, m, v)
            PROVE  Pending(d, s, m, v)'
        <5>1. d \in Calls \ W /\ call[d].machine = m
          BY <1>2, <4>2 DEF Pending
        <5>2. Current(d) /\ call[d].todo \cap S = {} /\ s \notin call[d].todo => t \notin call[d].todo
          BY <2>4, <4>1, <4>2, <5>1
        <5> QED BY <4>2, <5>1, <5>2, PendingStays
      <4> QED BY <2>1, <2>4, <3>1, <4>2, CopySound
    <3>3. /\ \A m \in Machines : PortsOf(y, m) = PortsOf(x, m)
          /\ \A m \in Machines : \A p \in PortsOf(y, m) : y.nics[p].vrf = x.nics[p].vrf
      BY <2>1, <2>4, <3>1, CopyVrf
    <3>4. ASSUME NEW d \in Calls, Exact, Current(d), call[d].todo \cap S = {}, s \notin call[d].todo
          PROVE  InVrf(y, call[d].machine, call[d].vrf)
      <4>1. CASE PortsOf(y, call[d].machine) = {}
        BY <4>1 DEF InVrf
      <4>2. CASE t \notin call[d].todo
        <5>1. InVrf(x, call[d].machine, call[d].vrf)
          BY <2>4, <3>4, <4>2 DEF VrfBody, SetOK
        <5> QED BY <2>2, <3>3, <3>4, <5>1 DEF InVrf
      <4> QED BY <2>4, <3>4, <4>1, <4>2
    <3> QED BY <3>2, <3>4
  <2> QED BY <2>1, <2>3, <2>4 DEF Comes
<1>5. ASSUME NEW d \in Calls \ W PROVE Vowed(d)
  <2>1. call[d].pc \in Setting => machine'[call[d].machine].vrf = machine[call[d].machine].vrf
    BY <1>1, SameWork DEF SameVrfs
  <2> QED BY <2>1, VowKept DEF Vowed
<1>6. \A c \in W : SetOK(c)' /\ ~Current(c)'
  BY DEF SetOK, Current, Setting
<1>10. Exact' => Exact
  BY DEF Exact, Unless
<1>7. \A d \in Calls \ W : SetOK(d)' /\ ReplaceOK(d)' /\ BeatOK(d)' /\ CarryOK(d)'
  BY <1>4, <1>5, <1>6, <1>10, OthersVrf
<1>8. \A m \in Machines : machine'[m].up => machine'[m].vrf # None
  BY DEF VrfBody, SameVrfs
<1>9. \A c \in Calls : SetOK(c)' /\ ReplaceOK(c)' /\ BeatOK(c)' /\ CarryOK(c)'
  BY <1>6, <1>7
<1> QED BY <1>4, <1>8, <1>9 DEF VrfBody

\* A step that happens between calm states.
Quietly == TypeInv /\ PortInv /\ VrfBody /\ TypeInv' /\ PortInv' /\ mishap \subseteq mishap' /\ mishap' \subseteq {"overtaken"}

LEMMA GoQuiet ==
  ASSUME Quietly, SameVrfs, NEW c \in Calls, Frame({c}, {}), call[c].pc \notin Setting,
         call'[c].pc \notin Setting \cup {"replace", "beat"} \cup Migrating
  PROVE  VrfBody'
<1>1. ReplaceOK(c)' /\ BeatOK(c)' /\ CarryOK(c)' /\ call'[c].pc # "migrateNew"
  BY DEF ReplaceOK, BeatOK, CarryOK, Migrating
<1>2. {c} \in SUBSET Calls /\ {} \in SUBSET Switches
  OBVIOUS
<1> QED BY <1>1, <1>2, QuietVrf DEF Quietly

\* A call writes a row whose ports have the vrfs of before, and ends.
LEMMA PutQuiet ==
  ASSUME Quietly, UNCHANGED machine, NEW c \in Calls, NEW s \in Switches, NEW row \in RowType \cup {None},
         Put(c, s, row, Idle), call[c].pc \notin Setting,
         row # None => row.conns = {} \/ Comes(s, row, {s})
  PROVE  VrfBody'
<1>1. Idle \in CallType /\ Idle.pc = "idle"
  BY CallSteps DEF CallType, FreeCalls
<1>2. Frame({c}, {s}) /\ sw'[s] = row /\ call'[c].pc = "idle"
  BY <1>1, PutFrame DEF Quietly
<1>3. ReplaceOK(c)' /\ BeatOK(c)' /\ CarryOK(c)'
  BY <1>2 DEF ReplaceOK, BeatOK, CarryOK
<1>4. {c} \in SUBSET Calls /\ {s} \in SUBSET Switches /\ SameVrfs
  BY DEF SameVrfs
<1>5. sw'[s] # None => Comes(s, sw'[s], {s})
  BY <1>2 DEF Comes
<1>6. /\ call[c].pc \notin Setting /\ call'[c].pc \notin Setting
      /\ call'[c].pc = "migrateNew" /\ call'[c].new \in call'[c].held => Comes(call'[c].new, call'[c].oldRow, {s})
  BY <1>2 DEF Setting
<1> QED BY <1>2, <1>3, <1>4, <1>5, <1>6, QuietVrf DEF Quietly

LEMMA CopyComes ==
  ASSUME NEW s \in Switches, sw[s] # None, NEW y, CopyOf(sw[s], y)
  PROVE  Comes(s, y, {s})
<1>1. sw[s] \in RowsAt(s)
  BY DEF RowsAt
<1> QED BY <1>1 DEF Comes

LEMMA QuietCall == /\ \A pc \in Registering : pc \notin Setting \cup {"replace", "beat"} \cup Migrating
                   /\ \A pc \in Migrating : pc \notin Setting \cup {"replace", "beat"}
                   /\ "idle" \notin Setting \cup {"replace", "beat"} \cup Migrating
                   /\ "delete" \notin Setting \cup {"replace", "beat"} \cup Migrating
  BY DEF Registering, Migrating, Setting

LEMMA RegistrationVrf ==
  ASSUME Quietly, LinkBody, NEW c \in Calls,
         \/ \E m \in Machines : RegisterMachine(c, m)
         \/ FormerSwitches(c) \/ Disconnect(c) \/ ReadSwitches(c) \/ (GivesUp(c) /\ call[c].pc \in Registering)
  PROVE  VrfBody'
<1>1. \A k \in NeighborsCall \cup ConnectCall \cup WriteCall : k.pc \in Registering
  BY CallSteps DEF Registering
<1>2. Idle.pc = "idle"
  BY CallSteps
<1>3. ASSUME NEW m \in Machines, RegisterMachine(c, m) PROVE VrfBody'
  <2>1. Frame({c}, {}) /\ call[c] = Idle /\ call'[c] \in NeighborsCall
    BY <1>3, RegisterMachineEffect DEF Quietly
  <2>2. machine' = [machine EXCEPT ![m].nics = cable[m]]
    BY <1>3 DEF RegisterMachine
  <2>3. SameVrfs
    BY <2>2 DEF SameVrfs, Quietly, TypeInv, TypeOK
  <2> QED BY <1>1, <1>2, <2>1, <2>3, QuietCall, GoQuiet
<1>4. UNCHANGED machine => SameVrfs
  BY DEF SameVrfs
<1>5. CASE FormerSwitches(c)
  <2>1. Frame({c}, {}) /\ UNCHANGED machine /\ call[c] \in NeighborsCall /\ call'[c] \in ConnectCall \cup {Idle}
    BY <1>5, FormerSwitchesEffect DEF Quietly
  <2> QED BY <1>1, <1>2, <1>4, <2>1, QuietCall, GoQuiet
<1>6. CASE Disconnect(c)
  <2>1. call[c] \in ConnectCall /\ call[c].pc = "disconnect" /\ UNCHANGED machine
    BY <1>6, DisconnectEffect DEF Quietly
  <2>2. call[c].prev = {}
    BY <2>1 DEF LinkBody, RegOK, Registering
  <2>3. Frame({c}, {}) /\ call'[c] \in ConnectCall
    BY <1>6, <2>2, DisconnectEffect DEF Quietly
  <2> QED BY <1>1, <1>4, <2>1, <2>3, QuietCall, GoQuiet
<1>7. CASE ReadSwitches(c)
  <2>1. Frame({c}, {}) /\ UNCHANGED machine /\ call[c] \in ConnectCall /\ call'[c] \in WriteCall \cup {Idle}
    BY <1>7, ReadSwitchesEffect DEF Quietly
  <2> QED BY <1>1, <1>2, <1>4, <2>1, QuietCall, GoQuiet
<1>8. CASE GivesUp(c) /\ call[c].pc \in Registering
  <2>1. Frame({c}, {}) /\ UNCHANGED machine /\ call'[c] \in NeighborsCall \cup {Idle}
    BY <1>8 DEF GivesUp
  <2> QED BY <1>1, <1>2, <1>4, <1>8, <2>1, QuietCall, GoQuiet
<1> QED BY <1>3, <1>5, <1>6, <1>7, <1>8

LEMMA CreateSwitchVrf ==
  ASSUME Quietly, NEW c \in Calls, NEW s \in Switches, NEW report \in Reports[s], CreateSwitch(c, s, report)
  PROVE  VrfBody'
<1>1. /\ report \in RowType /\ report.conns = {}
      /\ Put(c, s, report, Idle) /\ call[c].pc = "idle" /\ UNCHANGED machine
  BY ReportRow, CallSteps DEF CreateSwitch, Begin
<1> QED BY <1>1, QuietCall, PutQuiet

LEMMA UpdateSwitchVrf ==
  ASSUME Quietly, NEW c \in Calls, NEW s \in Switches, NEW report \in Reports[s], UpdateSwitch(c, s, report)
  PROVE  VrfBody'
<1>1. sw[s] \in RowType /\ sw[s] # None /\ call[c].pc = "idle" /\ UNCHANGED machine
  BY UpdateSwitchWrites DEF UpdateSwitch, Quietly
<1>2. PICK mode \in {"operational", "replace"} : Put(c, s, Updated(sw[s], report, mode), Idle)
  BY UpdateSwitchWrites DEF Quietly
<1> DEFINE row == Updated(sw[s], report, mode)
<1>3. /\ row \in RowType /\ row.conns = sw[s].conns /\ DOMAIN row.nics = DOMAIN report.nics
      /\ \A p \in DOMAIN report.nics : row.nics[p] = IF p \in DOMAIN sw[s].nics THEN sw[s].nics[p] ELSE report.nics[p]
  BY <1>1, ReportRow, UpdatedRow
<1>4. \A p \in DOMAIN report.nics : report.nics[p].vrf = None
  BY ReportRow
<1>5. Put(c, s, row, Idle)
  BY <1>2
<1> HIDE DEF row
<1>6. CopyOf(sw[s], row)
  BY <1>3, <1>4 DEF CopyOf
<1>7. Comes(s, row, {s})
  BY <1>1, <1>6, CopyComes
<1> QED BY <1>1, <1>3, <1>5, <1>7, QuietCall, PutQuiet

LEMMA SetReplaceModeVrf ==
  ASSUME Quietly, NEW c \in Calls, NEW s \in Switches, NEW mode \in {"operational", "replace"}, SetReplaceMode(c, s, mode)
  PROVE  VrfBody'
<1> DEFINE row == [sw[s] EXCEPT !.mode = mode]
<1>1. sw[s] \in RowType /\ sw[s] # None /\ Put(c, s, row, Idle) /\ call[c].pc = "idle" /\ UNCHANGED machine
  BY CallSteps DEF SetReplaceMode, Begin, Quietly, TypeInv, TypeOK
<1>2. row \in RowType /\ row.conns = sw[s].conns /\ row.nics = sw[s].nics
  BY <1>1 DEF RowType
<1> HIDE DEF row
<1>3. Comes(s, row, {s})
  BY <1>1, <1>2, CopyComes DEF CopyOf
<1> QED BY <1>1, <1>2, <1>3, QuietCall, PutQuiet

LEMMA PortVrf ==
  ASSUME Quietly, NEW c \in Calls, NEW s \in Switches, NEW p \in Ports, NEW status \in {"up", "down"}, Port(c, s, p, status)
  PROVE  VrfBody'
<1> DEFINE nics == [sw[s].nics EXCEPT ![p].desired = status]
           row == [sw[s] EXCEPT !.nics = nics]
<1>1. /\ sw[s] \in RowType /\ sw[s] # None /\ p \in DOMAIN sw[s].nics /\ call[c].pc = "idle" /\ UNCHANGED machine
      /\ Put(c, s, row, Idle)
  BY CallSteps DEF Port, Begin, Quietly, TypeInv, TypeOK
<1>2. DOMAIN sw[s].nics \in SUBSET Ports /\ \A q \in DOMAIN sw[s].nics : sw[s].nics[q] \in NicType
  BY <1>1, RowShape
<1>3. \A k \in NicType : [k EXCEPT !.desired = status] \in NicType /\ [k EXCEPT !.desired = status].vrf = k.vrf
  BY DEF NicType
<1>4. sw[s].nics \in [DOMAIN sw[s].nics -> NicType]
  BY <1>1, <1>2 DEF RowType, NicsType
<1>5. /\ nics \in [DOMAIN sw[s].nics -> NicType] /\ DOMAIN nics = DOMAIN sw[s].nics
      /\ \A q \in DOMAIN sw[s].nics : nics[q].vrf = sw[s].nics[q].vrf
  BY <1>1, <1>3, <1>4
<1>6. nics \in NicsType
  BY <1>2, <1>5, RowShape
<1> HIDE DEF nics
<1>7. row \in RowType /\ row.conns = sw[s].conns /\ row.nics = nics
  BY <1>1, <1>6 DEF RowType
<1> HIDE DEF row
<1>8. Comes(s, row, {s})
  BY <1>1, <1>5, <1>7, CopyComes DEF CopyOf
<1> QED BY <1>1, <1>7, <1>8, QuietCall, PutQuiet

LEMMA HeartbeatVrf ==
  ASSUME Quietly, NEW c \in Calls, NEW s \in Switches, NEW actual \in [Ports -> {"up", "down"}], Heartbeat(c, s, actual)
  PROVE  VrfBody'
<1> DEFINE next == [p \in DOMAIN sw[s].nics |-> NewNicState(sw[s].nics[p], actual[p])]
           rec == [pc |-> "beat", switch |-> s, read |-> sw[s].nics, next |-> next]
<1>1. sw[s] \in RowType /\ Go(c, rec) /\ call[c].pc = "idle" /\ UNCHANGED <<sw, machine>>
  BY CallSteps DEF Heartbeat, Begin, Quietly, TypeInv, TypeOK, rows
<1>2. DOMAIN sw[s].nics \in SUBSET Ports /\ \A q \in DOMAIN sw[s].nics : sw[s].nics[q] \in NicType
  BY <1>1, RowShape
<1>3. \A k \in NicType, state \in {"up", "down"} : NewNicState(k, state) \in NicType /\ NewNicState(k, state).vrf = k.vrf
  BY DEF NicType, NewNicState
<1>4. /\ next \in [DOMAIN sw[s].nics -> NicType] /\ DOMAIN next = DOMAIN sw[s].nics
      /\ \A p \in DOMAIN sw[s].nics : next[p].vrf = sw[s].nics[p].vrf
  BY <1>2, <1>3
<1>5. next \in NicsType /\ sw[s].nics \in NicsType
  BY <1>1, <1>2, <1>4, RowShape
<1> HIDE DEF next
<1>6. /\ rec \in BeatCall /\ rec.pc = "beat" /\ DOMAIN rec.next = DOMAIN rec.read
      /\ \A p \in DOMAIN rec.read : rec.next[p].vrf = rec.read[p].vrf
  BY <1>4, <1>5 DEF BeatCall
<1> HIDE DEF rec
<1>7. Frame({c}, {}) /\ call'[c] = rec
  BY <1>1, <1>6, GoFrame DEF CallType, FreeCalls, Quietly
<1>8. ReplaceOK(c)' /\ BeatOK(c)' /\ CarryOK(c)'
  BY <1>6, <1>7 DEF ReplaceOK, BeatOK, CarryOK
<1>9. {c} \in SUBSET Calls /\ {} \in SUBSET Switches /\ SameVrfs
  BY <1>1 DEF SameVrfs
<1>10. call[c].pc \notin Setting /\ call'[c].pc \notin Setting \cup {"migrateNew"}
  BY <1>1, <1>6, <1>7 DEF Setting
<1> QED BY <1>1, <1>7, <1>8, <1>9, <1>10, QuietVrf DEF Quietly

LEMMA HeartbeatWriteVrf ==
  ASSUME Quietly, NEW c \in Calls, HeartbeatWrite(c)
  PROVE  VrfBody'
<1> DEFINE s == call[c].switch
<1>1. /\ call[c] \in BeatCall /\ call[c].pc = "beat" /\ UNCHANGED machine /\ s \in Switches
      /\ call[c].next \in NicsType
  BY CallShapes DEF HeartbeatWrite, Quietly, TypeInv, BeatCall
<1>2. CASE Finish(c) /\ UNCHANGED sw
  <2>1. Frame({c}, {}) /\ call'[c].pc = "idle" /\ SameVrfs
    BY <1>1, <1>2, FinishFrame, CallSteps DEF SameVrfs, Quietly
  <2>2. call[c].pc \notin Setting
    BY <1>1 DEF Setting
  <2> QED BY <2>1, <2>2, QuietCall, GoQuiet
<1>3. CASE /\ s \in There
           /\ Put(c, s, [sw[s] EXCEPT !.nics = call[c].next], Idle)
           /\ Happened("stale", sw[s].nics # call[c].read)
  <2> DEFINE row == [sw[s] EXCEPT !.nics = call[c].next]
  <2>1. sw[s] \in RowType /\ sw[s] # None /\ Put(c, s, row, Idle)
    BY <1>1, <1>3 DEF Quietly, TypeInv, TypeOK, There
  <2>2. row \in RowType /\ row.conns = sw[s].conns /\ row.nics = call[c].next
    BY <1>1, <2>1 DEF RowType
  <2> HIDE DEF row
  <2>3. sw[s].nics = call[c].read
    BY <1>3 DEF Happened, Quietly
  <2>4. BeatOK(c)
    BY DEF Quietly, VrfBody
  <2>5. CopyOf(sw[s], row)
    BY <1>1, <2>2, <2>3, <2>4 DEF BeatOK, CopyOf
  <2>6. Comes(s, row, {s})
    BY <1>1, <2>1, <2>5, CopyComes
  <2>7. call[c].pc \notin Setting
    BY <1>1 DEF Setting
  <2> QED BY <1>1, <2>1, <2>2, <2>6, <2>7, PutQuiet
<1> QED BY <1>2, <1>3 DEF HeartbeatWrite

LEMMA DeleteVrf ==
  ASSUME Quietly, NEW c \in Calls,
         (\E s \in Switches : Delete(c, s) \/ ForceDelete(s)) \/ DeleteWrite(c)
  PROVE  VrfBody'
<1>1. ASSUME NEW s \in Switches, Delete(c, s) PROVE VrfBody'
  <2> DEFINE rec == [pc |-> "delete", switch |-> s]
  <2>1. rec \in DeleteCall /\ rec.pc = "delete" /\ rec \in CallType
    BY DEF DeleteCall, CallType, FreeCalls
  <2>2. Go(c, rec) /\ UNCHANGED <<sw, machine>> /\ call[c].pc = "idle"
    BY <1>1, CallSteps DEF Delete, Begin, rows
  <2> HIDE DEF rec
  <2>3. Frame({c}, {}) /\ call'[c].pc = "delete" /\ SameVrfs
    BY <2>1, <2>2, GoFrame DEF SameVrfs, Quietly
  <2> QED BY <2>2, <2>3, QuietCall, GoQuiet
<1>2. ASSUME NEW s \in Switches, ForceDelete(s) PROVE VrfBody'
  BY <1>2 DEF ForceDelete, Quietly
<1>3. CASE DeleteWrite(c)
  <2>1. call[c].switch \in Switches /\ Put(c, call[c].switch, None, Idle) /\ call[c].pc = "delete" /\ UNCHANGED machine
    BY <1>3, CallShapes DEF DeleteWrite, Quietly, TypeInv, DeleteCall
  <2>2. call[c].pc \notin Setting
    BY <2>1 DEF Setting
  <2> QED BY <2>1, <2>2, PutQuiet
<1> QED BY <1>1, <1>2, <1>3

LEMMA ReplaceVrf ==
  ASSUME Quietly, NEW c \in Calls, NEW s \in Switches, NEW report \in Reports[s], Replace(c, s, report)
  PROVE  VrfBody'
<1>1. /\ sw[s] # None /\ UNCHANGED <<sw, machine>> /\ Happened("stale", Someone({"set"})) /\ call[c].pc = "idle"
  BY CallSteps DEF Replace, Begin, rows
<1>2. PICK t \in Twins(s) : Go(c, [pc |-> "replace", switch |-> s, held |-> {s, t},
                                   new |-> Adopt(sw[t], report.nics), twin |-> t])
  BY DEF Replace
<1>3. t \in There /\ t \in Switches /\ s \in There /\ sw[t] \in RowType
  BY <1>1, <1>2 DEF Twins, There, Quietly, TypeInv, TypeOK
<1> DEFINE row == Adopt(sw[t], report.nics)
           rec == [pc |-> "replace", switch |-> s, held |-> {s, t}, new |-> row, twin |-> t]
<1>4. report.nics \in NicsType /\ \A p \in DOMAIN report.nics : report.nics[p].vrf = None
  BY ReportRow, RowShape
<1>5. row \in RowType /\ CopyOf(sw[t], row)
  BY <1>3, <1>4, AdoptRow DEF CopyOf
<1>6. Go(c, rec)
  BY <1>2
<1> HIDE DEF row
<1>7. rec \in ReplaceCall /\ rec.pc = "replace" /\ rec.new = row /\ rec.twin = t
  BY <1>3, <1>5 DEF ReplaceCall
<1> HIDE DEF rec
<1>8. Frame({c}, {}) /\ call'[c] = rec
  BY <1>1, <1>6, <1>7, GoFrame DEF CallType, HeldCalls, Quietly
<1>9. \A d \in Calls : call[d].pc # "set"
  BY <1>1 DEF Happened, Someone, Quietly
<1>10. \A d \in Calls : call'[d].pc # "set"
  <2>1. \A d \in Calls \ {c} : call'[d].pc = call[d].pc
    BY <1>8 DEF Frame, SameCall
  <2> QED BY <1>7, <1>8, <1>9, <2>1
<1>11. ReplaceOK(c)'
  BY <1>1, <1>5, <1>7, <1>8, <1>10 DEF ReplaceOK, Current
<1>12. BeatOK(c)' /\ CarryOK(c)' /\ call[c].pc \notin Setting /\ call'[c].pc \notin Setting \cup {"migrateNew"}
  BY <1>1, <1>7, <1>8 DEF BeatOK, CarryOK, Setting
<1>13. {c} \in SUBSET Calls /\ {} \in SUBSET Switches /\ SameVrfs
  BY <1>1 DEF SameVrfs
<1> QED BY <1>1, <1>8, <1>11, <1>12, <1>13, QuietVrf DEF Quietly

LEMMA ReplaceWriteVrf ==
  ASSUME Quietly, NEW c \in Calls, ReplaceWrite(c)
  PROVE  VrfBody'
<1>1. /\ call[c] \in ReplaceCall /\ call[c].pc = "replace" /\ UNCHANGED machine
      /\ call[c].held \subseteq There /\ call[c].new \in RowType
  BY CallShapes DEF ReplaceWrite, Quietly, TypeInv, HeldCalls, ReplaceCall
<1>2. PICK s \in Switches, t \in Switches : s = call[c].switch /\ t = call[c].twin
  BY <1>1 DEF ReplaceCall
<1>3. CASE /\ s \in call[c].held /\ Put(c, s, call[c].new, Idle)
           /\ mishap' = mishap \cup (IF call[c].new.conns = sw[s].conns THEN {} ELSE {"moved"})
                               \cup (IF call[c].twin \in call[c].held THEN {} ELSE {"stale"})
  <2>1. call[c].new.conns = sw[s].conns /\ t \in call[c].held
    BY <1>2, <1>3 DEF Quietly
  <2>2. /\ CopyOf(sw[t], call[c].new) /\ sw[t] \in RowsAt(t) /\ sw[s] # None
        /\ \A d \in Calls : Current(d) /\ At(s, call[d].machine) # {} => s \in call[d].todo
    BY <1>1, <1>2, <1>3, <2>1 DEF Quietly, VrfBody, ReplaceOK, RowsAt, There
  <2>3. \A d \in Calls : Current(d) /\ s \notin call[d].todo => PortsOf(call[c].new, call[d].machine) = {}
    BY <2>1, <2>2 DEF At, PortsOf
  <2>4. Comes(s, call[c].new, {s})
    BY <2>2, <2>3 DEF Comes
  <2>5. call[c].pc \notin Setting
    BY <1>1 DEF Setting
  <2> QED BY <1>1, <1>3, <2>4, <2>5, PutQuiet
<1>4. CASE Finish(c) /\ UNCHANGED sw
  <2>1. Frame({c}, {}) /\ call'[c].pc = "idle" /\ SameVrfs
    BY <1>1, <1>4, FinishFrame, CallSteps DEF SameVrfs, Quietly
  <2>2. call[c].pc \notin Setting
    BY <1>1 DEF Setting
  <2> QED BY <2>1, <2>2, QuietCall, GoQuiet
<1> QED BY <1>2, <1>3, <1>4 DEF ReplaceWrite

LEMMA AbandonsVrf ==
  ASSUME Quietly, NEW c \in Calls, Abandons(c)
  PROVE  VrfBody'
  BY DEF Quietly, Abandons

LEMMA MigrateVrf ==
  ASSUME Quietly, NEW c \in Calls, NEW old \in Switches, NEW new \in Switches, Migrate(c, old, new)
  PROVE  VrfBody'
<1>1. /\ call[c].pc = "idle" /\ Frame({c}, {}) /\ UNCHANGED <<sw, machine>>
      /\ call'[c].pc = "neigh" /\ call'[c].old = old /\ call'[c].oldRow = sw[old]
  BY MigrateEffect, CallSteps DEF Quietly
<1>2. ReplaceOK(c)' /\ BeatOK(c)' /\ CarryOK(c)'
  BY <1>1 DEF ReplaceOK, BeatOK, CarryOK
<1>3. {c} \in SUBSET Calls /\ {} \in SUBSET Switches /\ SameVrfs
  BY <1>1 DEF SameVrfs
<1>4. call[c].pc \notin Setting /\ call'[c].pc \notin Setting \cup {"migrateNew"}
  BY <1>1 DEF Setting
<1> QED BY <1>1, <1>2, <1>3, <1>4, QuietVrf DEF Quietly

LEMMA MigrateMachineVrf ==
  ASSUME Quietly, NEW c \in Calls, MigrateMachine(c)
  PROVE  VrfBody'
<1>1. /\ call[c].pc = "neigh" /\ Frame({c}, {}) /\ UNCHANGED sw /\ SameMigration(call[c], call'[c])
      /\ call'[c].pc \in {"neigh", "migrateOld"}
  BY MigrateMachineEffect DEF Quietly
<1>2. SameVrfs
  <2>1. \A m, nics : m \in Machines /\ machine' = [machine EXCEPT ![m].nics = nics] => SameVrfs
    BY DEF SameVrfs, Quietly, TypeInv, TypeOK
  <2>2. call[c].todo \subseteq Machines
    BY <1>1, CallShapes DEF Quietly, TypeInv, Migrating, MigrateCall
  <2>3. UNCHANGED machine => SameVrfs
    BY DEF SameVrfs
  <2> QED BY <2>1, <2>2, <2>3 DEF MigrateMachine
<1>3. CarryOK(c)
  BY DEF Quietly, VrfBody
<1>4. ReplaceOK(c)' /\ BeatOK(c)' /\ CarryOK(c)'
  BY <1>1, <1>3 DEF ReplaceOK, BeatOK, CarryOK, SameMigration
<1>5. {c} \in SUBSET Calls /\ {} \in SUBSET Switches /\ call[c].pc \notin Setting /\ call'[c].pc \notin Setting \cup {"migrateNew"}
  BY <1>1 DEF Setting
<1> QED BY <1>1, <1>2, <1>4, <1>5, QuietVrf DEF Quietly

\* The ports of the old switch go to the new one with their vrfs.
LEMMA MigrateOldVrf ==
  ASSUME Quietly, NEW c \in Calls, MigrateOld(c)
  PROVE  VrfBody'
<1>1. call[c] \in MigrateCall /\ call[c].pc = "migrateOld" /\ call[c].held \subseteq There
  BY MigrateOldEffect DEF Quietly, TypeInv, HeldCalls
<1>2. PICK old \in Switches, new \in Switches : old = call[c].old /\ new = call[c].new
  BY <1>1 DEF MigrateCall
<1>3. CASE /\ Frame({c}, {call[c].old}) /\ UNCHANGED machine
           /\ call[c].old \in call[c].held
           /\ sw'[call[c].old].conns = {}
           /\ SameMigration(call[c], call'[c]) /\ call'[c].pc = "migrateNew"
  <2>1. /\ sw[old] = call[c].oldRow /\ sw[old] # None
        /\ call'[c].new = new /\ call'[c].oldRow = sw[old]
    BY <1>1, <1>2, <1>3 DEF Quietly, VrfBody, CarryOK, SameMigration, There
  <2>2. sw[old] \in RowsAt(old)
    BY <2>1 DEF RowsAt
  <2>3. Comes(new, sw[old], {old})
    BY <2>2, CopyItself DEF Comes
  <2>4. ReplaceOK(c)' /\ BeatOK(c)' /\ CarryOK(c)'
    BY <1>3 DEF ReplaceOK, BeatOK, CarryOK
  <2>5. {c} \in SUBSET Calls /\ {old} \in SUBSET Switches /\ SameVrfs
    BY <1>3 DEF SameVrfs
  <2>6. Comes(old, sw'[old], {old})
    BY <1>2, <1>3 DEF Comes
  <2>7. Comes(call'[c].new, call'[c].oldRow, {old})
    BY <2>1, <2>3
  <2>8. call[c].pc \notin Setting /\ call'[c].pc \notin Setting /\ Frame({c}, {old})
    BY <1>1, <1>2, <1>3 DEF Setting
  <2> QED BY <2>4, <2>5, <2>6, <2>7, <2>8, QuietVrf DEF Quietly
<1> QED BY <1>3, MigrateOldEffect, AbandonsVrf DEF Quietly

LEMMA MigrateNewVrf ==
  ASSUME Quietly, NEW c \in Calls, MigrateNew(c)
  PROVE  VrfBody'
<1>1. call[c] \in MigrateCall /\ call[c].pc = "migrateNew" /\ UNCHANGED machine /\ call[c].held \subseteq There
  BY CallShapes DEF MigrateNew, Quietly, TypeInv, Migrating, HeldCalls
<1>2. PICK new \in Switches, x \in RowType : new = call[c].new /\ x = call[c].oldRow
  BY <1>1 DEF MigrateCall
<1> DEFINE row == Adopt(x, sw[new].nics)
<1>3. CASE /\ new \in call[c].held
           /\ Put(c, new, row, Idle)
           /\ Happened("left", x.conns # {} /\ LeftOver(sw[new], DOMAIN sw[new].nics \ DOMAIN x.nics))
  <2>1. sw[new] \in RowType /\ sw[new].nics \in NicsType /\ x \in RowsAt(new)
    BY <1>1, <1>2, <1>3, RowShape DEF There, Quietly, TypeInv, TypeOK, RowsAt
  <2>2. /\ row \in RowType /\ row.conns = x.conns /\ DOMAIN row.nics = DOMAIN sw[new].nics
        /\ \A p \in DOMAIN sw[new].nics :
             row.nics[p].vrf = IF p \in DOMAIN x.nics THEN x.nics[p].vrf ELSE sw[new].nics[p].vrf
    BY <2>1, AdoptRow
  <2>3. Put(c, new, row, Idle)
    BY <1>3
  <2> HIDE DEF row
  <2>4. x.conns = {} \/ ~LeftOver(sw[new], DOMAIN sw[new].nics \ DOMAIN x.nics)
    BY <1>3 DEF Happened, Quietly
  <2>5. row.conns = {} \/ CopyOf(x, row)
    BY <2>2, <2>4 DEF LeftOver, CopyOf
  <2>6. row.conns = {} \/ Comes(new, row, {new})
    BY <2>1, <2>5 DEF Comes
  <2>7. call[c].pc \notin Setting
    BY <1>1 DEF Setting
  <2> QED BY <1>1, <2>2, <2>3, <2>6, <2>7, PutQuiet
<1>4. CASE Finish(c) /\ Happened("halfway", TRUE)
  BY <1>4 DEF Happened, Quietly
<1> QED BY <1>2, <1>3, <1>4 DEF MigrateNew

\* Steps of the machine and of calls that set a vrf, which write no switch.
LEMMA StillVrf ==
  ASSUME Quietly, NEW W \in SUBSET Calls, Frame(W, {}),
         \A c \in W : /\ call'[c].pc \notin {"replace", "beat"} \cup Migrating /\ SetOK(c)'
                      /\ Current(c)' => \A s \in Switches : At(s, call'[c].machine) # {} => s \in call'[c].todo,
         \A d \in Calls \ W : Vowed(d),
         \A m \in Machines : machine'[m].up => machine'[m].vrf # None,
         \A s \in Switches : \A x \in RowsAt(s) : \A m \in Machines : MachineVrf(s, x, m)'
  PROVE  VrfBody'
<1>1. ASSUME NEW s \in Switches, NEW y \in RowsAt(s)' PROVE y \in RowsAt(s)
  <2>1. {} \in SUBSET Switches /\ TypeInv /\ \A c \in W : call'[c].pc # "migrateNew"
    BY DEF Quietly, Migrating
  <2> QED BY <1>1, <2>1, RowsFrom
<1>2. \A c \in W : ReplaceOK(c)' /\ BeatOK(c)' /\ CarryOK(c)'
  BY DEF ReplaceOK, BeatOK, CarryOK, Migrating
<1>3. Exact' => Exact
  BY DEF Exact, Unless, Quietly
<1>4. \A d \in Calls \ W : Exact' /\ Current(d) =>
        \A s \in Switches \ call[d].todo : \A y \in RowsAt(s)' : InVrf(y, call[d].machine, call[d].vrf)
  BY <1>1, <1>3 DEF Quietly, VrfBody, SetOK
<1>5. \A d \in Calls \ W : SetOK(d)' /\ ReplaceOK(d)' /\ BeatOK(d)' /\ CarryOK(d)'
  BY <1>4, OthersVrf DEF Quietly
<1>6. ASSUME NEW s \in Switches, NEW y \in RowsAt(s)' PROVE RowVrf(s, y)'
  <2>1. y \in RowsAt(s) /\ VacantVrf(y)
    BY <1>1, <1>6 DEF Quietly, VrfBody, RowVrf
  <2>2. VacantVrf(y)'
    BY <2>1 DEF VacantVrf, NoMachine
  <2> QED BY <2>1, <2>2 DEF RowVrf
<1>7. \A c \in Calls : SetOK(c)' /\ ReplaceOK(c)' /\ BeatOK(c)' /\ CarryOK(c)'
  BY <1>2, <1>5
<1> QED BY <1>6, <1>7 DEF VrfBody

\* A call goes on with the same vrf, and has left out switches without ports of the machine only.
LEMMA GoVrf ==
  ASSUME Quietly, SameVrfs, NEW c \in Calls, Frame({c}, {}), call'[c].pc \in Setting, SetOK(c)',
         call[c].pc \in Setting =>
           call'[c].machine = call[c].machine /\ call'[c].vrf = call[c].vrf /\ call'[c].was = call[c].was,
         Current(c)' => \A s \in Switches \ call'[c].todo : \A x \in RowsAt(s) : PortsOf(x, call'[c].machine) = {}
  PROVE  VrfBody'
<1>1. \A d \in Calls \ {c} : SameCall(call[d], call'[d], {}) /\ call[d] \in CallType
  BY DEF Frame, Quietly, TypeInv
<1>2. {c} \in SUBSET Calls /\ {} \in SUBSET Switches /\ TypeInv
  BY DEF Quietly
<1>3. ASSUME NEW s \in Switches, NEW x \in RowsAt(s), NEW m \in Machines PROVE MachineVrf(s, x, m)'
  <2>1. MachineVrf(s, x, m) /\ mishap \subseteq mishap'
    BY <1>3 DEF Quietly, VrfBody, RowVrf
  <2>2. ASSUME NEW v, PortsOf(x, m) # {}, NEW d \in Calls, Pending(d, s, m, v)
        PROVE  Pending(d, s, m, v)'
    <3>1. CASE d # c
      BY <1>2, <2>2, <3>1, PendingStays
    <3>2. CASE d = c
      <4>1. call'[c].machine = m /\ call'[c].vrf = None /\ call'[c].was = v
        BY <2>2, <3>2 DEF Pending
      <4>2. ~(Current(c)' /\ s \notin call'[c].todo)
        BY <1>3, <2>2, <4>1
      <4> QED BY <3>2, <4>1, <4>2 DEF Pending
    <3> QED BY <3>1, <3>2
  <2>3. machine'[m].vrf = machine[m].vrf /\ machine'[m].up = machine[m].up /\ machine'[m].stuck = machine[m].stuck
    BY DEF SameVrfs
  <2> QED BY <2>1, <2>2, <2>3, MachineVrfStays
<1>4. \A m \in Machines : machine'[m].up => machine'[m].vrf # None
  BY DEF Quietly, VrfBody, SameVrfs
<1>5. call'[c].pc \notin {"replace", "beat"} \cup Migrating
  BY DEF Migrating, Setting
<1>6. ASSUME NEW d \in Calls \ {c} PROVE Vowed(d)
  <2>1. call[d].pc \in Setting => machine'[call[d].machine].vrf = machine[call[d].machine].vrf
    BY <1>1, SameWork DEF SameVrfs
  <2> QED BY <2>1, VowKept DEF Vowed, Quietly
<1>7. Current(c)' => \A s \in Switches : At(s, call'[c].machine) # {} => s \in call'[c].todo
  BY DEF At, RowsAt
<1> QED BY <1>2, <1>3, <1>4, <1>5, <1>6, <1>7, StillVrf

\* A call ends, and if it was to reset a vrf the machine keeps it for good.
LEMMA EndsVrf ==
  ASSUME Quietly, NEW c \in Calls, Frame({c}, {}), call'[c].pc = "idle",
         \A n \in Machines : /\ machine'[n].vrf = machine[n].vrf /\ machine[n].stuck \subseteq machine'[n].stuck
                             /\ machine'[n].up => machine'[n].vrf # None
                             /\ Exact' /\ machine'[n].up =>
                                  machine[n].up \/ \A s \in Switches : \A x \in RowsAt(s) : InVrf(x, n, machine[n].vrf),
         \A s \in Switches : \A n \in Machines : \A v : Pending(c, s, n, v) => v \in machine'[n].stuck
  PROVE  VrfBody'
<1>1. \A d \in Calls \ {c} : SameCall(call[d], call'[d], {}) /\ call[d] \in CallType
  BY DEF Frame, Quietly, TypeInv
<1>2. {c} \in SUBSET Calls /\ {} \in SUBSET Switches /\ TypeInv
  BY DEF Quietly
<1>3. ASSUME NEW s \in Switches, NEW x \in RowsAt(s), NEW m \in Machines PROVE MachineVrf(s, x, m)'
  <2>1. MachineVrf(s, x, m) /\ mishap \subseteq mishap'
    BY <1>3 DEF Quietly, VrfBody, RowVrf
  <2>2. ASSUME NEW v, NEW d \in Calls, Pending(d, s, m, v)
        PROVE  v \in machine'[m].stuck \/ \E e \in Calls : Pending(e, s, m, v)'
    <3>1. CASE d # c
      BY <1>2, <2>2, <3>1, PendingStays
    <3>2. CASE d = c
      BY <1>3, <2>2, <3>2
    <3> QED BY <3>1, <3>2
  <2>3. /\ machine'[m].vrf = machine[m].vrf /\ machine[m].stuck \subseteq machine'[m].stuck
        /\ Exact' /\ machine'[m].up => machine[m].up \/ InVrf(x, m, machine[m].vrf)
    BY <1>3
  <2> QED BY <2>1, <2>2, <2>3, MachineVrfStays
<1>4. call'[c].pc \notin {"replace", "beat"} \cup Migrating /\ SetOK(c)' /\ ~Current(c)'
  BY DEF Migrating, Setting, SetOK, Current
<1>5. ASSUME NEW d \in Calls \ {c} PROVE Vowed(d)
  <2>1. call[d].pc \in Setting => machine'[call[d].machine].vrf = machine[call[d].machine].vrf
    BY <1>1, SameWork
  <2> QED BY <2>1, VowKept DEF Vowed, Quietly
<1> QED BY <1>2, <1>3, <1>4, <1>5, StillVrf

LEMMA InstallationSucceededVrf ==
  ASSUME Quietly, NEW c \in Calls, NEW m \in Machines, InstallationSucceeded(c, m)
  PROVE  VrfBody'
<1> DEFINE rec == [pc |-> "list", machine |-> m, vrf |-> machine[m].vrf, was |-> None]
<1>1. rec \in ListCall /\ rec.pc = "list" /\ rec.machine = m /\ rec.vrf = machine[m].vrf
  BY DEF ListCall, Quietly, TypeInv, TypeOK, MachineType
<1>2. Go(c, rec) /\ UNCHANGED <<sw, machine>> /\ call[c].pc = "idle"
  BY CallSteps DEF InstallationSucceeded, Begin, rows
<1> HIDE DEF rec
<1>3. Frame({c}, {}) /\ call'[c] = rec
  BY <1>1, <1>2, GoFrame DEF CallType, FreeCalls, Quietly
<1>4. SetOK(c)' /\ ~Current(c)' /\ SameVrfs
  BY <1>1, <1>2, <1>3 DEF SetOK, Current, SameVrfs
<1>5. call[c].pc \notin Setting /\ call'[c].pc \in Setting
  BY <1>1, <1>2, <1>3 DEF Setting
<1> QED BY <1>3, <1>4, <1>5, GoVrf

\* The vrf is to be reset from now on.
LEMMA ReleaseAllocationVrf ==
  ASSUME Quietly, NEW c \in Calls, NEW m \in Machines, ReleaseAllocation(c, m)
  PROVE  VrfBody'
<1> DEFINE rec == [pc |-> "bmc", machine |-> m, vrf |-> None, was |-> machine[m].vrf]
<1>1. rec \in ListCall /\ rec.pc = "bmc" /\ rec.machine = m /\ rec.vrf = None /\ rec.was = machine[m].vrf
  BY DEF ListCall, Quietly, TypeInv, TypeOK, MachineType
<1>2. Go(c, rec) /\ UNCHANGED sw /\ call[c].pc = "idle"
  BY CallSteps DEF ReleaseAllocation, Begin
<1> HIDE DEF rec
<1>3. Frame({c}, {}) /\ call'[c] = rec
  BY <1>1, <1>2, GoFrame DEF CallType, FreeCalls, Quietly
<1>4. ~Installing(m)
  BY DEF Happened, ReleaseAllocation, Quietly
<1>5. machine' = [machine EXCEPT ![m].vrf = None, ![m].up = FALSE]
  BY DEF ReleaseAllocation
<1>6. /\ machine'[m].vrf = None /\ machine'[m].up = FALSE /\ machine'[m].stuck = machine[m].stuck
      /\ \A n \in Machines \ {m} : machine'[n] = machine[n]
  BY <1>5 DEF Quietly, TypeInv, TypeOK, MachineType
<1>7. SetOK(c)' /\ ~Current(c)'
  BY <1>1, <1>3, <1>6 DEF SetOK, Current
<1>8. \A d \in Calls \ {c} : SameCall(call[d], call'[d], {}) /\ call[d] \in CallType
  BY <1>3 DEF Frame, Quietly, TypeInv
<1>9. {c} \in SUBSET Calls /\ {} \in SUBSET Switches /\ TypeInv
  BY DEF Quietly
<1>10. ASSUME NEW s \in Switches, NEW n \in Machines, NEW d \in Calls, NEW v, Pending(d, s, n, v)
       PROVE  Pending(d, s, n, v)'
  <2>1. d # c
    BY <1>2, <1>10 DEF Pending, Setting
  <2> QED BY <1>3, <1>9, <1>10, <2>1, PendingStays
<1>11. ASSUME NEW s \in Switches, NEW x \in RowsAt(s), NEW n \in Machines PROVE MachineVrf(s, x, n)'
  <2>1. MachineVrf(s, x, n) /\ mishap \subseteq mishap'
    BY <1>11 DEF Quietly, VrfBody, RowVrf
  <2>2. CASE n = m
    <3>1. \A v : v = machine[m].vrf => Pending(c, s, m, v)'
      BY <1>1, <1>3, <1>7 DEF Pending, Setting
    <3>2. ASSUME NEW p \in PortsOf(x, m)
          PROVE  \/ x.nics[p].vrf \in {None, machine'[m].vrf} \cup machine'[m].stuck
                 \/ \E d \in Calls : Pending(d, s, m, x.nics[p].vrf)'
      <4>1. CASE x.nics[p].vrf \in {None} \cup machine[m].stuck
        BY <1>6, <4>1
      <4>2. CASE x.nics[p].vrf = machine[m].vrf
        BY <3>1, <4>2
      <4>3. ASSUME NEW d \in Calls, Pending(d, s, m, x.nics[p].vrf)
            PROVE  \E e \in Calls : Pending(e, s, m, x.nics[p].vrf)'
        BY <1>10, <4>3
      <4> QED BY <2>1, <2>2, <3>2, <4>1, <4>2, <4>3 DEF MachineVrf
    <3>3. PortsOf(x, m)' = PortsOf(x, m)
      BY DEF PortsOf
    <3> QED BY <1>6, <2>2, <3>2, <3>3 DEF MachineVrf
  <2>3. CASE n # m
    <3>1. machine'[n] = machine[n]
      BY <1>6, <2>3
    <3> QED BY <1>10, <2>1, <3>1, MachineVrfStays
  <2> QED BY <2>2, <2>3
<1>12. ASSUME NEW d \in Calls \ {c} PROVE Vowed(d)
  <2>1. SUFFICES ASSUME call[d].pc \in Setting PROVE Vowed(d)
    BY DEF Vowed
  <2>2. call[d].machine \in Machines
    BY <1>8, <2>1, SameWork
  <2>3. CASE call[d].machine = m
    <3>1. call[d].vrf = None
      BY <1>4, <2>1, <2>3 DEF Installing
    <3> QED BY <1>6, <2>3, <3>1 DEF Vowed
  <2>4. CASE call[d].machine # m
    BY <1>6, <2>2, <2>4, VowKept DEF Quietly
  <2> QED BY <2>3, <2>4
<1>13. \A n \in Machines : machine'[n].up => machine'[n].vrf # None
  BY <1>6 DEF Quietly, VrfBody
<1>14. {c} \in SUBSET Calls /\ call'[c].pc \notin {"replace", "beat"} \cup Migrating
  BY <1>1, <1>3 DEF Migrating
<1> QED BY <1>3, <1>7, <1>11, <1>12, <1>13, <1>14, StillVrf

\* The next allocation leaves old vrfs to the resets that are pending.
LEMMA AllocateVrf ==
  ASSUME Quietly, NEW m \in Machines, NEW v \in Vrfs, Allocate(m, v)
  PROVE  VrfBody'
<1>1. /\ machine[m].vrf = None /\ machine' = [machine EXCEPT ![m].vrf = v] /\ UNCHANGED <<sw, call>>
  BY DEF Allocate
<1>2. ~Installing(m) /\ (Exact' => ~Resetting(m))
  BY DEF Allocate, Quietly, Exact, Unless
<1>3. Frame({}, {})
  BY <1>1, IdleFrame DEF Quietly
<1>4. v # None
  BY NamesAssumption
<1>5. /\ machine'[m].vrf = v /\ machine'[m].up = machine[m].up /\ machine'[m].stuck = machine[m].stuck
      /\ \A n \in Machines \ {m} : machine'[n] = machine[n]
  BY <1>1 DEF Quietly, TypeInv, TypeOK, MachineType
<1>6. ~machine[m].up
  BY <1>1 DEF Quietly, VrfBody
<1>7. \A d \in Calls : \A s, n, w : Pending(d, s, n, w)' <=> Pending(d, s, n, w)
  BY <1>1 DEF Pending, Current
<1>8. ASSUME NEW s \in Switches, NEW x \in RowsAt(s), NEW n \in Machines PROVE MachineVrf(s, x, n)'
  <2>1. MachineVrf(s, x, n) /\ mishap \subseteq mishap'
    BY <1>8 DEF Quietly, VrfBody, RowVrf
  <2>2. CASE n = m
    <3>1. \A p \in PortsOf(x, m) : \/ x.nics[p].vrf \in {None, machine'[m].vrf} \cup machine'[m].stuck
                                   \/ \E d \in Calls : Pending(d, s, m, x.nics[p].vrf)'
      BY <1>1, <1>5, <1>7, <2>1, <2>2 DEF MachineVrf
    <3>2. PortsOf(x, m)' = PortsOf(x, m)
      BY DEF PortsOf
    <3> QED BY <1>5, <1>6, <2>2, <3>1, <3>2 DEF MachineVrf
  <2>3. CASE n # m
    <3>1. machine'[n] = machine[n]
      BY <1>5, <2>3
    <3> QED BY <1>7, <2>1, <3>1, MachineVrfStays
  <2> QED BY <2>2, <2>3
<1>9. ASSUME NEW d \in Calls PROVE Vowed(d)
  <2>1. SUFFICES ASSUME call[d].pc \in Setting PROVE Vowed(d)
    BY DEF Vowed
  <2>2. call[d] \in CallType
    BY DEF Quietly, TypeInv
  <2>3. call[d].machine \in Machines
    BY <2>1, <2>2, SettingCall DEF ListCall, SetCall
  <2>4. CASE call[d].machine = m
    BY <1>2, <2>1, <2>4 DEF Vowed, Installing, Resetting
  <2>5. CASE call[d].machine # m
    BY <1>5, <2>3, <2>5, VowKept DEF Quietly
  <2> QED BY <2>4, <2>5
<1>10. \A n \in Machines : machine'[n].up => machine'[n].vrf # None
  BY <1>4, <1>5, <1>6 DEF Quietly, VrfBody
<1>11. {} \in SUBSET Calls
  OBVIOUS
<1> QED BY <1>3, <1>8, <1>9, <1>10, <1>11, StillVrf

LEMMA WatchForTaskCompletionVrf ==
  ASSUME Quietly, NEW c \in Calls, WatchForTaskCompletion(c)
  PROVE  VrfBody'
<1> DEFINE rec == [call[c] EXCEPT !.pc = "list"]
<1>1. call[c] \in ListCall /\ call[c].pc = "bmc" /\ Go(c, rec) /\ UNCHANGED <<sw, machine>>
  BY CallShapes DEF WatchForTaskCompletion, Quietly, TypeInv, rows
<1>2. rec \in ListCall /\ rec.pc = "list" /\ rec.machine = call[c].machine /\ rec.vrf = call[c].vrf /\ rec.was = call[c].was
  BY <1>1 DEF ListCall
<1> HIDE DEF rec
<1>3. Frame({c}, {}) /\ call'[c] = rec
  BY <1>1, <1>2, GoFrame DEF CallType, FreeCalls, Quietly
<1>4. Vowed(c)
  BY <1>1, VowKept DEF Quietly
<1>5. call'[c].pc \in Setting /\ call[c].pc \in Setting /\ ~Current(c)' /\ SameVrfs
  BY <1>1, <1>2, <1>3 DEF Setting, Current, SameVrfs
<1>6. SetOK(c)'
  BY <1>2, <1>3, <1>4, <1>5 DEF SetOK, Vowed
<1> QED BY <1>2, <1>3, <1>5, <1>6, GoVrf

\* A call starts over, after a conflict or a failure.
LEMMA AgainVrf ==
  ASSUME Quietly, NEW c \in Calls, call[c].pc \in Setting, Go(c, Again(call[c])), UNCHANGED <<sw, machine>>
  PROVE  VrfBody'
<1>1. call[c] \in ListCall \cup SetCall
  BY SettingCall DEF Quietly, TypeInv
<1> DEFINE rec == Again(call[c])
<1>2. /\ rec \in ListCall /\ rec.pc \in {"bmc", "list"}
      /\ rec.machine = call[c].machine /\ rec.vrf = call[c].vrf /\ rec.was = call[c].was
  BY <1>1, AgainCall
<1>3. Go(c, rec)
  OBVIOUS
<1> HIDE DEF rec
<1>4. Frame({c}, {}) /\ call'[c] = rec
  BY <1>2, <1>3, GoFrame DEF CallType, FreeCalls, Quietly
<1>5. Vowed(c)
  BY VowKept DEF Quietly
<1>6. call'[c].pc \in Setting /\ ~Current(c)' /\ SameVrfs
  BY <1>2, <1>4 DEF Setting, Current, SameVrfs
<1>7. SetOK(c)'
  BY <1>2, <1>4, <1>5, <1>6 DEF SetOK, Vowed
<1> QED BY <1>2, <1>4, <1>6, <1>7, GoVrf

LEMMA SetVrfFailsVrf ==
  ASSUME Quietly, NEW c \in Calls, SetVrfFails(c)
  PROVE  VrfBody'
<1>1. call[c].pc \in Setting /\ UNCHANGED sw /\ call[c] \in ListCall \cup SetCall
  BY SettingCall DEF SetVrfFails, Quietly, TypeInv
<1>2. PICK m \in Machines : m = call[c].machine
  BY <1>1 DEF ListCall, SetCall
<1>3. CASE Go(c, Again(call[c])) /\ UNCHANGED machine
  BY <1>1, <1>3, AgainVrf
<1>4. CASE Finish(c) /\ machine' = [machine EXCEPT ![m].stuck = @ \cup {call[c].was}]
  <2>1. Frame({c}, {}) /\ call'[c].pc = "idle"
    BY <1>1, <1>4, FinishFrame, CallSteps DEF Quietly
  <2>2. /\ \A n \in Machines : machine'[n].vrf = machine[n].vrf /\ machine'[n].up = machine[n].up
                              /\ machine[n].stuck \subseteq machine'[n].stuck
        /\ call[c].was \in machine'[m].stuck
    BY <1>4 DEF Quietly, TypeInv, TypeOK, MachineType
  <2>3. \A n \in Machines : machine'[n].up => machine'[n].vrf # None
    BY <2>2 DEF Quietly, VrfBody
  <2>4. \A s \in Switches : \A n \in Machines : \A v : Pending(c, s, n, v) => v \in machine'[n].stuck
    BY <1>2, <2>2 DEF Pending
  <2> QED BY <2>1, <2>2, <2>3, <2>4, EndsVrf
<1>5. CASE call[c].vrf # None /\ Finish(c) /\ UNCHANGED machine
  <2>1. Frame({c}, {}) /\ call'[c].pc = "idle"
    BY <1>1, <1>5, FinishFrame, CallSteps DEF Quietly
  <2>2. \A n \in Machines : machine'[n].up => machine'[n].vrf # None
    BY <1>5 DEF Quietly, VrfBody
  <2>3. \A s \in Switches : \A n \in Machines : \A v : ~Pending(c, s, n, v)
    BY <1>5 DEF Pending
  <2> QED BY <1>5, <2>1, <2>2, <2>3, EndsVrf
<1> QED BY <1>1, <1>2, <1>3, <1>4, <1>5 DEF SetVrfFails

LEMMA SearchSwitchesVrf ==
  ASSUME Quietly, NEW c \in Calls, SearchSwitches(c)
  PROVE  VrfBody'
<1> DEFINE there == Connected(call[c].machine)
           rec == [pc |-> "set", machine |-> call[c].machine, vrf |-> call[c].vrf, was |-> call[c].was,
                   todo |-> there, held |-> there]
<1>1. call[c] \in ListCall /\ call[c].pc = "list" /\ there \subseteq There /\ There \subseteq Switches
  BY CallShapes DEF SearchSwitches, Quietly, TypeInv, Connected, There
<1>2. Go(c, rec) /\ UNCHANGED <<sw, machine>>
  BY DEF SearchSwitches, rows
<1>3. \A s \in Switches : At(s, call[c].machine) # {} => s \in there
  BY DEF Connected, There, At
<1> HIDE DEF there
<1>4. /\ rec \in SetCall /\ rec.pc = "set" /\ rec.machine = call[c].machine /\ rec.vrf = call[c].vrf
      /\ rec.was = call[c].was /\ rec.todo = there
  BY <1>1 DEF ListCall, SetCall
<1> HIDE DEF rec
<1>5. Frame({c}, {}) /\ call'[c] = rec
  BY <1>2, <1>4, GoFrame DEF CallType, HeldCalls, Quietly
<1>6. \A d \in Calls : call[d].pc # "migrateNew"
  BY DEF Happened, SearchSwitches, Someone, Quietly
<1>7. ASSUME NEW s \in Switches \ there, NEW y \in RowsAt(s) PROVE PortsOf(y, call[c].machine) = {}
  <2>1. y = sw[s] /\ y # None
    BY <1>6, <1>7 DEF RowsAt
  <2> QED BY <1>3, <1>7, <2>1 DEF At
<1>8. ASSUME NEW s \in Switches \ there, NEW y \in RowsAt(s)' PROVE InVrf(y, call[c].machine, call[c].vrf)
  <2>1. y \in RowsAt(s)
    BY <1>4, <1>5, RowsFrom DEF Quietly
  <2>2. PortsOf(y, call[c].machine) = {}
    BY <1>7, <2>1
  <2> QED BY <2>2 DEF InVrf
<1>9. Vowed(c) /\ SameVrfs
  BY <1>2, VowKept DEF Quietly, SameVrfs
<1>10. SetOK(c)'
  <2>1. Current(c)' => \A s \in Switches \ call'[c].todo : \A x \in RowsAt(s)' : InVrf(x, call'[c].machine, call'[c].vrf)
    BY <1>4, <1>5, <1>8
  <2>2. call[c].pc \in Setting
    BY <1>1 DEF Setting
  <2>3. /\ call'[c].vrf \in {None, machine'[call'[c].machine].vrf}
        /\ Exact' => call'[c].vrf = machine'[call'[c].machine].vrf
    BY <1>4, <1>5, <1>9, <2>2 DEF Vowed
  <2> QED BY <2>1, <2>3 DEF SetOK
<1>11. call'[c].pc \in Setting
  BY <1>4, <1>5 DEF Setting
<1>12. Current(c)' => \A s \in Switches \ call'[c].todo : \A x \in RowsAt(s) : PortsOf(x, call'[c].machine) = {}
  BY <1>4, <1>5, <1>7
<1> QED BY <1>4, <1>5, <1>9, <1>10, <1>11, <1>12, GoVrf

LEMMA SetVrfPorts ==
  ASSUME NEW x \in RowType, Fits(x), NEW m \in Machines, NEW vrf \in Vrfs \cup {None}
  PROVE  LET y == SetVrf(x, m, vrf)
         IN  /\ y \in RowType /\ y.conns = x.conns /\ DOMAIN y.nics = DOMAIN x.nics
             /\ \A n \in Machines : PortsOf(y, n) = PortsOf(x, n) /\ PortsOf(x, n) \subseteq DOMAIN x.nics
             /\ \A p \in DOMAIN x.nics : y.nics[p].vrf = IF p \in PortsOf(x, m) THEN vrf ELSE x.nics[p].vrf
<1> DEFINE y == SetVrf(x, m, vrf)
           nics == [p \in DOMAIN x.nics |-> IF p \in PortsOf(x, m) THEN [x.nics[p] EXCEPT !.vrf = vrf] ELSE x.nics[p]]
<1>1. y \in RowType /\ y.conns = x.conns /\ DOMAIN y.nics = DOMAIN x.nics
  BY SetVrfRow
<1>2. y = [x EXCEPT !.nics = nics]
  BY DEF SetVrf
<1>3. y.nics = nics
  <2> HIDE DEF nics
  <2> QED BY <1>2 DEF RowType
<1>4. \A p \in DOMAIN x.nics : x.nics[p] \in NicType
  BY RowShape
<1>5. \A k \in NicType : [k EXCEPT !.vrf = vrf].vrf = vrf
  BY DEF NicType
<1>6. \A p \in DOMAIN x.nics : nics[p].vrf = IF p \in PortsOf(x, m) THEN vrf ELSE x.nics[p].vrf
  BY <1>4, <1>5
<1>7. \A n \in Machines : PortsOf(x, n) \subseteq DOMAIN x.nics
  BY FitsPorts
<1> HIDE DEF y, nics
<1>8. \A n \in Machines : PortsOf(y, n) = PortsOf(x, n)
  BY <1>1 DEF PortsOf
<1> QED BY <1>1, <1>3, <1>6, <1>7, <1>8 DEF y

LEMMA SetVrfWriteVrf ==
  ASSUME Quietly, NEW c \in Calls, call[c] \in SetCall, call[c].held \subseteq There, NEW x \in call[c].todo, x \in call[c].held,
         UNCHANGED <<machine, mishap>>,
         Put(c, x, SetVrf(sw[x], call[c].machine, call[c].vrf), [call[c] EXCEPT !.todo = @ \ {x}])
  PROVE  VrfBody'
<1> DEFINE m == call[c].machine
           vrf == call[c].vrf
           row == SetVrf(sw[x], m, vrf)
           rec == [call[c] EXCEPT !.todo = @ \ {x}]
<1>1. /\ x \in Switches /\ sw[x] \in RowType /\ sw[x] # None /\ m \in Machines /\ vrf \in Vrfs \cup {None}
      /\ call[c].pc = "set" /\ Fits(sw[x]) /\ Lone(sw[x]) /\ sw[x] \in RowsAt(x)
  <2>1. "mismatch" \notin mishap
    BY DEF Quietly
  <2> QED BY <2>1 DEF SetCall, Quietly, TypeInv, TypeOK, There, PortInv, Unless, RowsAt
<1>2. /\ row \in RowType /\ row.conns = sw[x].conns /\ DOMAIN row.nics = DOMAIN sw[x].nics
      /\ \A n \in Machines : PortsOf(row, n) = PortsOf(sw[x], n) /\ PortsOf(sw[x], n) \subseteq DOMAIN sw[x].nics
      /\ \A p \in DOMAIN sw[x].nics : row.nics[p].vrf = IF p \in PortsOf(sw[x], m) THEN vrf ELSE sw[x].nics[p].vrf
  BY <1>1, SetVrfPorts
<1>3. /\ rec \in SetCall /\ rec.pc = "set" /\ rec.machine = m /\ rec.vrf = vrf /\ rec.was = call[c].was
      /\ rec.todo = call[c].todo \ {x} /\ rec.held = call[c].held
  BY DEF SetCall
<1>4. Put(c, x, row, rec)
  OBVIOUS
<1> HIDE DEF row, rec
<1>5. Frame({c}, {x}) /\ sw'[x] = row /\ call'[c] = rec
  <2>1. rec \in CallType /\ row \in RowType \cup {None} /\ TypeInv
    BY <1>2, <1>3 DEF CallType, HeldCalls, Quietly
  <2> QED BY <1>1, <1>4, <2>1, PutFrame
<1>6. /\ InVrf(row, m, vrf)
      /\ \A n \in Machines \ {m} : \A p \in PortsOf(row, n) : row.nics[p].vrf = sw[x].nics[p].vrf
      /\ \A p \in DOMAIN row.nics : NoMachine(row, p) => NoMachine(sw[x], p) /\ row.nics[p].vrf = sw[x].nics[p].vrf
  BY <1>1, <1>2 DEF InVrf, NoMachine, Lone
<1>7. \A s \in Switches : \A y \in RowsAt(s)' : (s # x /\ y \in RowsAt(s)) \/ (s = x /\ y = row)
  <2>1. {c} \in SUBSET Calls /\ {x} \in SUBSET Switches /\ call'[c].pc # "migrateNew"
    BY <1>1, <1>3, <1>5
  <2>2. ASSUME NEW s \in Switches, NEW y \in RowsAt(s)' PROVE (s # x /\ y \in RowsAt(s)) \/ (s = x /\ y = row)
    <3>1. \/ y \in RowsAt(s) /\ s \notin {x}
          \/ s \in {x} /\ y = sw'[s] /\ y # None
          \/ \E e \in {c} : call'[e].pc = "migrateNew" /\ call'[e].new = s /\ s \in call'[e].held /\ y = call'[e].oldRow
      BY <1>5, <2>1, <2>2, RowsFrom DEF Quietly
    <3> QED BY <1>5, <2>1, <3>1
  <2> QED BY <2>2
<1>8. vrf \in {None, machine[m].vrf} /\ (Exact => vrf = machine[m].vrf) /\ (Exact' <=> Exact)
  BY <1>1 DEF Quietly, VrfBody, SetOK, Exact, Unless, Setting
<1>9. \A d \in Calls \ {c} : SameCall(call[d], call'[d], {x}) /\ call[d] \in CallType
  BY <1>5 DEF Frame, Quietly, TypeInv
<1>10. ASSUME NEW s \in Switches, NEW n \in Machines, s # x \/ n # m, NEW d \in Calls, NEW v, Pending(d, s, n, v)
       PROVE  Pending(d, s, n, v)'
  <2>1. CASE d # c
    <3>1. {c} \in SUBSET Calls /\ {x} \in SUBSET Switches /\ TypeInv
      BY <1>1 DEF Quietly
    <3> QED BY <1>5, <1>10, <2>1, <3>1, PendingStays
  <2>2. CASE d = c
    <3>1. n = m /\ s # x /\ vrf = None /\ call[c].was = v /\ ~(Current(c) /\ s \notin call[c].todo)
      BY <1>10, <2>2 DEF Pending
    <3>2. ~(Current(c)' /\ s \notin call'[c].todo)
      BY <1>1, <1>3, <1>5, <3>1 DEF Current
    <3> QED BY <1>3, <1>5, <2>2, <3>1, <3>2 DEF Pending, Setting
  <2> QED BY <2>1, <2>2
<1>11. SetOK(c)'
  <2>1. ASSUME Exact, Current(c)', NEW s \in Switches \ call'[c].todo, NEW y \in RowsAt(s)' PROVE InVrf(y, m, vrf)
    <3>1. CASE s = x
      BY <1>6, <1>7, <2>1, <3>1
    <3>2. CASE s # x
      <4>1. y \in RowsAt(s) /\ s \notin call[c].todo /\ Current(c)
        BY <1>1, <1>3, <1>5, <1>7, <2>1, <3>2 DEF Current
      <4> QED BY <2>1, <4>1 DEF Quietly, VrfBody, SetOK
    <3> QED BY <3>1, <3>2
  <2>2. Exact /\ Current(c)' => \A s \in Switches \ call'[c].todo : \A y \in RowsAt(s)' : InVrf(y, call'[c].machine, call'[c].vrf)
    BY <1>3, <1>5, <2>1
  <2> QED BY <1>3, <1>5, <1>8, <2>2 DEF SetOK
<1>12. ASSUME NEW d \in Calls \ {c}, Exact, Current(d), call[d].todo \cap {x} = {}, NEW s \in Switches \ call[d].todo,
              NEW y \in RowsAt(s)'
       PROVE  InVrf(y, call[d].machine, call[d].vrf)
  <2>1. call[d].machine \in Machines /\ SetOK(d) /\ call[d].vrf = machine[call[d].machine].vrf
    <3>1. call[d].pc \in Setting
      BY <1>12 DEF Current, Setting
    <3> QED BY <1>9, <1>12, <3>1, SameWork DEF Quietly, VrfBody, SetOK
  <2>2. CASE s # x
    BY <1>7, <1>12, <2>1, <2>2 DEF SetOK
  <2>3. CASE s = x /\ call[d].machine = m
    BY <1>6, <1>7, <1>8, <1>12, <2>1, <2>3 DEF SetOK, Current
  <2>4. CASE s = x /\ call[d].machine # m
    <3>1. InVrf(sw[x], call[d].machine, call[d].vrf)
      BY <1>1, <1>12, <2>1, <2>4 DEF SetOK
    <3>2. y = row
      BY <1>7, <1>12, <2>4
    <3> QED BY <1>2, <1>6, <2>1, <2>4, <3>1, <3>2 DEF InVrf
  <2> QED BY <2>2, <2>3, <2>4
<1>13. \A s \in Switches \ {x} : Current(c)' /\ At(s, call'[c].machine) # {} =>
         s \in call'[c].todo \/ (Current(c) /\ call'[c].machine = call[c].machine /\ s \notin call[c].todo)
  BY <1>1, <1>3, <1>5 DEF Current
<1>14. \A d \in Calls \ {c} : SetOK(d)' /\ ReplaceOK(d)' /\ BeatOK(d)' /\ CarryOK(d)'
  <2>1. {c} \in SUBSET Calls /\ {x} \in SUBSET Switches
    BY <1>1
  <2>2. \A d \in Calls \ {c} : Vowed(d)
    BY VowKept DEF Quietly
  <2>3. \A d \in Calls \ {c} : Exact' /\ Current(d) /\ call[d].todo \cap {x} = {} =>
          \A s \in Switches \ call[d].todo : \A y \in RowsAt(s)' : InVrf(y, call[d].machine, call[d].vrf)
    BY <1>8, <1>12
  <2>4. \A e \in {c} : Current(e)' => \A s \in Switches \ {x} : At(s, call'[e].machine) # {} =>
          \/ s \in call'[e].todo
          \/ Current(e) /\ call'[e].machine = call[e].machine /\ s \notin call[e].todo
    BY <1>13
  <2> QED BY <1>5, <2>1, <2>2, <2>3, <2>4, OthersVrf DEF Quietly
<1>15. ReplaceOK(c)' /\ BeatOK(c)' /\ CarryOK(c)'
  BY <1>3, <1>5 DEF ReplaceOK, BeatOK, CarryOK
<1>16. ASSUME NEW s \in Switches, s # x, NEW y \in RowsAt(s) PROVE RowVrf(s, y)'
  <2>1. RowVrf(s, y)
    BY <1>16 DEF Quietly, VrfBody
  <2>2. ASSUME NEW n \in Machines PROVE MachineVrf(s, y, n)'
    BY <1>10, <1>16, <2>1, MachineVrfStays DEF RowVrf
  <2>3. VacantVrf(y)'
    BY <2>1 DEF RowVrf, VacantVrf, NoMachine
  <2> QED BY <2>2, <2>3 DEF RowVrf
<1>17. ASSUME NEW y \in RowType, y = row PROVE RowVrf(x, y)'
  <2>1. RowVrf(x, sw[x])
    BY <1>1 DEF Quietly, VrfBody
  <2>2. ASSUME NEW n \in Machines PROVE MachineVrf(x, y, n)'
    <3>1. CASE n = m
      BY <1>6, <1>8, <1>17, <3>1 DEF MachineVrf, InVrf
    <3>2. CASE n # m
      <4>1. MachineVrf(x, sw[x], n)
        BY <2>1 DEF RowVrf
      <4>2. PortsOf(y, n) = PortsOf(sw[x], n) /\ \A p \in PortsOf(y, n) : y.nics[p].vrf = sw[x].nics[p].vrf
        BY <1>2, <1>6, <1>17, <3>2
      <4> QED BY <1>1, <1>10, <3>2, <4>1, <4>2, MachineVrfStays
    <3> QED BY <3>1, <3>2
  <2>3. VacantVrf(y)
    BY <1>2, <1>6, <1>17, <2>1 DEF RowVrf, VacantVrf
  <2>4. VacantVrf(y)'
    BY <2>3 DEF VacantVrf, NoMachine
  <2> QED BY <2>2, <2>4 DEF RowVrf
<1>18. \A d \in Calls : SetOK(d)' /\ ReplaceOK(d)' /\ BeatOK(d)' /\ CarryOK(d)'
  BY <1>11, <1>14, <1>15
<1>19. \A s \in Switches : \A y \in RowsAt(s)' : RowVrf(s, y)'
  BY <1>2, <1>7, <1>16, <1>17
<1> QED BY <1>18, <1>19 DEF Quietly, VrfBody

\* With nothing left to do all rows are in the vrf.
LEMMA SetVrfAtSwitchesVrf ==
  ASSUME Quietly, NEW c \in Calls, SetVrfAtSwitches(c)
  PROVE  VrfBody'
<1>1. /\ call[c] \in SetCall /\ call[c].pc = "set" /\ call[c].held \subseteq There /\ UNCHANGED mishap
  BY CallShapes DEF SetVrfAtSwitches, Quietly, TypeInv, HeldCalls
<1>2. PICK m \in Machines : m = call[c].machine
  BY <1>1 DEF SetCall
<1>3. CASE /\ call[c].todo = {} /\ Finish(c) /\ UNCHANGED sw
           /\ machine' = [machine EXCEPT ![m].up = @ \/ (call[c].vrf # None /\ machine[m].vrf = call[c].vrf)]
  <2>1. Frame({c}, {}) /\ call'[c].pc = "idle"
    BY <1>3, FinishFrame, CallSteps DEF Quietly
  <2>2. /\ \A n \in Machines : machine'[n].vrf = machine[n].vrf /\ machine'[n].stuck = machine[n].stuck
        /\ \A n \in Machines \ {m} : machine'[n].up = machine[n].up
        /\ machine'[m].up => machine[m].up \/ (call[c].vrf # None /\ machine[m].vrf = call[c].vrf)
    BY <1>3 DEF Quietly, TypeInv, TypeOK, MachineType
  <2>3. \A n \in Machines : machine'[n].up => machine'[n].vrf # None
    BY <2>2 DEF Quietly, VrfBody
  <2>4. Current(c) /\ \A s, n, v : ~Pending(c, s, n, v)
    BY <1>1, <1>3 DEF Current, Pending
  <2>5. Exact' => \A s \in Switches : \A x \in RowsAt(s) : InVrf(x, m, call[c].vrf)
    <3>1. Exact' => Exact
      BY DEF Exact, Unless, Quietly
    <3>2. SetOK(c)
      BY DEF Quietly, VrfBody
    <3> QED BY <1>2, <1>3, <2>4, <3>1, <3>2 DEF SetOK
  <2>6. \A n \in Machines : Exact' /\ machine'[n].up =>
          machine[n].up \/ \A s \in Switches : \A x \in RowsAt(s) : InVrf(x, n, machine[n].vrf)
    BY <2>2, <2>5
  <2> QED BY <2>1, <2>2, <2>3, <2>4, <2>6, EndsVrf
<1>4. ASSUME NEW x \in call[c].todo, x \in call[c].held, UNCHANGED machine,
             Put(c, x, SetVrf(sw[x], call[c].machine, call[c].vrf), [call[c] EXCEPT !.todo = @ \ {x}])
      PROVE  VrfBody'
  BY <1>1, <1>4, SetVrfWriteVrf
<1>5. CASE Go(c, Again(call[c])) /\ UNCHANGED <<sw, machine>>
  <2>1. call[c].pc \in Setting
    BY <1>1 DEF Setting
  <2> QED BY <1>5, <2>1, AgainVrf
<1> QED BY <1>2, <1>3, <1>4, <1>5 DEF SetVrfAtSwitches, rows

LEMMA ConnectSame ==
  ASSUME NEW x \in RowType, NEW y \in RowType, \A m \in Machines : PortsOf(y, m) = PortsOf(x, m)
  PROVE  y.conns = x.conns
<1>1. x.conns \in SUBSET (Machines \X Ports) /\ y.conns \in SUBSET (Machines \X Ports)
  BY DEF RowType
<1>2. \A m \in Machines, p \in Ports : <<m, p>> \in x.conns <=> <<m, p>> \in y.conns
  BY DEF PortsOf
<1> QED BY <1>1, <1>2

\* A machine that gets other ports is in no vrf, and its new ports were in no vrf either.
LEMMA WriteVrf ==
  ASSUME Quietly, NEW c \in Calls, call[c] \in WriteCall, NEW s \in {call[c].s1, call[c].s2}, s \in call[c].held,
         s = call[c].s2 \/ call[c].pc = "first", NEW rec, Write(c, s, rec), Writes(c, s),
         call'[c].pc \in {"second", "idle"}
  PROVE  VrfBody'
<1>1. /\ s \in Switches /\ sw[s] \in RowType /\ sw[s] # None /\ call[c].machine \in Machines /\ UNCHANGED machine
      /\ Frame({c}, {s}) /\ call[c].pc \in {"first", "second"}
  BY NamesAssumption, CallSteps DEF WriteCall, Writes
<1>2. PICK m \in Machines, ports \in SUBSET Ports, row \in RowType :
        /\ m = call[c].machine /\ ports = Physical(s, sw[s], call[c].nics)
        /\ row = Connect(sw[s], m, ports) /\ row = sw'[s]
  <2>1. Physical(s, sw[s], call[c].nics) \in SUBSET Ports
    BY <1>1, PhysicalPorts
  <2>2. Connect(sw[s], call[c].machine, Physical(s, sw[s], call[c].nics)) \in RowType
    BY <1>1, <2>1, ConnectRow
  <2> QED BY <1>1, <2>1, <2>2 DEF Writes
<1>3. /\ row.nics = sw[s].nics
      /\ \A n \in Machines \ {m} : PortsOf(row, n) = PortsOf(sw[s], n)
      /\ PortsOf(row, m) = IF ports = {} THEN PortsOf(sw[s], m) ELSE ports
  <2>1. \A x \in RowType :
          /\ Connect(x, m, ports).nics = x.nics
          /\ \A n \in Machines \ {m} : PortsOf(Connect(x, m, ports), n) = PortsOf(x, n)
          /\ PortsOf(Connect(x, m, ports), m) = IF ports = {} THEN PortsOf(x, m) ELSE ports
    BY ConnectRow
  <2>2. sw[s] \in RowType /\ row = Connect(sw[s], m, ports)
    BY <1>1, <1>2
  <2> QED BY ONLY <2>1, <2>2
<1>4. /\ PortsOf(row, m) # PortsOf(sw[s], m) =>
           machine[m].vrf = None /\ ~SettingVrf(m) /\ ~LeftOver(sw[s], PortsOf(sw[s], m) \cap DOMAIN sw[s].nics)
      /\ ~(sw[s].conns = {} /\ row.conns # {} /\ LeftOver(sw[s], DOMAIN sw[s].nics))
      /\ "mismatch" \notin mishap
  BY <1>2 DEF Write, Quietly
<1>5. {c} \in SUBSET Calls /\ {s} \in SUBSET Switches /\ SameVrfs
  BY <1>1 DEF SameVrfs
<1>6. ReplaceOK(c)' /\ BeatOK(c)' /\ CarryOK(c)' /\ SetOK(c)' /\ ~Current(c)' /\ call'[c].pc # "migrateNew"
  BY DEF ReplaceOK, BeatOK, CarryOK, SetOK, Current, Setting
<1>9. call[c].pc \notin Setting /\ call'[c].pc \notin Setting
  BY <1>1 DEF Setting
<1>7. CASE PortsOf(row, m) = PortsOf(sw[s], m)
  <2>1. row.conns = sw[s].conns
    BY <1>1, <1>2, <1>3, <1>7, ConnectSame
  <2>2. CopyOf(sw[s], row)
    BY <1>3, <2>1 DEF CopyOf
  <2>3. Comes(s, row, {s})
    BY <1>1, <2>2, CopyComes
  <2> QED BY <1>1, <1>2, <1>5, <1>6, <1>9, <2>3, QuietVrf DEF Quietly
<1>8. CASE PortsOf(row, m) # PortsOf(sw[s], m)
  <2>1. /\ machine[m].vrf = None /\ ~SettingVrf(m) /\ PortsOf(row, m) = ports /\ ports # {}
        /\ ~LeftOver(sw[s], PortsOf(sw[s], m) \cap DOMAIN sw[s].nics)
    BY <1>3, <1>4, <1>8
  <2>2. /\ Vacant(s, sw[s], m, call[c].nics) /\ Fits(sw[s]) /\ Fits(row)
    <3>1. CallAlone(c) /\ Fits(sw[s])
      BY <1>1, <1>4 DEF Quietly, PortInv, Unless, There
    <3>2. Vacant(s, sw[s], m, call[c].nics)
      BY <1>2, <3>1 DEF CallAlone
    <3>3. Fits(row)
      BY <1>1, <1>2, NamesAssumption DEF Quietly, PortInv, There
    <3> QED BY <3>1, <3>2, <3>3
  <2>3. /\ sw[s] \in RowsAt(s) /\ RowVrf(s, sw[s])
    BY <1>1 DEF RowsAt, Quietly, VrfBody
  <2>4. row.conns # {}
    BY <2>1 DEF PortsOf
  <2>5. \A p \in DOMAIN sw[s].nics : NoMachine(sw[s], p) => sw[s].nics[p].vrf = None
    BY <1>4, <2>3, <2>4 DEF RowVrf, VacantVrf, LeftOver
  <2>6. \A p \in PortsOf(sw[s], m) : sw[s].nics[p].vrf = None
    <3>1. PortsOf(sw[s], m) \subseteq DOMAIN sw[s].nics
      BY <1>1, <1>2, <2>2, FitsPorts
    <3> QED BY <2>1, <3>1 DEF LeftOver
  <2>7. \A p \in PortsOf(row, m) : row.nics[p].vrf = None
    <3>1. SUFFICES ASSUME NEW p \in ports PROVE sw[s].nics[p].vrf = None
      BY <1>3, <2>1
    <3>2. p \in DOMAIN sw[s].nics
      BY <1>1, <1>2, PhysicalPorts
    <3>3. \A n \in Machines \ {m} : p \notin PortsOf(sw[s], n)
      BY <1>2, <2>2 DEF Vacant
    <3> QED BY <2>5, <2>6, <3>2, <3>3 DEF NoMachine
  <2>8. ~machine[m].up
    BY <2>1 DEF Quietly, VrfBody
  <2>9. \A d \in Calls \ {c} : SameCall(call[d], call'[d], {s}) /\ call[d] \in CallType
    BY <1>1 DEF Frame, Quietly, TypeInv
  <2>10. ASSUME NEW t \in Switches, NEW n \in Machines, NEW d \in Calls, NEW v, Pending(d, t, n, v)
         PROVE  Pending(d, t, n, v)'
    <3>1. d \in Calls \ {c}
      BY <1>9, <2>10 DEF Pending
    <3> QED BY <1>1, <1>5, <2>10, <3>1, PendingStays DEF Quietly
  <2>11. RowVrf(s, row)'
    <3>1. ASSUME NEW n \in Machines PROVE MachineVrf(s, row, n)'
      <4>1. CASE n = m
        BY <1>1, <2>1, <2>7, <2>8, <4>1 DEF MachineVrf
      <4>2. CASE n # m
        <5>1. MachineVrf(s, sw[s], n) /\ mishap \subseteq mishap'
          BY <2>3 DEF RowVrf, Quietly
        <5>2. PortsOf(row, n) = PortsOf(sw[s], n) /\ \A p \in PortsOf(row, n) : row.nics[p].vrf = sw[s].nics[p].vrf
          BY <1>3, <4>2
        <5> QED BY <1>1, <2>10, <5>1, <5>2, MachineVrfStays
      <4> QED BY <4>1, <4>2
    <3>2. VacantVrf(row)
      <4>1. SUFFICES ASSUME NEW p \in DOMAIN sw[s].nics, NoMachine(row, p) PROVE sw[s].nics[p].vrf = None
        BY <1>3 DEF VacantVrf
      <4>2. NoMachine(sw[s], p) \/ p \in PortsOf(sw[s], m)
        BY <1>3, <4>1 DEF NoMachine
      <4> QED BY <2>5, <2>6, <4>2
    <3>3. VacantVrf(row)'
      BY <3>2 DEF VacantVrf, NoMachine
    <3> QED BY <3>1, <3>3 DEF RowVrf
  <2>12. \A t \in Switches : \A y \in RowsAt(t)' : (t # s /\ y \in RowsAt(t)) \/ (t = s /\ y = row)
    <3>1. ASSUME NEW t \in Switches, NEW y \in RowsAt(t)' PROVE (t # s /\ y \in RowsAt(t)) \/ (t = s /\ y = row)
      <4>1. \/ y \in RowsAt(t) /\ t \notin {s}
            \/ t \in {s} /\ y = sw'[t] /\ y # None
            \/ \E e \in {c} : call'[e].pc = "migrateNew" /\ call'[e].new = t /\ t \in call'[e].held /\ y = call'[e].oldRow
        BY <1>1, <1>5, <3>1, RowsFrom DEF Quietly
      <4> QED BY <1>2, <1>6, <4>1
    <3> QED BY <3>1
  <2>13. ASSUME NEW d \in Calls \ {c}, Exact, Current(d), call[d].todo \cap {s} = {}, NEW t \in Switches \ call[d].todo,
                NEW y \in RowsAt(t)'
         PROVE  InVrf(y, call[d].machine, call[d].vrf)
    <3>1. call[d].machine \in Machines /\ SetOK(d) /\ call[d].machine # m
      <4>1. call[d].pc \in Setting
        BY <2>13 DEF Current, Setting
      <4> QED BY <2>1, <2>9, <4>1, SameWork DEF Quietly, VrfBody, SettingVrf
    <3>2. CASE t # s
      BY <2>12, <2>13, <3>1, <3>2 DEF SetOK
    <3>3. CASE t = s
      <4>1. InVrf(sw[s], call[d].machine, call[d].vrf) /\ y = row
        BY <2>3, <2>12, <2>13, <3>1, <3>3 DEF SetOK
      <4> QED BY <1>3, <3>1, <4>1 DEF InVrf
    <3> QED BY <3>2, <3>3
  <2>14. \A d \in Calls \ {c} : SetOK(d)' /\ ReplaceOK(d)' /\ BeatOK(d)' /\ CarryOK(d)'
    <3>1. \A d \in Calls \ {c} : Exact' /\ Current(d) /\ call[d].todo \cap {s} = {} =>
            \A t \in Switches \ call[d].todo : \A y \in RowsAt(t)' : InVrf(y, call[d].machine, call[d].vrf)
      <4>1. Exact' => Exact
        BY DEF Exact, Unless, Quietly
      <4> QED BY <2>13, <4>1
    <3>2. \A d \in Calls \ {c} : Vowed(d)
      BY <1>1, VowKept DEF Quietly
    <3>3. \A e \in {c} : Current(e)' => \A t \in Switches \ {s} : At(t, call'[e].machine) # {} =>
            \/ t \in call'[e].todo
            \/ Current(e) /\ call'[e].machine = call[e].machine /\ t \notin call[e].todo
      BY <1>6
    <3> QED BY <1>1, <1>5, <3>1, <3>2, <3>3, OthersVrf DEF Quietly
  <2>15. ASSUME NEW t \in Switches, NEW y \in RowsAt(t) PROVE RowVrf(t, y)'
    <3>1. RowVrf(t, y) /\ mishap \subseteq mishap'
      BY <2>15 DEF Quietly, VrfBody
    <3>2. \A n \in Machines : MachineVrf(t, y, n)'
      BY <1>1, <2>10, <3>1, MachineVrfStays DEF RowVrf
    <3>3. VacantVrf(y)'
      BY <3>1 DEF RowVrf, VacantVrf, NoMachine
    <3> QED BY <3>2, <3>3 DEF RowVrf
  <2>16. \A t \in Switches : \A y \in RowsAt(t)' : RowVrf(t, y)'
    BY <2>11, <2>12, <2>15
  <2>17. \A d \in Calls : SetOK(d)' /\ ReplaceOK(d)' /\ BeatOK(d)' /\ CarryOK(d)'
    BY <1>6, <2>14
  <2> QED BY <1>1, <2>16, <2>17 DEF Quietly, VrfBody
<1> QED BY <1>7, <1>8

LEMMA WritesVrf ==
  ASSUME Quietly, LinkBody, NEW c \in Calls, WriteFirst(c) \/ WriteSecond(c)
  PROVE  VrfBody'
<1>1. CASE WriteFirst(c)
  <2>1. call[c] \in WriteCall /\ call[c].pc = "first" /\ UNCHANGED <<machine, cable>>
    BY <1>1, CallShapes DEF WriteFirst, Quietly, TypeInv
  <2>2. CASE call[c].s1 \in call[c].held /\ Write(c, call[c].s1, [call[c] EXCEPT !.pc = "second", !.half = TRUE])
    <3> DEFINE rec == [call[c] EXCEPT !.pc = "second", !.half = TRUE]
    <3>1. rec \in WriteCall /\ rec.pc = "second" /\ rec \in CallType
      BY <2>1 DEF WriteCall, CallType, HeldCalls
    <3>2. Write(c, call[c].s1, rec) /\ call[c].s1 \in call[c].held
      BY <2>2
    <3> HIDE DEF rec
    <3>3. Writes(c, call[c].s1) /\ call'[c] = rec
      BY <2>1, <3>1, <3>2, WriteEffect DEF Quietly
    <3> QED BY <2>1, <3>1, <3>2, <3>3, WriteVrf
  <2>3. CASE Conflict(c) /\ UNCHANGED sw
    <3>1. GivesUp(c) /\ call[c].pc \in Registering
      BY <2>1, <2>3, ConflictEffect DEF Quietly, Registering
    <3> QED BY <3>1, RegistrationVrf
  <2> QED BY <1>1, <2>2, <2>3 DEF WriteFirst
<1>2. CASE WriteSecond(c)
  <2>1. call[c] \in WriteCall /\ call[c].pc = "second" /\ UNCHANGED <<machine, cable>>
    BY <1>2, CallShapes DEF WriteSecond, Quietly, TypeInv
  <2>2. CASE call[c].s2 \in call[c].held /\ Write(c, call[c].s2, Idle)
    <3>1. Idle \in CallType /\ Idle.pc = "idle"
      BY CallSteps DEF CallType, FreeCalls
    <3>2. Writes(c, call[c].s2) /\ call'[c] = Idle
      BY <2>1, <2>2, <3>1, WriteEffect DEF Quietly
    <3> QED BY <2>1, <2>2, <3>1, <3>2, WriteVrf
  <2>3. CASE Conflict(c) /\ UNCHANGED sw
    <3>1. GivesUp(c) /\ call[c].pc \in Registering
      BY <2>1, <2>3, ConflictEffect DEF Quietly, Registering
    <3> QED BY <3>1, RegistrationVrf
  <2> QED BY <1>2, <2>2, <2>3 DEF WriteSecond
<1> QED BY <1>1, <1>2

LEMMA IdleVrf ==
  ASSUME Quietly, UNCHANGED <<sw, machine, call>>
  PROVE  VrfBody'
<1>1. Frame({}, {}) /\ SameVrfs /\ {} \in SUBSET Calls /\ {} \in SUBSET Switches
  BY IdleFrame DEF Quietly, SameVrfs
<1> QED BY <1>1, QuietVrf DEF Quietly

LEMMA VrfBodyNext ==
  ASSUME Quietly, LinkBody, [Next]_vars
  PROVE  VrfBody'
<1>1. ASSUME NEW c \in Calls, NEW m \in Machines,
             RegisterMachine(c, m) \/ InstallationSucceeded(c, m) \/ ReleaseAllocation(c, m)
      PROVE  VrfBody'
  BY <1>1, RegistrationVrf, InstallationSucceededVrf, ReleaseAllocationVrf
<1>2. ASSUME NEW c \in Calls,
             \/ FormerSwitches(c) \/ Disconnect(c) \/ ReadSwitches(c) \/ WriteFirst(c) \/ WriteSecond(c)
             \/ WatchForTaskCompletion(c) \/ SearchSwitches(c) \/ SetVrfAtSwitches(c) \/ SetVrfFails(c)
             \/ ReplaceWrite(c) \/ HeartbeatWrite(c) \/ DeleteWrite(c)
             \/ MigrateMachine(c) \/ MigrateOld(c) \/ MigrateNew(c)
      PROVE  VrfBody'
  <2>1. CASE FormerSwitches(c) \/ Disconnect(c) \/ ReadSwitches(c)
    BY <2>1, RegistrationVrf
  <2>2. CASE WriteFirst(c) \/ WriteSecond(c)
    BY <2>2, WritesVrf
  <2>3. CASE WatchForTaskCompletion(c) \/ SearchSwitches(c) \/ SetVrfAtSwitches(c) \/ SetVrfFails(c)
    BY <2>3, WatchForTaskCompletionVrf, SearchSwitchesVrf, SetVrfAtSwitchesVrf, SetVrfFailsVrf
  <2>4. CASE ReplaceWrite(c) \/ HeartbeatWrite(c) \/ DeleteWrite(c)
    BY <2>4, ReplaceWriteVrf, HeartbeatWriteVrf, DeleteVrf
  <2>5. CASE MigrateMachine(c) \/ MigrateOld(c) \/ MigrateNew(c)
    BY <2>5, MigrateMachineVrf, MigrateOldVrf, MigrateNewVrf
  <2> QED BY <1>2, <2>1, <2>2, <2>3, <2>4, <2>5
<1>3. ASSUME NEW c \in Calls, NEW s \in Switches, NEW report \in Reports[s],
             CreateSwitch(c, s, report) \/ UpdateSwitch(c, s, report) \/ Replace(c, s, report)
      PROVE  VrfBody'
  BY <1>3, CreateSwitchVrf, UpdateSwitchVrf, ReplaceVrf
<1>4. ASSUME NEW c \in Calls, NEW s \in Switches,
             Delete(c, s) \/ \E mode \in {"operational", "replace"} : SetReplaceMode(c, s, mode)
      PROVE  VrfBody'
  <2>1. ASSUME NEW mode \in {"operational", "replace"}, SetReplaceMode(c, s, mode)
        PROVE  VrfBody'
    BY <2>1, SetReplaceModeVrf
  <2> QED BY <1>4, <2>1, DeleteVrf
<1>5. ASSUME NEW s \in Switches, ForceDelete(s)
      PROVE  VrfBody'
  BY <1>5 DEF ForceDelete, Quietly
<1>6. ASSUME NEW c \in Calls, NEW s \in Switches,
             \/ \E actual \in [Ports -> {"up", "down"}] : Heartbeat(c, s, actual)
             \/ \E p \in Ports, status \in {"up", "down"} : Port(c, s, p, status)
      PROVE  VrfBody'
  <2>1. ASSUME NEW actual \in [Ports -> {"up", "down"}], Heartbeat(c, s, actual)
        PROVE  VrfBody'
    BY <2>1, HeartbeatVrf
  <2>2. ASSUME NEW p \in Ports, NEW status \in {"up", "down"}, Port(c, s, p, status)
        PROVE  VrfBody'
    BY <2>2, PortVrf
  <2> QED BY <1>6, <2>1, <2>2
<1>7. ASSUME NEW c \in Calls, NEW old \in Switches, NEW new \in Switches, Migrate(c, old, new)
      PROVE  VrfBody'
  BY <1>7, MigrateVrf
<1>8. ASSUME NEW m \in Machines, NEW v \in Vrfs, Allocate(m, v)
      PROVE  VrfBody'
  BY <1>8, AllocateVrf
<1>9. ASSUME NEW m \in Machines, NEW x \in Plugs, NEW y \in Plugs, Replug(m, {x, y})
      PROVE  VrfBody'
  BY <1>9, IdleVrf DEF Replug, rows
<1>10. CASE UNCHANGED vars
  BY <1>10, IdleVrf DEF vars
<1> QED BY <1>1, <1>2, <1>3, <1>4, <1>5, <1>6, <1>7, <1>8, <1>9, <1>10 DEF Next

LEMMA VrfInvNext ==
  ASSUME TypeInv, PortInv, LinkInv, VrfInv, [Next]_vars
  PROVE  VrfInv'
<1>1. TypeInv' /\ PortInv' /\ Grows
  BY NextSteps, StepsStay, PortInvNext
<1>2. SUFFICES ASSUME Calm' PROVE VrfBody'
  BY DEF VrfInv
<1>3. mishap \subseteq mishap' /\ mishap' \subseteq {"overtaken"}
  BY <1>1, <1>2 DEF Calm, Unless, Grows
<1>4. Calm /\ Good
  BY <1>3 DEF Calm, Good, Unless, Mishaps
<1>5. Quietly /\ LinkBody
  BY <1>1, <1>3, <1>4 DEF Quietly, VrfInv, LinkInv
<1> QED BY <1>5, VrfBodyNext

LEMMA VrfInvInit ==
  ASSUME Init
  PROVE  VrfInv
<1>1. PICK s \in Scenarios :
        /\ machine = [m \in Machines |-> [nics |-> s.cable[m], vrf |-> None, up |-> FALSE, stuck |-> {}]]
        /\ sw = [x \in Switches |-> IF x \in s.there THEN
                   [NewSwitch(Ports) EXCEPT !.conns = {c \in Machines \X Ports : <<x, c[2]>> \in s.cable[c[1]]}] ELSE None]
        /\ call = [c \in Calls |-> Idle]
  BY DEF Init
<1>2. \A c \in Calls : call[c].pc = "idle"
  BY <1>1, CallSteps
<1>3. \A m \in Machines : machine[m].vrf = None /\ machine[m].up = FALSE
  BY <1>1
<1>4. \A c \in Calls : SetOK(c) /\ ReplaceOK(c) /\ BeatOK(c) /\ CarryOK(c)
  BY <1>2 DEF SetOK, Current, ReplaceOK, BeatOK, CarryOK, Setting
<1>5. ASSUME NEW x \in Switches, NEW y \in RowsAt(x) PROVE RowVrf(x, y)
  <2>1. y = sw[x] /\ y # None
    BY <1>2, <1>5 DEF RowsAt
  <2>2. y.nics = [p \in Ports |-> Free]
    BY <1>1, <1>5, <2>1 DEF NewSwitch
  <2>3. \A p \in DOMAIN y.nics : y.nics[p].vrf = None
    BY <2>2 DEF Free
  <2>4. \A m \in Machines : PortsOf(y, m) \subseteq DOMAIN y.nics
    BY <2>2 DEF PortsOf
  <2> QED BY <1>3, <2>3, <2>4 DEF RowVrf, VacantVrf, MachineVrf
<1> QED BY <1>3, <1>4, <1>5 DEF VrfInv, VrfBody

LEMMA SettledVrfs ==
  ASSUME VrfInv
  PROVE  VrfsAgree
<1>1. SUFFICES ASSUME Calm PROVE VrfsAgree
  <2>1. Unless(Mishaps) => Calm
    BY DEF Unless, Calm
  <2> QED BY <1>1, <2>1 DEF VrfsAgree, VrfOfAllocation, InstalledInVrf, VacantInNoVrf, Calm
<1>2. VrfBody
  BY <1>1 DEF VrfInv
<1>3. ASSUME NEW s \in There PROVE RowVrf(s, sw[s])
  BY <1>2, <1>3 DEF VrfBody, RowsAt, There
<1>4. ASSUME NEW m \in Machines, Settled(m) PROVE \A c \in Calls : \A s, v : ~Pending(c, s, m, v)
  BY <1>4 DEF Settled, Pending
<1>5. VrfOfAllocation
  BY <1>3, <1>4 DEF VrfOfAllocation, Connected, RowVrf, MachineVrf
<1>6. InstalledInVrf
  <2>1. Unless(Mishaps) => Exact
    BY DEF Unless, Exact, Mishaps
  <2> QED BY <1>3, <2>1 DEF InstalledInVrf, Connected, RowVrf, MachineVrf, InVrf
<1>7. VacantInNoVrf
  BY <1>3 DEF VacantInNoVrf, RowVrf, VacantVrf, NoMachine
<1> QED BY <1>5, <1>6, <1>7 DEF VrfsAgree

\* A port is in the vrf of a project only while its machine is allocated to it, or when the task that was to reset it
\* is archived, also while resets, their retries and the next installation overlap; without such an overlap an
\* installed machine has its ports in its vrf on both switches; ports without a machine are in no vrf. All this holds
\* with registrations, replacements and migrations that interleave, until one of the other mishaps
\* (MachineDeleteHandleFn, SetVrfAtSwitches, adoptFromTwin, Migrate).
THEOREM VrfsOfSwitches == Spec => []VrfsAgree
<1>1. Init => TypeInv /\ PortInv /\ LinkInv /\ VrfInv
  BY TypeInit, PortInvInit, LinkInvInit, VrfInvInit
<1>2. TypeInv /\ PortInv /\ LinkInv /\ VrfInv /\ [Next]_vars => (TypeInv /\ PortInv /\ LinkInv /\ VrfInv)'
  BY NextSteps, StepsStay, PortInvNext, LinkInvNext, VrfInvNext
<1>3. VrfInv => VrfsAgree
  BY SettledVrfs
<1> QED BY <1>1, <1>2, <1>3, PTL DEF Spec

=============================================================================
